----------------------------- MODULE MCDataPath -----------------------------
(***************************************************************************)
(* Instances of DataPath for TLC: the messages the peers choose from.       *)
(***************************************************************************)
EXTENDS DataPath

(* 15 and 14 digits.                                                        *)
imsi15 == <<2, 6, 2, 0, 1, 9, 8, 7, 6, 5, 4, 3, 2, 1, 0>>
imsi14 == <<2, 6, 2, 0, 1, 9, 8, 7, 6, 5, 4, 3, 2, 1>>
number == <<\h91, \h94, \h61, \h01, \hF0>>

Bytes(n, first) == [i \in 1 .. n |-> (first + i) % 256]

Request(proc) ==
    [Gsup!GsupMessage EXCEPT !.type = [proc |-> proc, dir |-> "Request"],
                             !.imsi = imsi15]

Pdp == [contextId |-> 1, pdpType |-> <<289>>, apn |-> <<Bytes(4, 96)>>,
        pdpAddress |-> <<>>, qos |-> <<Bytes(3, 0)>>]

MCSgsnRequests ==
    {Request("SendAuthInfo"),
     [Request("SendAuthInfo") EXCEPT !.imsi = imsi14,
                                     !.numVectorsRequested = <<5>>],
     [Request("UpdateLocation") EXCEPT !.cnDomain = <<1>>],
     Request("PurgeMs"),
     [Request("LocationCancel") EXCEPT !.cancelType = <<1>>],
     [Request("InsertData") EXCEPT !.msisdn = <<number>>,
                                   !.pdpInfoComplete = TRUE,
                                   !.pdpInfoList = <<Pdp>>],
     Request("DeleteData")}

MCSgsnAnswers == {[dir |-> "Result", cause |-> <<>>],
                  [dir |-> "Error", cause |-> <<>>],
                  [dir |-> "Error", cause |-> <<200>>]}

Invoke(operation, imsi, tid, invokeId) ==
    [Map!MapMessage EXCEPT !.operation = operation, !.imsi = imsi,
                           !.transactionId = tid, !.invokeId = invokeId]

(* One Invoke per IMSI: hlrTx_ holds no more.                               *)
MCHlrInvokes ==
    {[Invoke("InsertSubscriberData", imsi15, \h01020304, 127)
        EXCEPT !.msisdn = <<number>>],
     [Invoke("CancelLocation", imsi14, 128, 0) EXCEPT !.cancelType = <<0>>],
     Invoke("DeleteSubscriberData", <<1>>, 255, 1),
     Invoke("PurgeMS", <<1, 0>>, 256, 1)}

Triplet == [rand |-> Bytes(16, 0), sres |-> Bytes(4, 16), kc |-> Bytes(8, 20)]
Quintuplet == [rand |-> Bytes(16, 30), xres |-> Bytes(8, 46),
               ck |-> Bytes(16, 54), ik |-> Bytes(16, 70),
               autn |-> Bytes(16, 86)]

Result(operation) == [Map!MapMessage EXCEPT !.operation = operation,
                                            !.component = "ReturnResult"]

(* Two quintuplets fit in a UDT, three do not.                              *)
MCHlrResults ==
    {[Result("SendAuthenticationInfo") EXCEPT !.authTriplets = <<Triplet>>],
     [Result("SendAuthenticationInfo") EXCEPT
        !.authQuintuplets = <<Quintuplet, Quintuplet>>],
     [Result("SendAuthenticationInfo") EXCEPT
        !.authQuintuplets = <<Quintuplet, Quintuplet, Quintuplet>>],
     [Result("UpdateGprsLocation") EXCEPT !.hlrNumber = <<number>>],
     [Result("PurgeMS") EXCEPT !.freezePtmsi = TRUE],
     Result("CancelLocation"), Result("InsertSubscriberData"),
     [Map!MapMessage EXCEPT !.component = "ReturnError", !.errorCode = <<1>>]}

MCBeats == {<<7, 7, 7, 7, 7>>}

MCCuts == [sgsn |-> {9, 64}, hlr |-> {23, 150}]

MCHlrGt == <<4, 9, 1, 6, 1, 0, 0, 0, 0, 0, 0>>
MCLocalGt == <<4, 9, 1, 6, 1, 0, 0, 0, 0, 1>>

(* The defaults of main: "+49161000000" and "+49161000001".                 *)
MCDefaultHlrGt == <<-5, 4, 9, 1, 6, 1, 0, 0, 0, 0, 0, 0>>
MCDefaultLocalGt == <<-5, 4, 9, 1, 6, 1, 0, 0, 0, 0, 0, 1>>
MCRoutingContext == <<100>>
=============================================================================
