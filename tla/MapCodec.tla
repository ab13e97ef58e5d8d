------------------------------ MODULE MapCodec ------------------------------
(***************************************************************************)
(* map/MapCodec: MAP operations in TCAP, to and from octets.                *)
(***************************************************************************)
EXTENDS BerCodec, PackedDigits

OperationCode ==
    [CancelLocation |-> 3, InsertSubscriberData |-> 7,
     DeleteSubscriberData |-> 8, UpdateGprsLocation |-> 23,
     SendAuthenticationInfo |-> 56, PurgeMS |-> 67, Unknown |-> 255]

(* The cast of an integer to MapOperation, which has eight bits.            *)
Operation(n) ==
    IF \E op \in DOMAIN OperationCode : OperationCode[op] = n % 256
      THEN CHOOSE op \in DOMAIN OperationCode : OperationCode[op] = n % 256
      ELSE "Other"

kTcapTagBegin      == \h62
kTcapTagEnd        == \h64
kTcapTagOtid       == \h48
kTcapTagDtid       == \h49
kTcapTagComponents == \h6C

CompTag == [Invoke |-> \hA1, ReturnResult |-> \hA2, ReturnError |-> \hA3]

(* A MapMessage as it is constructed.                                       *)
MapMessage ==
    [transactionId |-> 0, component |-> "Invoke", invokeId |-> 1,
     operation |-> "Unknown", imsi |-> <<>>, numRequestedVectors |-> <<>>,
     authTriplets |-> <<>>, authQuintuplets |-> <<>>, sgsnNumber |-> <<>>,
     sgsnAddress |-> <<>>, hlrNumber |-> <<>>, msisdn |-> <<>>,
     cancelType |-> <<>>, freezePtmsi |-> FALSE, errorCode |-> <<>>]

-----------------------------------------------------------------------------

octetStrings(values) == Each(values, LAMBDA v : writeTlv(kBerOctetStr, v))

(* encode<Operation>Req: the IMSI, and what the operation has besides it.   *)
encodeReq(m) ==
    octetStrings(<<packBcd(m.imsi)>>) \o
    CASE m.operation = "SendAuthenticationInfo" ->
           writeTlvInt(kBerInt, ValueOr(m.numRequestedVectors, 1))
      [] m.operation = "UpdateGprsLocation" ->
           octetStrings(m.sgsnNumber \o m.sgsnAddress)
      [] m.operation = "CancelLocation" ->
           Each(m.cancelType, LAMBDA v : writeTlvOctet(kBerInt, v))
      [] m.operation = "InsertSubscriberData" -> octetStrings(m.msisdn)
      [] m.operation = "DeleteSubscriberData" -> <<>>
      [] m.operation = "PurgeMS" -> octetStrings(m.sgsnNumber)

(* encode<Operation>Res.                                                    *)
encodeRes(m) ==
    CASE m.operation = "SendAuthenticationInfo" ->
           Each(m.authTriplets, LAMBDA t :
             writeTlv(kBerSequence, octetStrings(<<t.rand, t.sres, t.kc>>)))
           \o Each(m.authQuintuplets, LAMBDA q :
             writeTlv(kBerSequence,
                      octetStrings(<<q.rand, q.xres, q.ck, q.ik, q.autn>>)))
      [] m.operation = "UpdateGprsLocation" -> octetStrings(m.hlrNumber)
      [] m.operation = "PurgeMS" ->
           IF m.freezePtmsi THEN <<kBerNull, 0>> ELSE <<>>

(* A CancelLocation, InsertSubscriberData or DeleteSubscriberData result    *)
(* has the arguments of the request.                                        *)
arguments(m) ==
    IF m.operation \notin DOMAIN OperationCode \ {"Unknown"} THEN <<>>
    ELSE writeTlv(kBerSequence,
           IF m.component # "Invoke" /\ m.operation \in
                {"SendAuthenticationInfo", "UpdateGprsLocation", "PurgeMS"}
             THEN encodeRes(m) ELSE encodeReq(m))

(* encodeInvoke, encodeReturnResult, encodeReturnError.                     *)
encodeComponent(m) ==
    LET operation == writeTlvInt(kBerInt, OperationCode[m.operation])
    IN  writeTlv(CompTag[m.component],
          writeTlvInt(kBerInt, m.invokeId) \o
          CASE m.component = "Invoke" -> operation \o arguments(m)
            [] m.component = "ReturnResult" ->
                 writeTlv(kBerSequence, operation \o arguments(m))
            [] m.component = "ReturnError" ->
                 writeTlvInt(kBerInt, ValueOr(m.errorCode, 34)))

encodePdu(m) ==
    writeTlv(IF m.component = "Invoke" THEN kTcapTagOtid ELSE kTcapTagDtid,
             BE(4, m.transactionId))
    \o writeTlv(kTcapTagComponents, encodeComponent(m))

(* writeLength throws for more than 65535 octets; when it does for a part,  *)
(* the whole is longer still.                                               *)
encode(m) ==
    IF Len(encodePdu(m)) > 65535 THEN {}
    ELSE {writeTlv(IF m.component = "Invoke" THEN kTcapTagBegin ELSE kTcapTagEnd,
                   encodePdu(m))}

-----------------------------------------------------------------------------

(* A cast to uint8_t of the integer in a value.                             *)
decodeOctet(value) == {n % 256 : n \in decodeInt(value)}

(* The IMSI of a request is the first of its octet strings, if it has any.  *)
firstImsi(m, octets) == IF octets = <<>> THEN {m.imsi} ELSE bcdToImsi(octets[1])

behindFirst(octets) == IF octets = <<>> THEN <<>> ELSE Tail(octets)

decodeSendAuthInfoReq(m, tlvs) ==
    LET octets == SelectSeq(ValuesOf(tlvs, kBerOctetStr), LAMBDA o : o # <<>>)
        ints   == ValuesOf(tlvs, kBerInt)
        counts == IF m.numRequestedVectors # <<>> \/ ints = <<>>
                    THEN {m.numRequestedVectors}
                    ELSE {<<n>> : n \in decodeOctet(ints[1])}
    IN  Then(IF m.imsi # <<>> THEN {m.imsi} ELSE firstImsi(m, octets),
             LAMBDA imsi : {[m EXCEPT !.imsi = imsi,
                                      !.numRequestedVectors = n] : n \in counts})

(* An octet string fills the first field that is still unset.               *)
decodeUpdateGprsLocationReq(m, tlvs) ==
    LET octets == ValuesOf(tlvs, kBerOctetStr)
        unset  == m.imsi = <<>>
        all    == m.sgsnNumber \o m.sgsnAddress
                    \o IF unset THEN behindFirst(octets) ELSE octets
    IN  {[m EXCEPT !.imsi = imsi, !.sgsnNumber = Nth(all, 1),
                   !.sgsnAddress = Nth(all, 2)] :
           imsi \in IF unset THEN firstImsi(m, octets) ELSE {m.imsi}}

cancelTypes(m, ints) ==
    Loop(ints, m, LAMBDA a, i :
           {[a EXCEPT !.cancelType = <<n>>] : n \in decodeOctet(i)})

decodeCancelLocationReq(m, tlvs) ==
    Then(firstImsi(m, ValuesOf(tlvs, kBerOctetStr)), LAMBDA imsi :
           cancelTypes([m EXCEPT !.imsi = imsi], ValuesOf(tlvs, kBerInt)))

decodeInsertSubscriberDataReq(m, tlvs) ==
    LET octets == ValuesOf(tlvs, kBerOctetStr)
    IN  {[m EXCEPT !.imsi = imsi, !.msisdn = Nth(@ \o behindFirst(octets), 1)] :
           imsi \in firstImsi(m, octets)}

decodeDeleteSubscriberDataReq(m, tlvs) ==
    {[m EXCEPT !.imsi = imsi] :
       imsi \in IF m.imsi = <<>> /\ tlvs # <<>> /\ tlvs[1].tag = kBerOctetStr
                  THEN firstImsi(m, ValuesOf(tlvs, kBerOctetStr)) ELSE {m.imsi}}

decodePurgeMsReq(m, tlvs) ==
    LET octets == ValuesOf(tlvs, kBerOctetStr)
    IN  {[m EXCEPT !.imsi = imsi,
                   !.sgsnNumber = Nth(@ \o behindFirst(octets), 1)] :
           imsi \in firstImsi(m, octets)}

decodeReq(m, tlvs) ==
    CASE m.operation = "SendAuthenticationInfo" -> decodeSendAuthInfoReq(m, tlvs)
      [] m.operation = "UpdateGprsLocation" -> decodeUpdateGprsLocationReq(m, tlvs)
      [] m.operation = "CancelLocation" -> decodeCancelLocationReq(m, tlvs)
      [] m.operation = "InsertSubscriberData" ->
           decodeInsertSubscriberDataReq(m, tlvs)
      [] m.operation = "DeleteSubscriberData" ->
           decodeDeleteSubscriberDataReq(m, tlvs)
      [] m.operation = "PurgeMS" -> decodePurgeMsReq(m, tlvs)

(* A vector is a quintuplet when it has five fields or more; one of fewer   *)
(* than three is ignored.                                                   *)
decodeVector(m, x) ==
    IF x.tag # kBerSequence THEN {m}
    ELSE Then(readTlvs(x.value), LAMBDA tlvs :
      LET f == ValuesOf(tlvs, kBerOctetStr)
      IN  {IF Len(f) >= 5
             THEN [m EXCEPT !.authQuintuplets = Append(@,
                     [rand |-> f[1], xres |-> f[2], ck |-> f[3],
                      ik |-> f[4], autn |-> f[5]])]
           ELSE IF Len(f) >= 3
             THEN [m EXCEPT !.authTriplets = Append(@,
                     [rand |-> f[1], sres |-> f[2], kc |-> f[3]])]
           ELSE m})

(* decode<Operation>Res.                                                    *)
decodeRes(m, tlvs) ==
    CASE m.operation = "SendAuthenticationInfo" -> Loop(tlvs, m, decodeVector)
      [] m.operation = "UpdateGprsLocation" ->
           {[m EXCEPT !.hlrNumber = Nth(@ \o ValuesOf(tlvs, kBerOctetStr), 1)]}
      [] m.operation = "PurgeMS" ->
           {[m EXCEPT !.freezePtmsi = @ \/ ValuesOf(tlvs, kBerNull) # <<>>]}

(* Only the request of DeleteSubscriberData stops at its first element.     *)
decodeElements(m, s) ==
    IF m.component = "Invoke" /\ m.operation = "DeleteSubscriberData" /\ s # <<>>
      THEN {<<x>> : x \in readTlv(s)} ELSE readTlvs(s)

(* Only the request of SendAuthenticationInfo insists on a SEQUENCE.        *)
decodeSequence(m, args) ==
    IF m.component = "Invoke" /\ m.operation = "SendAuthenticationInfo"
                              /\ args.tag # kBerSequence
      THEN {m}
      ELSE Then(decodeElements(m, args.value), LAMBDA x :
             IF m.component = "Invoke" THEN decodeReq(m, x) ELSE decodeRes(m, x))

(* The arguments behind an operation code; there may be none.               *)
decodeArguments(m, octets) ==
    LET known == IF m.component = "Invoke"
                   THEN DOMAIN OperationCode \ {"Unknown"}
                   ELSE {"SendAuthenticationInfo", "UpdateGprsLocation",
                         "PurgeMS"}
    IN  IF octets = <<>> \/ m.operation \notin known THEN {m}
        ELSE Then(readTlv(octets), LAMBDA args : decodeSequence(m, args))

(* An operation code and the arguments behind it.                           *)
decodeOperation(m, op) ==
    Then(decodeInt(op.value), LAMBDA n :
      decodeArguments([m EXCEPT !.operation = Operation(n)], op.rest))

(* What follows the invoke id: the operation, which a result has in a       *)
(* SEQUENCE of its own, or the error.                                       *)
decodeOutcome(m, x) ==
    CASE m.component = "Invoke" -> decodeOperation(m, x)
      [] m.component = "ReturnResult" ->
           Then(readTlv(x.value), LAMBDA op : decodeOperation(m, op))
      [] m.component = "ReturnError" ->
           {[m EXCEPT !.errorCode = <<n>>] : n \in decodeOctet(x.value)}

decodeInvokeId(m, id) ==
    Then(decodeOctet(id.value), LAMBDA invokeId :
      Then(readTlv(id.rest), LAMBDA x :
        decodeOutcome([m EXCEPT !.invokeId = invokeId], x)))

(* One component; one of another kind is ignored.                           *)
decodeComponent(m, c) ==
    LET comp == CHOOSE k \in DOMAIN CompTag : CompTag[k] = c.tag
    IN  IF \A k \in DOMAIN CompTag : CompTag[k] # c.tag THEN {m}
        ELSE Then(readTlv(c.value), LAMBDA id :
               decodeInvokeId([m EXCEPT !.component = comp], id))

(* One field of the TCAP message: the last identifier counts, its last four *)
(* octets.                                                                  *)
decodeField(m, x) ==
    IF x.tag \in {kTcapTagOtid, kTcapTagDtid}
      THEN {[m EXCEPT !.transactionId =
               ValueBE(Left(x.value, IF Len(x.value) > 4
                                       THEN Len(x.value) - 4 ELSE 0))]}
    ELSE IF x.tag = kTcapTagComponents
      THEN Then(readTlvs(x.value), LAMBDA cs :
             Loop(cs, m, decodeComponent))
    ELSE {m}

decode(octets) ==
    Then(readTlv(octets), LAMBDA pdu :
      Then(readTlvs(pdu.value), LAMBDA fields :
        Loop(fields, MapMessage, decodeField)))
=============================================================================
