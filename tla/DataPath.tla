------------------------------ MODULE DataPath ------------------------------
(***************************************************************************)
(* The octets between an SGSN and the HLR: stream reassembly, framing,      *)
(* decoding, conversion and encoding, in both directions, for one ready     *)
(* session and an active association.                                       *)
(*                                                                          *)
(* A peer is modelled by the octets it sends and by the messages it decodes *)
(* from what the proxy sends.  TCP may deliver octets in pieces of any      *)
(* size, so a read takes some of what is on the way.                        *)
(***************************************************************************)
EXTENDS MessageConverter, Codecs, UnorderedMap

CONSTANTS SgsnRequests,    \* GSUP messages the SGSN may send
          SgsnAnswers,     \* what an SGSN's answer may have: dir and cause
          HlrInvokes,      \* MAP Invokes the HLR may send, each once
          HlrResults,      \* results the HLR may answer with
          Beats,           \* data of the gateway's heartbeats
          Cuts,            \* side -> how many octets a read may return
          MaxSent,         \* bound on the messages a peer sends
          MaxTotal,        \* bound on the messages both send
          HlrGt, LocalGt,  \* configured global titles, as digits
          RoutingContext   \* optional

ASSUME CutsAssumption ==
    Cuts.sgsn \subseteq (Nat \ {0}) /\ Cuts.hlr \subseteq (Nat \ {0})

VARIABLES wire,      \* side -> octets sent and not yet read
          buf_,      \* side -> buffer of the stream decoder
          proxy,     \* the tables of the coordinator
          sent,      \* side -> what the peer sent
          received   \* side -> what the peer decoded

vars == <<wire, buf_, proxy, sent, received>>

Side == {"sgsn", "hlr"}

hlrSsn == \h06
localSsn == \h08
opc == 1
dpc == 2

Init ==
    /\ wire = [s \in Side |-> <<>>]
    /\ buf_ = [s \in Side |-> <<>>]
    /\ proxy = [tid |-> 0, transactions |-> EmptyMap, hlrTx |-> EmptyMap]
    /\ sent = [s \in Side |-> <<>>]
    /\ received = [s \in Side |-> <<>>]

-----------------------------------------------------------------------------
(* What leaves the proxy, and what the peer makes of it.                    *)

(* MapTransport::send for a payload.                                        *)
dataFrame(payload) ==
    M3ua!encode(M3ua!makeData(
      [opc |-> opc, dpc |-> dpc, si |-> M3ua!kSiSccp,
       ni |-> M3ua!kNiInternational, mp |-> 0, sls |-> 0,
       userData |-> Sccp!encodeUdt(
         [protocolClass |-> Sccp!kProtoClass0,
          calledParty   |-> Sccp!makeGtAddress(HlrGt, hlrSsn),
          callingParty  |-> Sccp!makeGtAddress(LocalGt, localSsn),
          data          |-> payload])],
      RoutingContext))

(* The gateway decodes a frame down to the MAP message.                     *)
HlrReads(frame) ==
    Then(M3ua!next(frame), LAMBDA r :
      Then(Sccp!decodeUdt(r.msg[1].protocolData[1].userData), LAMBDA udt :
        {[kind |-> "map", msg |-> m, called |-> udt.calledParty,
          calling |-> udt.callingParty] : m \in Map!decode(udt.data)}))

SgsnReads(frame) ==
    Then(Ipa!next(frame), LAMBDA r :
      {[kind |-> "gsup", msg |-> g] : g \in Gsup!decode(r.msg[1].payload)})

(* st: the tables, and what the peers have received so far.                 *)
Deliver(st, side, messages) ==
    Try(messages, st, LAMBDA m : [st EXCEPT !.received[side] = Append(@, m)])

ToHlr(st, payload) == Deliver(st, "hlr", HlrReads(dataFrame(payload)))

(* IpaSession::sendGsup.                                                    *)
ToSgsn(st, g) ==
    Deliver(st, "sgsn", Then(Gsup!encode(g), LAMBDA payload :
                          SgsnReads(Ipa!encode(Ipa!kStreamGsup, payload))))

-----------------------------------------------------------------------------
(* The handlers, as functions from one state of the proxy to the next.  A   *)
(* set has what a function that may throw yields, at most one element.      *)

(* handleGsupPayload for a request.  Both counters advance together, and    *)
(* the one of the invoke identifiers is back at 1 after 127.  A message     *)
(* that cannot be converted or encoded leaves no transaction.               *)
handleGsupRequest(st, g) ==
    LET tid       == st.tid + 1
        allocated == [st EXCEPT !.tid = tid]
        pending(m) ==
          [allocated EXCEPT !.transactions = Assign(@, tid,
             [imsi |-> g.imsi, operation |-> m.operation])]
    IN  Try(gsupToMap(g, tid, 1 + (st.tid % 127)), allocated, LAMBDA m :
          Try(Map!encode(m), allocated, LAMBDA payload :
            ToHlr(pending(m), payload)))

(* handleGsupHlrResponse.                                                   *)
handleGsupHlrResponse(st, g) ==
    LET entry  == st.hlrTx[g.imsi]
        erased == [st EXCEPT !.hlrTx = Without(@, {g.imsi})]
    IN  IF g.imsi \notin DOMAIN st.hlrTx THEN st
        ELSE Try(Then(gsupToMapResult(g, entry.tid, entry.invokeId), Map!encode),
                 erased, LAMBDA payload : ToHlr(erased, payload))

handleGsup(st, g) ==
    IF Switch!isHlrInitiatedGsupType(g.type) THEN handleGsupHlrResponse(st, g)
    ELSE handleGsupRequest(st, g)

(* handleHlrInitiated.                                                      *)
handleHlrInitiated(st, m, g) ==
    IF Gsup!encode(g) = {}
      THEN [st EXCEPT !.hlrTx = Without(@, {g.imsi})]
      ELSE ToSgsn([st EXCEPT !.hlrTx = Assign(@, g.imsi,
                     [tid |-> m.transactionId, invokeId |-> m.invokeId])], g)

(* handleMapPayload.                                                        *)
handleMap(st, m) ==
    LET tid    == m.transactionId
        tx     == st.transactions[tid]
        completed == [st EXCEPT !.transactions = Without(@, {tid})]
        answer == mapToGsup([m EXCEPT
                    !.imsi = IF @ = <<>> THEN tx.imsi ELSE @,
                    !.operation = IF @ = "Unknown" THEN tx.operation ELSE @])
    IN  IF m.component = "Invoke"
          THEN Try(mapInvokeToGsup(m), st, LAMBDA g :
                 handleHlrInitiated(st, m, g))
        ELSE IF tid \notin DOMAIN st.transactions THEN st
        ELSE Try(answer, completed, LAMBDA g : ToSgsn(completed, g))

(* IpaSession::processFrame in state Ready.                                 *)
processFrame(st, frame) ==
    IF frame.streamId = Ipa!kStreamGsup
      THEN Try(Gsup!decode(frame.payload), st, LAMBDA g : handleGsup(st, g))
    ELSE IF /\ frame.streamId = Ipa!kStreamCcm
            /\ Nth(frame.payload, 1) = <<Ipa!kCcmPing>>
      THEN Deliver(st, "sgsn", {[kind |-> "echo", data |-> <<Ipa!kCcmPong>>]})
    ELSE st

(* MapTransport::processMessage in state Active.                            *)
processMessage(st, msg) ==
    IF <<msg.msgClass, msg.msgType>> = <<M3ua!kClassAspsm, M3ua!kTypeHeartbeat>>
      THEN Deliver(st, "hlr",
             {[kind |-> "echo", data |-> r.msg[1].heartbeatData] :
                r \in M3ua!next(M3ua!encode(
                                  M3ua!makeHeartbeatAck(msg.heartbeatData)))})
    ELSE IF /\ <<msg.msgClass, msg.msgType>>
                 = <<M3ua!kClassTransf, M3ua!kTypeData>>
            /\ msg.protocolData # <<>>
            /\ msg.protocolData[1].si = M3ua!kSiSccp
      THEN Try(Then(Sccp!decodeUdt(msg.protocolData[1].userData), LAMBDA udt :
                      Map!decode(udt.data)),
               st, LAMBDA m : handleMap(st, m))
    ELSE st

next(side, buf) == IF side = "sgsn" THEN Ipa!next(buf) ELSE M3ua!next(buf)

process(side, st, msg) ==
    IF side = "sgsn" THEN processFrame(st, msg) ELSE processMessage(st, msg)

(* Mutant: one message per read.                                           *)
drainOne(side, st, buf) ==
    {[st |-> IF r.msg = <<>> THEN st ELSE process(side, st, r.msg[1]),
      buf |-> r.buf] : r \in next(side, buf)}

(* while (auto msg = decoder_.next()): until there is none, which more      *)
(* says.  A message has three octets or more.                               *)
drainNext(side, a) ==
    IF ~a.more THEN {a}
    ELSE {[st |-> IF r.msg = <<>> THEN a.st ELSE process(side, a.st, r.msg[1]),
           buf |-> r.buf, more |-> r.msg # <<>>] : r \in next(side, a.buf)}

drain(side, st, buf) ==
    While(Len(buf) \div 3 + 1, [st |-> st, buf |-> buf, more |-> TRUE],
          LAMBDA a : drainNext(side, a))

(* startRead's completion handler: feed, then handle every whole message.   *)
Read(side, n) ==
    LET size == IF n < Len(wire[side]) THEN n ELSE Len(wire[side])
    IN  /\ wire[side] # <<>>
        /\ \E d \in drain(side, [tid |-> proxy.tid, received |-> received,
                                 transactions |-> proxy.transactions,
                                 hlrTx |-> proxy.hlrTx],
                          buf_[side] \o Taken(wire[side], size)) :
             /\ proxy' = [tid |-> d.st.tid, hlrTx |-> d.st.hlrTx,
                          transactions |-> d.st.transactions]
             /\ received' = d.st.received
             /\ buf_' = [buf_ EXCEPT ![side] = d.buf]
        /\ wire' = [wire EXCEPT ![side] = Left(@, size)]
        /\ UNCHANGED sent

-----------------------------------------------------------------------------
(* The peers.                                                               *)

(* What a message means, whichever protocol it is in.  A vector is the      *)
(* challenge and what goes with it in GSM or in UMTS.                       *)
GsupVector(t) ==
    <<t.rand, IF t.autn = <<>> THEN <<t.sres, t.kc>>
              ELSE t.res \o t.ck \o t.ik \o t.autn>>

GsupSays(g) ==
    [type |-> g.type, imsi |-> g.imsi,
     vectors |-> [i \in DOMAIN g.authTuples |-> GsupVector(g.authTuples[i])],
     asked |-> IF g.type = [proc |-> "SendAuthInfo", dir |-> "Request"]
                 THEN ValueOr(g.numVectorsRequested, 1) ELSE 0,
     msisdn |-> g.msisdn, hlrNumber |-> g.hlrNumber,
     cancelType |-> g.cancelType, freezePtmsi |-> g.freezePtmsi,
     error |-> IF g.type.dir = "Error" THEN ValueOr(g.cause, 34) ELSE 0]

MapSays(m) ==
    [type |-> [proc |-> CHOOSE p \in DOMAIN Switch!OperationOf :
                          Switch!OperationOf[p] = m.operation,
               dir |-> [Invoke |-> "Request", ReturnResult |-> "Result",
                        ReturnError |-> "Error"][m.component]],
     imsi |-> m.imsi,
     vectors |->
       Each(m.authTriplets, LAMBDA t : <<<<t.rand, <<t.sres, t.kc>>>>>>)
       \o Each(m.authQuintuplets, LAMBDA q :
                 <<<<q.rand, <<q.xres, q.ck, q.ik, q.autn>>>>>>),
     asked |-> IF m.operation = "SendAuthenticationInfo"
                 THEN ValueOr(m.numRequestedVectors, 0) ELSE 0,
     msisdn |-> m.msisdn, hlrNumber |-> m.hlrNumber,
     cancelType |-> m.cancelType, freezePtmsi |-> m.freezePtmsi,
     error |-> ValueOr(m.errorCode, 0)]

(* A peer sends octets: what they mean to the other peer, what they are     *)
(* echoed with, and which message of those it received they answer.         *)
Send(side, octets, says, echo, re) ==
    /\ octets \in Seq(Octet)
    /\ wire' = [wire EXCEPT ![side] = @ \o octets]
    /\ sent' = [sent EXCEPT ![side] =
                  Append(@, [says |-> says, echo |-> echo, re |-> re])]
    /\ UNCHANGED <<buf_, proxy, received>>

MaySend(side) ==
    /\ Len(sent[side]) < MaxSent
    /\ Len(sent.sgsn) + Len(sent.hlr) < MaxTotal

Unanswered(side, k) == \A i \in DOMAIN sent[side] : sent[side][i].re # k

(* A DeleteDataRequest of an SGSN is refused by the converter.              *)
SgsnSends(g, re) ==
    \E payload \in Gsup!encode(g) :
      Send("sgsn", Ipa!encode(Ipa!kStreamGsup, payload),
           IF g.type = [proc |-> "DeleteData", dir |-> "Request"]
             THEN <<>> ELSE <<GsupSays(g)>>, <<>>, re)

SgsnStarts == MaySend("sgsn") /\ \E g \in SgsnRequests : SgsnSends(g, 0)

SgsnAnswersRequest ==
    /\ MaySend("sgsn")
    /\ \E k \in DOMAIN received.sgsn, a \in SgsnAnswers :
         LET g == received.sgsn[k].msg
         IN  /\ received.sgsn[k].kind = "gsup"
             /\ g.type.dir = "Request"
             /\ Unanswered("sgsn", k)
             /\ SgsnSends([Gsup!GsupMessage EXCEPT
                             !.type = [proc |-> g.type.proc, dir |-> a.dir],
                             !.imsi = g.imsi, !.cause = a.cause], k)

SgsnPings ==
    /\ MaySend("sgsn")
    /\ Send("sgsn", Ipa!encode(Ipa!kStreamCcm, <<Ipa!kCcmPing>>), <<>>,
            <<<<Ipa!kCcmPong>>>>, 0)

(* m on the wire, understood in the dialogue it belongs to.  A gateway      *)
(* sends what does not fit in a UDT as an XUDT, which the proxy refuses.    *)
HlrSends(m, understood, re) ==
    \E payload \in Map!encode(m) :
      LET xudt == [opc |-> dpc, dpc |-> opc, si |-> M3ua!kSiSccp, ni |-> 0,
                   mp |-> 0, sls |-> 0, userData |-> <<\h11>> \o payload]
      IN  IF Len(payload) > 255
            THEN Send("hlr", M3ua!encode(M3ua!makeData(xudt, <<>>)), <<>>,
                      <<>>, re)
            ELSE Send("hlr", dataFrame(payload), <<MapSays(understood)>>,
                      <<>>, re)

HlrStarts ==
    /\ MaySend("hlr")
    /\ \E m \in HlrInvokes :
         /\ \A i \in DOMAIN sent.hlr : sent.hlr[i].says # <<MapSays(m)>>
         /\ HlrSends(m, m, 0)

HlrAnswersInvoke ==
    /\ MaySend("hlr")
    /\ \E k \in DOMAIN received.hlr, r \in HlrResults :
         LET m == received.hlr[k].msg
             a == [r EXCEPT !.transactionId = m.transactionId,
                            !.invokeId = m.invokeId]
         IN  /\ received.hlr[k].kind = "map"
             /\ m.component = "Invoke"
             /\ r.operation \in {m.operation, "Unknown"}
             /\ Unanswered("hlr", k)
             /\ HlrSends(a, [a EXCEPT !.imsi = m.imsi, !.operation = m.operation],
                         k)

GatewayBeats ==
    /\ MaySend("hlr")
    /\ \E data \in Beats :
         Send("hlr", M3ua!encode(M3ua!makeHeartbeat(data)), <<>>, <<data>>, 0)

(* Everything sent was read; the peers need not send any more.              *)
Quiet ==
    /\ \A side \in Side : wire[side] = <<>>
    /\ UNCHANGED vars

Next ==
    \/ \E side \in Side : \E n \in Cuts[side] : Read(side, n)
    \/ SgsnStarts
    \/ SgsnAnswersRequest
    \/ SgsnPings
    \/ HlrStarts
    \/ HlrAnswersInvoke
    \/ GatewayBeats
    \/ Quiet

Spec == Init /\ [][Next]_vars

-----------------------------------------------------------------------------
(* Properties.                                                              *)

(* The HLR understands an answer by its own Invoke of that identifier.      *)
HlrUnderstands(m) ==
    LET asked == {i \in HlrInvokes : i.transactionId = m.transactionId
                                        /\ i.invokeId = m.invokeId}
    IN  IF m.component = "Invoke" THEN {MapSays(m)}
        ELSE {MapSays([m EXCEPT !.imsi = i.imsi,
                 !.operation = IF @ = "Unknown" THEN i.operation ELSE @]) :
                i \in asked}

Heard(side) ==
    Each(received[side], LAMBDA x :
      IF x.kind = "map" THEN <<HlrUnderstands(x.msg)>>
      ELSE IF x.kind = "gsup" THEN <<{GsupSays(x.msg)}>>
      ELSE <<>>)

Said(side) == Each(sent[side], LAMBDA x : Each(x.says, LAMBDA m : <<{m}>>))

Echoed(side) == Each(received[side], LAMBDA x :
                       IF x.kind = "echo" THEN <<x.data>> ELSE <<>>)

EchoDue(side) == Each(sent[side], LAMBDA x : x.echo)

Other == [sgsn |-> "hlr", hlr |-> "sgsn"]

(* Each peer hears what the other said, in order and with the same subject, *)
(* procedure, outcome, vectors and numbers, wherever the streams were cut;  *)
(* errors and results regain the IMSI and operation they lack on the wire.  *)
(* The domain and the PDP contexts, which the converter drops, are not      *)
(* compared.  Echoes carry the data they were asked to.                     *)
Translated ==
    \A side \in Side :
      /\ IsPrefix(Heard(side), Said(Other[side]))
      /\ IsPrefix(Echoed(side), EchoDue(side))

(* Once everything on the way was read, nothing waits in a decoder: all     *)
(* that could be relayed was relayed, all echoes were sent.                 *)
NothingHeldBack ==
    \A side \in Side : wire[side] = <<>> =>
      /\ buf_[side] = <<>>
      /\ Len(Heard(Other[side])) = Len(Said(side))
      /\ Len(Echoed(side)) = Len(EchoDue(side))

(* The digits of a number that may begin with '+'.                          *)
E164(gt) == Each(gt, LAMBDA d : IF d \in 0 .. 9 THEN <<d>> ELSE <<>>)

(* Every message for the HLR is addressed to the configured global title    *)
(* and names the proxy's own, digit for digit.                              *)
HlrAddressed ==
    \A k \in DOMAIN received.hlr : received.hlr[k].kind = "map" =>
      /\ received.hlr[k].called = Sccp!makeGtAddress(E164(HlrGt), hlrSsn)
      /\ received.hlr[k].calling = Sccp!makeGtAddress(E164(LocalGt), localSsn)
=============================================================================
