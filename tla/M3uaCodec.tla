----------------------------- MODULE M3uaCodec -----------------------------
(***************************************************************************)
(* transport/M3uaCodec: M3UA messages and their reassembly from a stream.   *)
(***************************************************************************)
EXTENDS Octets

kVersion          == \h01
kClassTransf      == \h01
kClassAspsm       == \h03
kTypeData         == \h01
kTypeHeartbeat    == \h05
kTypeHeartbeatAck == \h06
kTagRoutingCtx    == \h0006
kTagHeartbeatData == \h0009
kTagProtocolData  == \h0210
kSiSccp           == \h03
kNiInternational  == \h00
kCommonHeaderSize == 8
kMaxM3uaMessageSize == 64 * 1024

Message(class, type) ==
    [msgClass |-> class, msgType |-> type, routingContext |-> <<>>,
     protocolData |-> <<>>, heartbeatData |-> <<>>]

makeHeartbeat(data) ==
    [Message(kClassAspsm, kTypeHeartbeat) EXCEPT !.heartbeatData = data]

makeHeartbeatAck(data) ==
    [Message(kClassAspsm, kTypeHeartbeatAck) EXCEPT !.heartbeatData = data]

makeData(pd, rc) ==
    [Message(kClassTransf, kTypeData) EXCEPT !.protocolData = <<pd>>,
                                             !.routingContext = rc]

-----------------------------------------------------------------------------

padding(n) == (4 - (n % 4)) % 4

writeTlv(tag, value) ==
    BE(2, tag) \o BE(2, 4 + Len(value)) \o value
      \o [i \in 1 .. padding(Len(value)) |-> 0]

(* The common header, whose length covers the whole message.                *)
frame(class, type, body) ==
    <<kVersion, 0, class, type>> \o BE(4, kCommonHeaderSize + Len(body)) \o body

encode(m) ==
    LET body ==
          Each(m.routingContext, LAMBDA rc : writeTlv(kTagRoutingCtx, BE(4, rc)))
          \o (IF m.heartbeatData = <<>> THEN <<>>
              ELSE writeTlv(kTagHeartbeatData, m.heartbeatData))
          \o Each(m.protocolData, LAMBDA pd : writeTlv(kTagProtocolData,
               BE(4, pd.opc) \o BE(4, pd.dpc)
               \o <<pd.si, pd.ni, pd.mp, pd.sls>> \o pd.userData))
    IN  frame(m.msgClass, m.msgType, body)

decodeTlv(m, tag, v) ==
    CASE tag = kTagRoutingCtx ->
           {IF Len(v) < 4 THEN m
            ELSE [m EXCEPT !.routingContext = <<ValueBE(Taken(v, 4))>>]}
      [] tag = kTagHeartbeatData -> {[m EXCEPT !.heartbeatData = v]}
      [] tag = kTagProtocolData ->
           IF Len(v) < 12 THEN {}
           ELSE {[m EXCEPT !.protocolData =
                    <<[opc |-> ValueBE(SubSeq(v, 1, 4)),
                       dpc |-> ValueBE(SubSeq(v, 5, 8)),
                       si |-> v[9], ni |-> v[10], mp |-> v[11], sls |-> v[12],
                       userData |-> Left(v, 12)]>>]}
      [] OTHER -> {m}

(* One TLV of what is left of the body.  Padding is skipped when it is      *)
(* there; fewer than four octets at the end are ignored.                    *)
decodeNext(a) ==
    LET len == ValueBE(SubSeq(a.rest, 3, 4))
        end == len + padding(len)
    IN  IF Len(a.rest) < 4 THEN {a}
        ELSE IF len < 4 \/ len > Len(a.rest) THEN {}
        ELSE {[msg |-> m, rest |-> Left(a.rest, IF end <= Len(a.rest)
                                                  THEN end ELSE len)] :
                m \in decodeTlv(a.msg, ValueBE(Taken(a.rest, 2)),
                                SubSeq(a.rest, 5, len))}

(* The loop over the body; a turn takes four octets or more.                *)
decodeTlvs(m, s) ==
    {a.msg : a \in While(Len(s) \div 4, [msg |-> m, rest |-> s], decodeNext)}

(* A message of as many octets as its length says.                         *)
decode(s) ==
    IF s[1] # kVersion THEN {}
    ELSE decodeTlvs(Message(s[3], s[4]), Left(s, kCommonHeaderSize))

(* M3uaDecoder::next: the first message in the buffer, once it is complete. *)
(* A length below the header's is taken out of the buffer as if it were     *)
(* incomplete, which ends the caller's loop.                                *)
next(buf) ==
    LET totalLen == ValueBE(SubSeq(buf, 5, 8))
    IN  IF Len(buf) < kCommonHeaderSize THEN {[buf |-> buf, msg |-> <<>>]}
        ELSE IF totalLen > kMaxM3uaMessageSize THEN {}
        ELSE IF Len(buf) < totalLen THEN {[buf |-> buf, msg |-> <<>>]}
        ELSE IF totalLen < kCommonHeaderSize
          THEN {[buf |-> Left(buf, totalLen), msg |-> <<>>]}
        ELSE {[buf |-> Left(buf, totalLen), msg |-> <<m>>] :
                m \in decode(Taken(buf, totalLen))}
=============================================================================
