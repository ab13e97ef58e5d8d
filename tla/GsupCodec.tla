----------------------------- MODULE GsupCodec -----------------------------
(***************************************************************************)
(* gsup/GsupCodec: GSUP messages to and from octets.                        *)
(***************************************************************************)
EXTENDS PackedDigits

(* A message type is a procedure (bits 7:2) and a direction (bits 1:0).     *)
ProcedureCode ==
    [UpdateLocation |-> 1, SendAuthInfo |-> 2, PurgeMs |-> 3, InsertData |-> 4,
     DeleteData |-> 5, LocationCancel |-> 7]

DirectionCode == [Request |-> 0, Error |-> 1, Result |-> 2]

Types == [proc : DOMAIN ProcedureCode, dir : DOMAIN DirectionCode]

TypeOctet(type) == ProcedureCode[type.proc] * 4 + DirectionCode[type.dir]

UnknownType == [proc |-> "Unknown", dir |-> "Request"]

TypeOf(octet) ==
    IF \E type \in Types : TypeOctet(type) = octet
      THEN CHOOSE type \in Types : TypeOctet(type) = octet
      ELSE UnknownType

IeTag ==
    [Imsi |-> \h01, Cause |-> \h02, AuthTuple |-> \h03,
     PdpInfoComplete |-> \h04, PdpInfo |-> \h05, CancelType |-> \h06,
     FreezePtmsi |-> \h07, Msisdn |-> \h08, HlrNumber |-> \h09,
     NumVectorsReq |-> \h10, Rand |-> \h20, Sres |-> \h21, Kc |-> \h22,
     Ik |-> \h23, Ck |-> \h24, Autn |-> \h25, Res |-> \h27, CnDomain |-> \h28,
     PdpContextId |-> \h60, PdpType |-> \h61, AccessPointName |-> \h62,
     PdpAddress |-> \h63, PdpQos |-> \h64]

(* A GsupMessage as it is constructed.                                      *)
GsupMessage ==
    [type |-> UnknownType, imsi |-> <<>>, cause |-> <<>>,
     numVectorsRequested |-> <<>>, authTuples |-> <<>>, msisdn |-> <<>>,
     hlrNumber |-> <<>>, cnDomain |-> <<>>, pdpInfoList |-> <<>>,
     pdpInfoComplete |-> FALSE, cancelType |-> <<>>, freezePtmsi |-> FALSE]

-----------------------------------------------------------------------------

(* The information elements of a message or of a nested element.  A Cause   *)
(* takes one octet even when its length is 0.                               *)
readIe(a, nested) ==
    LET s   == a.rest
        len == IF s[1] = IeTag.Cause /\ s[2] = 0 /\ ~nested THEN 1 ELSE s[2]
    IN  IF s = <<>> THEN {a}
        ELSE IF Len(s) < 2 \/ Len(s) < 2 + len THEN {}
        ELSE {[ies |-> Append(a.ies, [tag |-> s[1],
                                      value |-> SubSeq(s, 3, 2 + len)]),
               rest |-> Left(s, 2 + len)]}

readIes(s, nested) ==
    {a.ies : a \in While((Len(s) + 1) \div 2, [ies |-> <<>>, rest |-> s],
                         LAMBDA a : readIe(a, nested))}

(* The last value under tag, if there is one.                               *)
LastOf(ies, tag) ==
    LET found == SelectSeq(ies, LAMBDA x : x.tag = tag)
    IN  IF found = <<>> THEN <<>> ELSE <<Last(found).value>>

decodeAuthTuple(ies) ==
    [rand |-> ValueOr(LastOf(ies, IeTag.Rand), <<>>),
     sres |-> ValueOr(LastOf(ies, IeTag.Sres), <<>>),
     kc   |-> ValueOr(LastOf(ies, IeTag.Kc), <<>>),
     ik   |-> LastOf(ies, IeTag.Ik),     ck  |-> LastOf(ies, IeTag.Ck),
     autn |-> LastOf(ies, IeTag.Autn),   res |-> LastOf(ies, IeTag.Res)]

decodePdpInfo(ies) ==
    LET types == SelectSeq(ies, LAMBDA x : x.tag # IeTag.PdpType
                                             \/ Len(x.value) >= 2)
        id    == ValueOr(LastOf(ies, IeTag.PdpContextId), <<>>)
    IN  [contextId  |-> ValueOr(Nth(id, 1), 0),
         pdpType    |-> Each(LastOf(types, IeTag.PdpType),
                             LAMBDA v : <<ValueBE(Taken(v, 2))>>),
         apn        |-> LastOf(ies, IeTag.AccessPointName),
         pdpAddress |-> LastOf(ies, IeTag.PdpAddress),
         qos        |-> LastOf(ies, IeTag.PdpQos)]

(* One case of decode's switch.  The octet of CancelType, NumVectorsReq and *)
(* CnDomain is read only when it is there; unknown elements are skipped.    *)
decodeIe(m, x) ==
    LET v == x.value
        octetOr(old) == IF v = <<>> THEN old ELSE <<v[1]>>
    IN  CASE x.tag = IeTag.Imsi ->
               {[m EXCEPT !.imsi = imsi] : imsi \in bcdToImsi(v)}
          [] x.tag = IeTag.Cause -> {[m EXCEPT !.cause = <<v[1]>>]}
          [] x.tag = IeTag.AuthTuple ->
               {[m EXCEPT !.authTuples = Append(@, decodeAuthTuple(ies))] :
                  ies \in readIes(v, TRUE)}
          [] x.tag = IeTag.PdpInfoComplete ->
               {[m EXCEPT !.pdpInfoComplete = TRUE]}
          [] x.tag = IeTag.PdpInfo ->
               {[m EXCEPT !.pdpInfoList = Append(@, decodePdpInfo(ies))] :
                  ies \in readIes(v, TRUE)}
          [] x.tag = IeTag.CancelType -> {[m EXCEPT !.cancelType = octetOr(@)]}
          [] x.tag = IeTag.FreezePtmsi -> {[m EXCEPT !.freezePtmsi = TRUE]}
          [] x.tag = IeTag.Msisdn -> {[m EXCEPT !.msisdn = <<v>>]}
          [] x.tag = IeTag.HlrNumber -> {[m EXCEPT !.hlrNumber = <<v>>]}
          [] x.tag = IeTag.NumVectorsReq ->
               {[m EXCEPT !.numVectorsRequested = octetOr(@)]}
          [] x.tag = IeTag.CnDomain -> {[m EXCEPT !.cnDomain = octetOr(@)]}
          [] OTHER -> {m}

decode(octets) ==
    IF octets = <<>> THEN {}
    ELSE Then(readIes(Tail(octets), FALSE), LAMBDA ies :
           Loop(ies, [GsupMessage EXCEPT !.type = TypeOf(octets[1])], decodeIe))

-----------------------------------------------------------------------------

writeTlv(tag, value) ==
    IF Len(value) > 255 THEN {} ELSE {<<tag, Len(value)>> \o value}

(* One element for an optional value, and for an octet or a flag.           *)
element(tag, optional) == [i \in DOMAIN optional |-> writeTlv(tag, optional[i])]

octetElement(tag, optional) == element(tag, Each(optional, LAMBDA v : <<<<v>>>>))

flagElement(tag, flag) == IF flag THEN <<writeTlv(tag, <<>>)>> ELSE <<>>

(* Elements one after the other; one that throws leaves nothing.            *)
Written(elements) ==
    Loop(elements, <<>>, LAMBDA s, written : {s \o octets : octets \in written})

(* A constructed element: its length is patched in as a uint8_t.            *)
Nested(tag, elements) ==
    {<<tag, Len(body) % 256>> \o body : body \in Written(elements)}

encodeAuthTuple(t) ==
    Nested(IeTag.AuthTuple,
      <<writeTlv(IeTag.Rand, t.rand), writeTlv(IeTag.Sres, t.sres),
        writeTlv(IeTag.Kc, t.kc)>>
      \o element(IeTag.Ik, t.ik) \o element(IeTag.Ck, t.ck)
      \o element(IeTag.Autn, t.autn) \o element(IeTag.Res, t.res))

encodePdpInfo(p) ==
    Nested(IeTag.PdpInfo,
      <<writeTlv(IeTag.PdpContextId, <<p.contextId>>)>>
      \o element(IeTag.PdpType, Each(p.pdpType, LAMBDA v : <<BE(2, v)>>))
      \o element(IeTag.AccessPointName, p.apn)
      \o element(IeTag.PdpAddress, p.pdpAddress)
      \o element(IeTag.PdpQos, p.qos))

(* The IMSI element; no IMSI has none, and only up to 15 digits will do.    *)
imsiElement(imsi) ==
    IF imsi = <<>> THEN <<>>
    ELSE <<IF Len(imsi) <= 15 /\ \A i \in DOMAIN imsi : imsi[i] \in 0 .. 9
             THEN writeTlv(IeTag.Imsi, packBcd(imsi)) ELSE {}>>

encode(m) ==
    {<<TypeOctet(m.type)>> \o body : body \in Written(
        imsiElement(m.imsi)
        \o octetElement(IeTag.Cause, m.cause)
        \o octetElement(IeTag.NumVectorsReq, m.numVectorsRequested)
        \o [i \in DOMAIN m.authTuples |-> encodeAuthTuple(m.authTuples[i])]
        \o element(IeTag.Msisdn, m.msisdn)
        \o element(IeTag.HlrNumber, m.hlrNumber)
        \o flagElement(IeTag.PdpInfoComplete, m.pdpInfoComplete)
        \o [i \in DOMAIN m.pdpInfoList |-> encodePdpInfo(m.pdpInfoList[i])]
        \o octetElement(IeTag.CancelType, m.cancelType)
        \o flagElement(IeTag.FreezePtmsi, m.freezePtmsi)
        \o octetElement(IeTag.CnDomain, m.cnDomain))}
=============================================================================
