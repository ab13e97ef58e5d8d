--------------------------- MODULE DataPathProofs ---------------------------
(***************************************************************************)
(* Proof that every message which reaches the HLR over the M3UA connection  *)
(* is addressed as the configuration says, whatever messages the SGSN and   *)
(* the HLR send and however their streams are cut.                          *)
(*                                                                          *)
(* The argument has three parts.  A frame sent for a payload is read back   *)
(* with the called and the calling address it was built with.  What the     *)
(* decoders make of octets of any content and length is well typed, so that *)
(* what the converter makes of it is encoded as octets.  And each turn of   *)
(* the read loops of IpaSession and MapTransport hands on no other frames.  *)
(* What a loop keeps is taken from Iteration, instantiated with its body.   *)
(***************************************************************************)
EXTENDS DataPath, FramingProofs

-----------------------------------------------------------------------------
(* The frames for the HLR.                                                  *)

(* The configuration: global titles of digits, whose packed form leaves     *)
(* room for both addresses in a UDT, and perhaps a routing context.         *)
Configured ==
    /\ HlrGt \in Seq(Digits) /\ LocalGt \in Seq(Digits)
    /\ (Len(HlrGt) + 1) \div 2 + ((Len(LocalGt) + 1) \div 2) <= 242
    /\ RoutingContext \in RoutingContexts

(* x names the configured addresses, if it is a MAP message at all.         *)
Addressed(x) ==
    x.kind = "map" =>
      /\ x.called = Sccp!makeGtAddress(HlrGt, hlrSsn)
      /\ x.calling = Sccp!makeGtAddress(LocalGt, localSsn)

(* The octets of the UDT.                                                   *)
udtFor(payload) ==
    Sccp!encodeUdt(
         [protocolClass |-> Sccp!kProtoClass0,
          calledParty   |-> Sccp!makeGtAddress(HlrGt, hlrSsn),
          callingParty  |-> Sccp!makeGtAddress(LocalGt, localSsn),
          data          |-> payload])

pdFor(payload) ==
    [opc |-> opc, dpc |-> dpc, si |-> M3ua!kSiSccp,
     ni |-> M3ua!kNiInternational, mp |-> 0, sls |-> 0,
     userData |-> udtFor(payload)]

LEMMA FrameOf ==
  ASSUME Configured, NEW payload \in Seq(Octet)
  PROVE  /\ dataFrame(payload) = M3ua!encode(M3ua!makeData(pdFor(payload), RoutingContext))
         /\ pdFor(payload) \in ProtocolData
         /\ Len(payload) \in Nat /\ Len(udtFor(payload)) \in Nat
         /\ Len(udtFor(payload)) <= 260 + Len(payload)
<1>1. dataFrame(payload) = M3ua!encode(M3ua!makeData(pdFor(payload), RoutingContext))
  BY Zenon DEF dataFrame, pdFor, udtFor
<1>2. PICK a \in Octet, b \in Octet, c \in Octet :
        a = hlrSsn /\ b = localSsn /\ c = Sccp!kProtoClass0
  BY DEF Octet, hlrSsn, localSsn, Sccp!kProtoClass0
<1>3. PICK udt : udt = Udt(c, HlrGt, a, LocalGt, b, payload)
  OBVIOUS
<1>4. /\ HlrGt \in Seq(Digits) /\ LocalGt \in Seq(Digits)
      /\ (Len(HlrGt) + 1) \div 2 + ((Len(LocalGt) + 1) \div 2) <= 242
  BY Zenon DEF Configured
<1>5. /\ Sccp!encodeUdt(udt) \in Seq(Octet) /\ Len(payload) \in Nat
      /\ Len(Sccp!encodeUdt(udt)) \in Nat
      /\ Len(Sccp!encodeUdt(udt)) <= 260 + Len(payload)
  <2>1. IsSized(Sccp!encodeUdt(udt), payload)
    BY <1>3, <1>4, UdtSize, Zenon
  <2> QED
    BY <2>1, Zenon DEF IsSized
<1>6. udtFor(payload) = Sccp!encodeUdt(udt)
  BY <1>2, <1>3, Zenon DEF udtFor, Udt
<1>7. PICK u \in Seq(Octet) : u = udtFor(payload)
  BY <1>5, <1>6, Zenon
<1>8. /\ 1 \in UInt32 /\ 2 \in UInt32 /\ 0 \in Octet /\ 3 \in Octet
  BY DEF UInt32, Octet
<1>9. pdFor(payload) \in ProtocolData
  <2>1. pdFor(payload) = [opc |-> 1, dpc |-> 2, si |-> 3, ni |-> 0, mp |-> 0,
                          sls |-> 0, userData |-> u]
    BY <1>7 DEF pdFor, opc, dpc, M3ua!kSiSccp, M3ua!kNiInternational
  <2> QED
    BY <1>8, <2>1 DEF ProtocolData
<1> QED
  BY <1>1, <1>5, <1>6, <1>9, Zenon

(* What the HLR's gateway reads of the frame is the UDT.                    *)
LEMMA FrameNext ==
  ASSUME Configured, NEW payload \in Seq(Octet), Len(payload) <= 256 * (256 * 256)
  PROVE  \A r \in M3ua!next(dataFrame(payload)) :
           r.msg[1].protocolData[1].userData = udtFor(payload)
<1>1. PICK pd \in ProtocolData : pd = pdFor(payload)
  BY FrameOf, Zenon
<1>2. PICK rc \in RoutingContexts : rc = RoutingContext
  BY Zenon DEF Configured
<1>3. PICK raw : raw = M3ua!encode(M3ua!makeData(pd, rc))
  OBVIOUS
<1>4. raw = dataFrame(payload)
  BY <1>1, <1>2, <1>3, FrameOf, Zenon
<1>5. Len(raw) \in Nat /\ Len(raw) < 256 * (256 * (256 * 256)) /\ raw \in Seq(Octet)
  <2>1. PICK body \in Seq(Octet) :
          /\ raw = M3ua!frame(1, 1, body) /\ body = RcTlv(rc) \o PdTlv(pd)
          /\ Len(body) = Len(RcTlv(rc)) + Len(PdTlv(pd))
          /\ Len(pd.userData) \in Nat /\ Len(RcTlv(rc)) \in {0, 8}
          /\ Len(PdTlv(pd)) \in (16 + Len(pd.userData)) .. (19 + Len(pd.userData))
    BY <1>3, DataOctets
  <2>2. pd.userData = udtFor(payload)
    BY <1>1 DEF pdFor
  <2>3. Len(pd.userData) <= 260 + Len(payload) /\ Len(payload) \in Nat
    BY <2>2, FrameOf, Zenon
  <2>4. 1 \in Octet
    BY DEF Octet
  <2>5. raw \in Seq(Octet) /\ Len(raw) = 8 + Len(body)
    BY <2>1, <2>4, FrameLength
  <2>6. PICK x \in Nat, y \in Nat, z \in Nat :
          /\ x = Len(RcTlv(rc)) /\ y = Len(PdTlv(pd)) /\ z = Len(payload)
    <3>1. Len(RcTlv(rc)) \in Nat /\ Len(PdTlv(pd)) \in Nat
      BY <2>1
    <3> QED
      BY <2>3, <3>1, Zenon
  <2>a. x <= 8 /\ y <= 279 + z
    <3>1. PICK u \in Nat : u = Len(pd.userData)
      BY <2>1, Zenon
    <3>2. x \in {0, 8} /\ y \in (16 + u) .. (19 + u) /\ u <= 260 + z
      BY <2>1, <2>3, <2>6, <3>1, Zenon
    <3> QED
      BY <3>2
  <2>7. Len(raw) = 8 + (x + y)
    BY <2>1, <2>5, <2>6, Zenon
  <2> QED
    BY <2>5, <2>6, <2>a, <2>7
<1>6. PICK e \in Seq(Octet) : e = <<>>
  <2>1. <<>> \in Seq(Octet)
    OBVIOUS
  <2> QED
    BY <2>1, Zenon
<1>7. raw \o e = raw
  BY <1>5, <1>6, ConcatEmptySeq
<1>8. /\ Len(raw) <= M3ua!kMaxM3uaMessageSize =>
           M3ua!next(raw \o e) = {[buf |-> e, msg |-> <<M3ua!makeData(pd, rc)>>]}
      /\ Len(raw) > M3ua!kMaxM3uaMessageSize => M3ua!next(raw \o e) = {}
  BY <1>3, <1>5, DataRoundTrip
<1>9. Len(raw) <= M3ua!kMaxM3uaMessageSize \/ Len(raw) > M3ua!kMaxM3uaMessageSize
  BY <1>5 DEF M3ua!kMaxM3uaMessageSize
<1>10. ASSUME NEW r \in M3ua!next(raw)
       PROVE  r.msg[1].protocolData[1].userData = udtFor(payload)
  <2>1. PICK d : d = M3ua!makeData(pd, rc)
    OBVIOUS
  <2>2. r = [buf |-> e, msg |-> <<d>>]
    BY <1>7, <1>8, <1>9, <1>10, <2>1, Zenon
  <2>3. d = Msg(1, 1, rc, <<pd>>, <<>>)
    BY <2>1, DataMessage, Zenon
  <2>4. d.protocolData = <<pd>>
    BY <2>3 DEF Msg
  <2>5. r.msg[1] = d
    BY <2>2
  <2>6. r.msg[1].protocolData[1] = pd
    BY <2>4, <2>5
  <2>7. pd.userData = udtFor(payload)
    BY <1>1 DEF pdFor
  <2> QED
    BY <2>6, <2>7
<1> QED
  BY <1>4, <1>10

(* MapTransport::send, read by the other side.  Whatever octets a MAP       *)
(* message has, up to sixteen million of them, a gateway that decodes the   *)
(* frame sent for them finds it addressed to the configured global title    *)
(* and from the proxy's own, digit for digit; of the message it sees what   *)
(* the length octet of the UDT leaves.                                      *)
THEOREM FrameAddressed ==
  ASSUME Configured, NEW payload \in Seq(Octet),
         Len(payload) <= 256 * (256 * 256), NEW r \in HlrReads(dataFrame(payload))
  PROVE  /\ r.kind = "map"
         /\ r.called = Sccp!makeGtAddress(HlrGt, hlrSsn)
         /\ r.calling = Sccp!makeGtAddress(LocalGt, localSsn)
         /\ r.msg \in Map!decode(Taken(payload, Len(payload) % 256))
<1>1. PICK f \in M3ua!next(dataFrame(payload)) :
        r \in Then(Sccp!decodeUdt(f.msg[1].protocolData[1].userData), LAMBDA udt :
                {[kind |-> "map", msg |-> m, called |-> udt.calledParty,
                  calling |-> udt.callingParty] : m \in Map!decode(udt.data)})
  BY Zenon DEF HlrReads, Then
<1>2. f.msg[1].protocolData[1].userData = udtFor(payload)
  BY FrameNext
<1>3. PICK udt \in Sccp!decodeUdt(udtFor(payload)) :
        r \in {[kind |-> "map", msg |-> m, called |-> udt.calledParty,
                calling |-> udt.callingParty] : m \in Map!decode(udt.data)}
  BY <1>1, <1>2, Zenon DEF Then
<1>4. PICK m \in Map!decode(udt.data) :
        r = [kind |-> "map", msg |-> m, called |-> udt.calledParty,
             calling |-> udt.callingParty]
  BY <1>3
<1>5. PICK a \in Octet, b \in Octet, c \in Octet :
        a = hlrSsn /\ b = localSsn /\ c = Sccp!kProtoClass0
  BY DEF Octet, hlrSsn, localSsn, Sccp!kProtoClass0
<1>6. /\ HlrGt \in Seq(Digits) /\ LocalGt \in Seq(Digits)
      /\ (Len(HlrGt) + 1) \div 2 + ((Len(LocalGt) + 1) \div 2) <= 242
  BY Zenon DEF Configured
<1>7. udt = Udt(c, HlrGt, a, LocalGt, b, Taken(payload, Len(payload) % 256))
  <2>1. IsBack(c, HlrGt, a, LocalGt, b, payload)
    BY <1>6, UdtBack, Zenon
  <2>2. udtFor(payload) = Sccp!encodeUdt(Udt(c, HlrGt, a, LocalGt, b, payload))
    BY <1>5, Zenon DEF udtFor, Udt
  <2> QED
    BY <1>3, <2>1, <2>2, Zenon DEF IsBack
<1>8. /\ udt.calledParty = Sccp!makeGtAddress(HlrGt, a)
      /\ udt.callingParty = Sccp!makeGtAddress(LocalGt, b)
      /\ udt.data = Taken(payload, Len(payload) % 256)
  BY <1>7 DEF Udt
<1>9. r.kind = "map" /\ r.called = udt.calledParty /\ r.calling = udt.callingParty
      /\ r.msg = m
  BY <1>4
<1> QED
  BY <1>4, <1>5, <1>8, <1>9, Zenon

-----------------------------------------------------------------------------
(* What MapCodec writes is octets.                                          *)

LEMMA MapOctets ==
  /\ \A w, n : Map!BE(w, n) = BE(w, n)
  /\ \A s : Map!ValueBE(s) = ValueBE(s)
  /\ \A s, n : Map!Taken(s, n) = Taken(s, n) /\ Map!Left(s, n) = Left(s, n)
  /\ \A s : Map!FlattenSeq(s) = FlattenSeq(s)
<1>1. \A w, n : Map!BE(w, n) = BE(w, n)
  BY Zenon DEF Map!BE, BE
<1>2. \A s : Map!ValueBE(s) = ValueBE(s)
  BY Zenon DEF Map!ValueBE, ValueBE
<1>3. \A s, n : Map!Taken(s, n) = Taken(s, n) /\ Map!Left(s, n) = Left(s, n)
  BY Zenon DEF Map!Taken, Taken, Map!Left, Left
<1>4. \A s : Map!FlattenSeq(s) = FlattenSeq(s)
  BY Zenon DEF Map!FlattenSeq, FlattenSeq
<1> QED
  BY <1>1, <1>2, <1>3, <1>4, Zenon

LEMMA OneOctet ==
  ASSUME NEW x \in Octet
  PROVE  <<x>> \in Seq(Octet) /\ Len(<<x>>) = 1
OBVIOUS

LEMMA TwoOctets ==
  ASSUME NEW x \in Octet, NEW y \in Octet
  PROVE  <<x, y>> \in Seq(Octet) /\ Len(<<x, y>>) = 2
OBVIOUS

LEMMA MapLength ==
  ASSUME NEW n \in Nat
  PROVE  /\ Map!writeLength(n) \in Seq(Octet) /\ Len(Map!writeLength(n)) \in 1 .. 3
<1>1. CASE n <= 127
  <2>1. n \in Octet
    BY <1>1 DEF Octet
  <2>2. Map!writeLength(n) = <<n>>
    BY <1>1 DEF Map!writeLength
  <2> QED
    BY <2>1, <2>2, OneOctet
<1>2. CASE ~(n <= 127) /\ n <= 255
  <2>1. n \in Octet /\ 129 \in Octet
    BY <1>2 DEF Octet
  <2>2. Map!writeLength(n) = <<129, n>>
    BY <1>2 DEF Map!writeLength
  <2> QED
    BY <2>1, <2>2, TwoOctets
<1>3. CASE ~(n <= 127) /\ ~(n <= 255)
  <2>1. PICK b \in Seq(Octet) : b = Map!BE(2, n) /\ Len(b) = 2
    BY OctetsOfTwo, MapOctets, Zenon
  <2>2. PICK a \in Seq(Octet) : a = <<130>> /\ Len(a) = 1
    <3>1. 130 \in Octet
      BY DEF Octet
    <3> QED
      BY <3>1, OneOctet, Zenon
  <2>3. Map!writeLength(n) = <<130>> \o Map!BE(2, n)
    BY <1>3 DEF Map!writeLength
  <2>4. a \o b \in Seq(Octet) /\ Len(a \o b) = Len(a) + Len(b)
    BY FrameAndRest
  <2>5. Map!writeLength(n) = a \o b
    BY <2>1, <2>2, <2>3, Zenon
  <2>6. Len(a \o b) = 3
    <3>1. Len(a \o b) = 1 + 2
      BY <2>1, <2>2, <2>4, Zenon
    <3> QED
      BY <3>1
  <2> QED
    BY <2>4, <2>5, <2>6
<1> QED
  BY <1>1, <1>2, <1>3

LEMMA MapTlv ==
  ASSUME NEW tag \in Octet, NEW v \in Seq(Octet)
  PROVE  /\ Map!writeTlv(tag, v) \in Seq(Octet) /\ Len(v) \in Nat
         /\ Len(Map!writeTlv(tag, v)) \in Nat
         /\ Len(Map!writeTlv(tag, v)) <= 4 + Len(v)
<1>1. Len(v) \in Nat
  BY LenProperties
<1>2. PICK l \in Seq(Octet) : l = Map!writeLength(Len(v)) /\ Len(l) \in 1 .. 3
  BY <1>1, MapLength, Zenon
<1>3. PICK t \in Seq(Octet) : t = <<tag>> /\ Len(t) = 1
  BY OneOctet, Zenon
<1>4. PICK a \in Seq(Octet) : a = t \o l /\ Len(a) = Len(t) + Len(l)
  BY FrameAndRest
<1>5. PICK b \in Seq(Octet) : b = a \o v /\ Len(b) = Len(a) + Len(v)
  BY FrameAndRest
<1>6. b = Map!writeTlv(tag, v)
  BY <1>2, <1>3, <1>4, <1>5, Zenon DEF Map!writeTlv
<1>7. Len(b) \in Nat /\ Len(b) <= 4 + Len(v)
  <2>1. PICK x \in 1 .. 3, y \in Nat : x = Len(l) /\ y = Len(v)
    BY <1>1, <1>2, Zenon
  <2>2. Len(b) = (1 + x) + y
    BY <1>3, <1>4, <1>5, <2>1, Zenon
  <2>3. (1 + x) + y \in Nat /\ (1 + x) + y <= 4 + y
    OBVIOUS
  <2> QED
    BY <2>1, <2>2, <2>3, Zenon
<1> QED
  BY <1>1, <1>6, <1>7, Zenon

(* An integer of eight bits.                                                *)
LEMMA MapInt ==
  ASSUME NEW tag \in Octet, NEW n \in Octet
  PROVE  Map!writeTlvInt(tag, n) \in Seq(Octet)
<1> DEFINE P(w) == Map!fits(n, w) /\ (w = 1 \/ ~Map!fits(n, w - 1))
           w == CHOOSE w \in 1 .. 8 : P(w)
<1>1. n \in 0 .. 255
  BY DEF Octet
<1>2. \E x \in 1 .. 8 : P(x)
  <2>1. CASE n < 128
    <3>1. -(128 * 256 ^ (1 - 1)) = -128 /\ 128 * 256 ^ (1 - 1) = 128
      OBVIOUS
    <3>2. P(1)
      BY <1>1, <2>1, <3>1 DEF Map!fits
    <3> QED
      BY <3>2
  <2>2. CASE ~(n < 128)
    <3>1. /\ 128 * 256 ^ (1 - 1) = 128 /\ 2 - 1 = 1
          /\ -(128 * 256 ^ (2 - 1)) = -32768 /\ 128 * 256 ^ (2 - 1) = 32768
      OBVIOUS
    <3>2. Map!fits(n, 2) /\ ~Map!fits(n, 1)
      BY <1>1, <2>2, <3>1 DEF Map!fits
    <3>3. P(2)
      BY <3>1, <3>2
    <3> QED
      BY <3>3
  <2> QED
    BY <2>1, <2>2
<1> HIDE DEF P
<1>3. w \in 1 .. 8
  BY <1>2, Zenon
<1>4. Map!encodeInt(n) = BE(w, n)
  BY MapOctets, Zenon DEF Map!encodeInt, P
<1> HIDE DEF w
<1>5. w \in Nat /\ n \in Int
  BY <1>1, <1>3
<1>6. Map!encodeInt(n) \in Seq(Octet)
  BY <1>4, <1>5, OctetsOf
<1> QED
  BY <1>6, MapTlv, Zenon DEF Map!writeTlvInt

(* Digits of any number and kind are packed into octets.                    *)
LEMMA OrOctet ==
  ASSUME NEW a, NEW b
  PROVE  Map!bitOr(a, b) \in Octet
BY DEF Map!bitOr, Octet

LEMMA MapPacked ==
  ASSUME NEW digits, Len(digits) \in Nat
  PROVE  Map!packBcd(digits) \in Seq(Octet)
<1>1. PICK n \in Nat : n = (Len(digits) + 1) \div 2
  BY Pairs
<1> DEFINE lo(i) == digits[2 * i - 1] % 256
           hi(i) == IF 2 * i <= Len(digits) THEN digits[2 * i] % 16 ELSE 15
           octet(i) == Map!bitOr(hi(i) * 16, lo(i))
<1>2. Map!packBcd(digits) \in [1 .. n -> Octet]
  <2>1. Map!packBcd(digits) = [i \in 1 .. (Len(digits) + 1) \div 2 |-> octet(i)]
    BY Zenon DEF Map!packBcd
  <2>2. \A i : octet(i) \in Octet
    BY OrOctet, Zenon
  <2> HIDE DEF octet
  <2>3. Map!packBcd(digits) = [i \in 1 .. n |-> octet(i)]
    BY <1>1, <2>1, Zenon
  <2> QED
    BY <2>2, <2>3, Zenon
<1> QED
  BY <1>2, OctetsFun, Zenon

LEMMA MapStrings ==
  ASSUME NEW values \in Seq(Seq(Octet))
  PROVE  Map!octetStrings(values) \in Seq(Octet)
<1>1. PICK n \in Nat : n = Len(values) /\ DOMAIN values = 1 .. n
  BY LenProperties
<1>2. \A i \in 1 .. n : values[i] \in Seq(Octet)
  BY <1>1, ElementOfSeq
<1>3. Map!kBerOctetStr \in Octet
  BY DEF Map!kBerOctetStr, Octet
<1>4. PICK s : s = [i \in DOMAIN values |-> Map!writeTlv(Map!kBerOctetStr, values[i])]
  OBVIOUS
<1>5. s \in [1 .. n -> Seq(Octet)]
  BY <1>1, <1>2, <1>3, <1>4, MapTlv, Zenon
<1>6. s \in Seq(Seq(Octet))
  BY <1>5, SeqDef
<1>7. FlattenSeq(s) \in Seq(Octet)
  BY <1>6, FlattenType
<1> QED
  BY <1>4, <1>7, MapOctets, Zenon DEF Map!octetStrings, Map!Each

Operations == {"SendAuthenticationInfo", "UpdateGprsLocation", "CancelLocation",
               "InsertSubscriberData", "DeleteSubscriberData", "PurgeMS"}

(* The messages for the HLR: requests, and results or errors without any    *)
(* contents of their own.                                                   *)
MapOut(m) ==
    /\ m.component \in {"Invoke", "ReturnResult", "ReturnError"}
    /\ m.operation \in Operations
    /\ m.transactionId \in Nat /\ m.invokeId \in Octet /\ Len(m.imsi) \in Nat
    /\ m.numRequestedVectors \in Option(Octet) /\ m.cancelType \in Option(Octet)
    /\ m.errorCode \in Option(Octet) /\ m.msisdn \in Option(Seq(Octet))
    /\ m.sgsnNumber = <<>> /\ m.sgsnAddress = <<>> /\ m.hlrNumber = <<>>
    /\ m.authTriplets = <<>> /\ m.authQuintuplets = <<>>
    /\ m.freezePtmsi \in BOOLEAN

LEMMA ValueOrOctet ==
  ASSUME NEW o \in Option(Octet), NEW d \in Octet
  PROVE  Map!ValueOr(o, d) \in Octet
BY OptionSeq DEF Map!ValueOr

LEMMA Together ==
  ASSUME NEW p \in Seq(Octet), NEW q \in Seq(Octet)
  PROVE  p \o q \in Seq(Octet)
BY ConcatProperties

(* The octets of an optional octet.                                         *)
LEMMA MapOptional ==
  ASSUME NEW o \in Option(Octet)
  PROVE  Map!Each(o, LAMBDA v : Map!writeTlvOctet(Map!kBerInt, v)) \in Seq(Octet)
<1>1. PICK n \in Nat : n = Len(o) /\ DOMAIN o = 1 .. n /\ \A i \in 1 .. n : o[i] \in Octet
  <2>1. o \in Seq(Octet)
    BY OptionSeq
  <2> QED
    BY <2>1, LenProperties, ElementOfSeq
<1>2. ASSUME NEW v \in Octet PROVE Map!writeTlvOctet(Map!kBerInt, v) \in Seq(Octet)
  <2>1. 2 \in Octet /\ 1 \in Octet
    BY DEF Octet
  <2>2. <<2, 1, v>> \in Seq(Octet)
    BY <2>1
  <2> QED
    BY <2>2 DEF Map!writeTlvOctet, Map!kBerInt
<1>3. PICK s : s = [i \in DOMAIN o |-> Map!writeTlvOctet(Map!kBerInt, o[i])]
  OBVIOUS
<1>4. s \in [1 .. n -> Seq(Octet)]
  BY <1>1, <1>2, <1>3, Zenon
<1>5. s \in Seq(Seq(Octet))
  BY <1>4, SeqDef
<1>6. FlattenSeq(s) \in Seq(Octet)
  BY <1>5, FlattenType
<1> QED
  BY <1>3, <1>6, MapOctets, Zenon DEF Map!Each

LEMMA MapReq ==
  ASSUME NEW m, MapOut(m)
  PROVE  Map!encodeReq(m) \in Seq(Octet)
<1>1. PICK p \in Seq(Octet) : p = Map!octetStrings(<<Map!packBcd(m.imsi)>>)
  <2>1. PICK d \in Seq(Octet) : d = Map!packBcd(m.imsi)
    BY MapPacked, Zenon DEF MapOut
  <2>2. <<d>> \in Seq(Seq(Octet))
    OBVIOUS
  <2> QED
    BY <2>1, <2>2, MapStrings, Zenon
<1>2. PICK e \in Seq(Seq(Octet)) : e = <<>> /\ e \o e = <<>>
  <2>1. <<>> \in Seq(Seq(Octet)) /\ <<>> \o <<>> = <<>>
    OBVIOUS
  <2> QED
    BY <2>1, Zenon
<1>3. Map!octetStrings(e) \in Seq(Octet) /\ Map!octetStrings(m.msisdn) \in Seq(Octet)
  <2>1. m.msisdn \in Seq(Seq(Octet))
    BY OptionSeq, Zenon DEF MapOut
  <2> QED
    BY <2>1, MapStrings, Zenon
<1>4. m.sgsnNumber = e /\ m.sgsnNumber \o m.sgsnAddress = e
  BY <1>2, Zenon DEF MapOut
<1>5. Map!writeTlvInt(Map!kBerInt, Map!ValueOr(m.numRequestedVectors, 1)) \in Seq(Octet)
  <2>1. Map!kBerInt \in Octet /\ 1 \in Octet
    BY DEF Map!kBerInt, Octet
  <2> QED
    BY <2>1, ValueOrOctet, MapInt, Zenon DEF MapOut
<1>6. Map!Each(m.cancelType, LAMBDA v : Map!writeTlvOctet(Map!kBerInt, v)) \in Seq(Octet)
  BY MapOptional, Zenon DEF MapOut
<1>7. <<>> \in Seq(Octet)
  OBVIOUS
<1>8. m.operation \in Operations
  BY Zenon DEF MapOut
<1>9. CASE m.operation = "SendAuthenticationInfo"
  <2>1. Map!encodeReq(m) =
          p \o Map!writeTlvInt(Map!kBerInt, Map!ValueOr(m.numRequestedVectors, 1))
    BY <1>1, <1>9 DEF Map!encodeReq
  <2> QED
    BY <1>5, <2>1, Together, Zenon
<1>10. CASE m.operation = "UpdateGprsLocation"
  <2>1. Map!encodeReq(m) = p \o Map!octetStrings(m.sgsnNumber \o m.sgsnAddress)
    BY <1>1, <1>10 DEF Map!encodeReq
  <2> QED
    BY <1>3, <1>4, <2>1, Together, Zenon
<1>11. CASE m.operation = "CancelLocation"
  <2>1. Map!encodeReq(m) =
          p \o Map!Each(m.cancelType, LAMBDA v : Map!writeTlvOctet(Map!kBerInt, v))
    BY <1>1, <1>11 DEF Map!encodeReq
  <2> QED
    BY <1>6, <2>1, Together, Zenon
<1>12. CASE m.operation = "InsertSubscriberData"
  <2>1. Map!encodeReq(m) = p \o Map!octetStrings(m.msisdn)
    BY <1>1, <1>12 DEF Map!encodeReq
  <2> QED
    BY <1>3, <2>1, Together, Zenon
<1>13. CASE m.operation = "DeleteSubscriberData"
  <2>1. Map!encodeReq(m) = p \o <<>>
    BY <1>1, <1>13 DEF Map!encodeReq
  <2> QED
    BY <1>7, <2>1, Together, Zenon
<1>14. CASE m.operation = "PurgeMS"
  <2>1. Map!encodeReq(m) = p \o Map!octetStrings(m.sgsnNumber)
    BY <1>1, <1>14 DEF Map!encodeReq
  <2> QED
    BY <1>3, <1>4, <2>1, Together, Zenon
<1> QED
  BY <1>8, <1>9, <1>10, <1>11, <1>12, <1>13, <1>14 DEF Operations

LEMMA MapRes ==
  ASSUME NEW m, MapOut(m),
         m.operation \in {"SendAuthenticationInfo", "UpdateGprsLocation", "PurgeMS"}
  PROVE  Map!encodeRes(m) \in Seq(Octet)
<1>1. /\ m.authTriplets = <<>> /\ m.authQuintuplets = <<>> /\ m.hlrNumber = <<>>
      /\ m.freezePtmsi \in BOOLEAN
  BY Zenon DEF MapOut
<1>2. <<>> \in Seq(Octet) /\ <<>> \o <<>> = <<>> /\ Len(<<>>) = 0 /\ DOMAIN <<>> = {}
  OBVIOUS
<1>3. <<Map!kBerNull, 0>> \in Seq(Octet)
  <2>1. 5 \in Octet /\ 0 \in Octet
    BY DEF Octet
  <2>2. <<5, 0>> \in Seq(Octet)
    BY <2>1
  <2> QED
    BY <2>2 DEF Map!kBerNull
<1>4. CASE m.operation = "SendAuthenticationInfo"
  <2>1. PICK f, g : /\ f = [i \in DOMAIN m.authTriplets |->
                         Map!writeTlv(Map!kBerSequence, Map!octetStrings(
                           <<m.authTriplets[i].rand, m.authTriplets[i].sres,
                             m.authTriplets[i].kc>>))]
                    /\ g = [i \in DOMAIN m.authQuintuplets |->
                         Map!writeTlv(Map!kBerSequence, Map!octetStrings(
                           <<m.authQuintuplets[i].rand, m.authQuintuplets[i].xres,
                             m.authQuintuplets[i].ck, m.authQuintuplets[i].ik,
                             m.authQuintuplets[i].autn>>))]
    OBVIOUS
  <2>2. f = <<>> /\ g = <<>>
    BY <1>1, <2>1
  <2>3. FlattenSeq(f) = <<>> /\ FlattenSeq(g) = <<>>
    BY <1>2, <2>2, FlattenNone, Zenon
  <2>4. Map!encodeRes(m) = Map!FlattenSeq(f) \o Map!FlattenSeq(g)
    BY <1>4, <2>1 DEF Map!encodeRes, Map!Each
  <2> QED
    BY <1>2, <2>3, <2>4, MapOctets, Zenon
<1>5. CASE m.operation = "UpdateGprsLocation"
  <2>1. Map!encodeRes(m) = Map!octetStrings(m.hlrNumber)
    BY <1>5 DEF Map!encodeRes
  <2>2. <<>> \in Seq(Seq(Octet))
    OBVIOUS
  <2> QED
    BY <1>1, <2>1, <2>2, MapStrings, Zenon
<1>6. CASE m.operation = "PurgeMS"
  <2>1. Map!encodeRes(m) = IF m.freezePtmsi THEN <<Map!kBerNull, 0>> ELSE <<>>
    BY <1>6 DEF Map!encodeRes
  <2> QED
    BY <1>2, <1>3, <2>1, Zenon
<1> QED
  BY <1>4, <1>5, <1>6

LEMMA MapArguments ==
  ASSUME NEW m, MapOut(m)
  PROVE  Map!arguments(m) \in Seq(Octet)
<1>1. Map!kBerSequence \in Octet
  BY DEF Map!kBerSequence, Octet
<1>2. DOMAIN Map!OperationCode \ {"Unknown"} = Operations
  BY DEF Map!OperationCode, Operations
<1>3. m.operation \in Operations
  BY Zenon DEF MapOut
<1>4. \/ Map!arguments(m) = Map!writeTlv(Map!kBerSequence, Map!encodeReq(m))
      \/ /\ Map!arguments(m) = Map!writeTlv(Map!kBerSequence, Map!encodeRes(m))
         /\ m.operation \in {"SendAuthenticationInfo", "UpdateGprsLocation",
                             "PurgeMS"}
  BY <1>2, <1>3, Zenon DEF Map!arguments
<1> QED
  BY <1>1, <1>4, MapReq, MapRes, MapTlv, Zenon

LEMMA MapComponent ==
  ASSUME NEW m, MapOut(m)
  PROVE  Map!encodeComponent(m) \in Seq(Octet)
<1>1. /\ Map!kBerInt \in Octet /\ Map!kBerSequence \in Octet /\ 34 \in Octet
      /\ Map!CompTag[m.component] \in Octet /\ Map!OperationCode[m.operation] \in Octet
  <2>1. Map!kBerInt \in Octet /\ Map!kBerSequence \in Octet /\ 34 \in Octet
    BY DEF Map!kBerInt, Map!kBerSequence, Octet
  <2>2. m.component \in {"Invoke", "ReturnResult", "ReturnError"}
        /\ m.operation \in Operations
    BY Zenon DEF MapOut
  <2>3. Map!CompTag[m.component] \in Octet
    BY <2>2 DEF Map!CompTag, Octet
  <2>4. Map!OperationCode[m.operation] \in Octet
    BY <2>2 DEF Map!OperationCode, Operations, Octet
  <2> QED
    BY <2>1, <2>3, <2>4, Zenon
<1>2. PICK o \in Seq(Octet) : o = Map!writeTlvInt(Map!kBerInt, Map!OperationCode[m.operation])
  BY <1>1, MapInt, Zenon
<1>3. PICK i \in Seq(Octet) : i = Map!writeTlvInt(Map!kBerInt, m.invokeId)
  BY <1>1, MapInt, Zenon DEF MapOut
<1>4. PICK a \in Seq(Octet) : a = Map!arguments(m)
  BY MapArguments, Zenon
<1>5. PICK e \in Seq(Octet) :
        e = Map!writeTlvInt(Map!kBerInt, Map!ValueOr(m.errorCode, 34))
  BY <1>1, ValueOrOctet, MapInt, Zenon DEF MapOut
<1>6. o \o a \in Seq(Octet) /\ Map!writeTlv(Map!kBerSequence, o \o a) \in Seq(Octet)
  BY <1>1, Together, MapTlv, Zenon
<1>7. PICK c : c = CASE m.component = "Invoke" -> o \o a
                     [] m.component = "ReturnResult" ->
                          Map!writeTlv(Map!kBerSequence, o \o a)
                     [] m.component = "ReturnError" -> e
  OBVIOUS
<1>8. c \in Seq(Octet)
  <2>1. m.component \in {"Invoke", "ReturnResult", "ReturnError"}
    BY Zenon DEF MapOut
  <2> QED
    BY <1>6, <1>7, <2>1
<1>9. Map!encodeComponent(m) = Map!writeTlv(Map!CompTag[m.component], i \o c)
  BY <1>2, <1>3, <1>4, <1>5, <1>7 DEF Map!encodeComponent
<1> QED
  BY <1>1, <1>8, <1>9, Together, MapTlv, Zenon

(* A message for the HLR in octets, of which there are not too many.        *)
IsPayload(p) == p \in Seq(Octet) /\ Len(p) <= 256 * (256 * 256)

(* What MapCodec encodes for the proxy is octets a UDT may carry. *)
LEMMA MapEncoded ==
  ASSUME NEW m, MapOut(m), NEW p \in Map!encode(m)
  PROVE  IsPayload(p)
<1>1. /\ Map!kTcapTagOtid \in Octet /\ Map!kTcapTagDtid \in Octet
      /\ Map!kTcapTagBegin \in Octet /\ Map!kTcapTagEnd \in Octet
      /\ Map!kTcapTagComponents \in Octet
  BY DEF Map!kTcapTagOtid, Map!kTcapTagDtid, Map!kTcapTagBegin, Map!kTcapTagEnd,
         Map!kTcapTagComponents, Octet
<1>2. PICK t \in Octet : t = IF m.component = "Invoke" THEN Map!kTcapTagOtid
                                                      ELSE Map!kTcapTagDtid
  BY <1>1, Zenon
<1>3. PICK b \in Seq(Octet) : b = Map!BE(4, m.transactionId)
  BY OctetsOfFour, MapOctets, Zenon DEF MapOut
<1>4. PICK c \in Seq(Octet) : c = Map!encodeComponent(m)
  BY MapComponent, Zenon
<1>5. Map!encodePdu(m) = Map!writeTlv(t, b) \o Map!writeTlv(Map!kTcapTagComponents, c)
  BY <1>2, <1>3, <1>4, Zenon DEF Map!encodePdu
<1>6. PICK q \in Seq(Octet) : q = Map!encodePdu(m)
  BY <1>1, <1>5, Together, MapTlv, Zenon
<1>7. PICK u \in Octet : u = IF m.component = "Invoke" THEN Map!kTcapTagBegin
                                                      ELSE Map!kTcapTagEnd
  BY <1>1, Zenon
<1>8. p = Map!writeTlv(u, q) /\ ~(Len(q) > 65535)
  BY <1>6, <1>7, SMT DEF Map!encode
<1>a. p = Map!writeTlv(u, q)
  BY <1>8
<1>9. /\ p \in Seq(Octet) /\ Len(q) \in Nat /\ Len(p) \in Nat /\ Len(p) <= 4 + Len(q)
  BY <1>a, MapTlv, Zenon
<1>10. Len(p) <= 256 * (256 * 256)
  BY <1>8, <1>9
<1> QED
  BY <1>9, <1>10, Zenon DEF IsPayload

-----------------------------------------------------------------------------
(* What GsupCodec reads.                                                    *)

LEMMA GsupOctets ==
  /\ \A s, n : Gsup!Taken(s, n) = Taken(s, n) /\ Gsup!Left(s, n) = Left(s, n)
  /\ \A s : Gsup!FlattenSeq(s) = FlattenSeq(s)
<1>1. \A s, n : Gsup!Taken(s, n) = Taken(s, n) /\ Gsup!Left(s, n) = Left(s, n)
  BY Zenon DEF Gsup!Taken, Taken, Gsup!Left, Left
<1>2. \A s : Gsup!FlattenSeq(s) = FlattenSeq(s)
  BY Zenon DEF Gsup!FlattenSeq, FlattenSeq
<1> QED
  BY <1>1, <1>2, Zenon

(* Information elements: an octet and octets.  A Cause has one at least.    *)
Ie == {x \in [tag : Octet, value : Seq(Octet)] :
         x.tag = 2 => Len(x.value) > 0}

IeTurn(a, i) == Gsup!readIe(a, FALSE)

IesRead(a) == a.ies \in Seq(Ie) /\ a.rest \in Seq(Octet)

Ies == INSTANCE Iteration WITH Body <- IeTurn, Good <- IesRead

LEMMA IeTurnKeeps ==
  ASSUME NEW a, IesRead(a), NEW b \in Gsup!readIe(a, FALSE)
  PROVE  IesRead(b)
<1>1. PICK s \in Seq(Octet) : s = a.rest
  BY Zenon DEF IesRead
<1>2. PICK ies \in Seq(Ie) : ies = a.ies
  BY Zenon DEF IesRead
<1>3. PICK len : len = IF s[1] = Gsup!IeTag.Cause /\ s[2] = 0 /\ ~FALSE THEN 1 ELSE s[2]
  OBVIOUS
<1>4. CASE s = <<>>
  BY <1>1, <1>4, Zenon DEF Gsup!readIe
<1>5. CASE s # <<>>
  <2>1. /\ ~(Len(s) < 2 \/ Len(s) < 2 + len)
        /\ b = [ies |-> Append(a.ies, [tag |-> s[1],
                                       value |-> SubSeq(s, 3, 2 + len)]),
                rest |-> Gsup!Left(s, 2 + len)]
    BY <1>1, <1>3, <1>5, Zenon DEF Gsup!readIe
  <2>2. Len(s) \in Nat /\ Len(s) >= 2 /\ s[1] \in Octet /\ s[2] \in Octet
    <3>1. Len(s) \in Nat
      BY LenProperties
    <3>2. ~(Len(s) < 2)
      BY <2>1
    <3>3. 1 \in 1 .. Len(s) /\ 2 \in 1 .. Len(s)
      BY <3>1, <3>2
    <3> QED
      BY <3>1, <3>2, <3>3, ElementOfSeq
  <2>3. Gsup!IeTag.Cause = 2
    BY DEF Gsup!IeTag
  <2>4. len \in Nat /\ (s[1] = 2 => len > 0) /\ 2 + len <= Len(s)
    <3>1. s[2] \in Nat
      <4>1. \A o \in Octet : o \in Nat
        BY DEF Octet
      <4> QED
        BY <2>2, <4>1, Zenon
    <3>2. len \in Nat /\ (s[1] = 2 => len > 0)
      BY <1>3, <2>3, <3>1
    <3>3. ~(Len(s) < 2 + len)
      BY <2>1
    <3> QED
      BY <2>2, <3>2, <3>3
  <2>5. PICK v : v = SubSeq(s, 3, 2 + len)
    OBVIOUS
  <2>6. v \in Seq(Octet) /\ Len(v) = len
    BY <2>2, <2>4, <2>5
  <2>7. Left(s, 2 + len) \in Seq(Octet)
    BY <2>2, <2>4, TakenAndLeft
  <2>8. PICK x : x = [tag |-> s[1], value |-> v]
    OBVIOUS
  <2>9. x \in Ie
    <3>1. x \in [tag : Octet, value : Seq(Octet)]
      BY <2>2, <2>6, <2>8
    <3>2. x.tag = s[1] /\ x.value = v
      BY <2>8
    <3> QED
      BY <2>4, <2>6, <3>1, <3>2 DEF Ie
  <2>10. Append(ies, x) \in Seq(Ie)
    BY <2>9, AppendProperties
  <2>11. b.ies = Append(ies, x) /\ b.rest = Left(s, 2 + len)
    BY <1>2, <2>1, <2>5, <2>8, GsupOctets
  <2> QED
    BY <2>7, <2>10, <2>11, Zenon DEF IesRead
<1> QED
  BY <1>4, <1>5

LEMMA TurnCount ==
  ASSUME NEW n \in Nat, NEW t, t = [i \in 1 .. n |-> i]
  PROVE  Len(t) = n
OBVIOUS

LEMMA IesType ==
  ASSUME NEW s \in Seq(Octet), NEW ies \in Gsup!readIes(s, FALSE)
  PROVE  ies \in Seq(Ie)
<1>1. PICK n \in Nat : n = (Len(s) + 1) \div 2
  <2>1. Len(s) \in Nat
    BY LenProperties
  <2> QED
    BY <2>1, Pairs
<1>2. PICK t : t = [i \in 1 .. n |-> i] /\ Len(t) \in Nat
  <2>1. PICK t : t = [i \in 1 .. n |-> i]
    OBVIOUS
  <2> QED
    BY <2>1, TurnCount, Zenon
<1>3. PICK start : start = [ies |-> <<>>, rest |-> s]
  OBVIOUS
<1>4. IesRead(start)
  <2>1. start.ies = <<>> /\ start.rest = s /\ <<>> \in Seq(Ie)
    BY <1>3
  <2> QED
    BY <2>1 DEF IesRead
<1>5. \A i \in 1 .. Len(t) : \A a : IesRead(a) => \A b \in IeTurn(a, t[i]) : IesRead(b)
  BY IeTurnKeeps, Zenon DEF IeTurn
<1>6. \A a \in Ies!Loop(t, start, IeTurn) : IesRead(a)
  BY <1>2, <1>4, <1>5, Ies!LoopKeeps, Zenon
<1>7. Gsup!readIes(s, FALSE) = {a.ies : a \in Ies!Loop(t, start, IeTurn)}
  BY <1>1, <1>2, <1>3, Zenon DEF Gsup!readIes, Gsup!While, Gsup!Loop, Gsup!Then,
       Ies!Loop, Ies!Then, IeTurn
<1> QED
  BY <1>6, <1>7, Zenon DEF IesRead

LEMMA OctetNat ==
  /\ \A o \in Octet : o \in Nat
  /\ \A o \in Octet : o % 16 \in Nat /\ o \div 16 \in Nat
<1>1. \A o \in Octet : o \in Nat
  BY DEF Octet
<1>2. \A o \in Octet : o % 16 \in Nat /\ o \div 16 \in Nat
  BY DEF Octet
<1> QED
  BY <1>1, <1>2, Zenon

(* The digits of an IMSI.                                                   *)
LEMMA GsupImsi ==
  ASSUME NEW v \in Seq(Octet), NEW d \in Gsup!bcdToImsi(v)
  PROVE  Len(d) \in Nat
<1>1. PICK n \in Nat : n = Len(v) /\ DOMAIN v = 1 .. n /\ \A i \in 1 .. n : v[i] \in Octet
  BY LenProperties, ElementOfSeq
<1>2. PICK s : s = [i \in DOMAIN v |-> IF v[i] \div 16 = 15 THEN <<v[i] % 16>>
                                       ELSE <<v[i] % 16, v[i] \div 16>>]
  OBVIOUS
<1>3. \A x \in Nat, y \in Nat : <<x>> \in Seq(Nat) /\ <<x, y>> \in Seq(Nat)
  OBVIOUS
<1>4. s \in [1 .. n -> Seq(Nat)]
  BY <1>1, <1>2, <1>3, OctetNat, Zenon
<1>5. s \in Seq(Seq(Nat))
  BY <1>4, SeqDef
<1>6. FlattenSeq(s) \in Seq(Nat)
  BY <1>5, FlattenType
<1>7. d = FlattenSeq(s)
  BY <1>2, GsupOctets, Zenon DEF Gsup!bcdToImsi, Gsup!Each
<1> QED
  BY <1>6, <1>7, LenProperties

(* A GSUP message as the converter takes it.                                *)
GsupIn(g) ==
    /\ {"type", "imsi", "cause", "numVectorsRequested", "authTuples", "msisdn",
        "hlrNumber", "cnDomain", "pdpInfoList", "pdpInfoComplete", "cancelType",
        "freezePtmsi"} \subseteq DOMAIN g
    /\ Len(g.imsi) \in Nat
    /\ g.cause \in Option(Octet) /\ g.numVectorsRequested \in Option(Octet)
    /\ g.cancelType \in Option(Octet) /\ g.msisdn \in Option(Seq(Octet))

LEMMA GsupExcept ==
  ASSUME NEW g, GsupIn(g), NEW x
  PROVE  /\ Len(x) \in Nat => GsupIn([g EXCEPT !.imsi = x])
         /\ x \in Option(Octet) =>
              /\ GsupIn([g EXCEPT !.cause = x])
              /\ GsupIn([g EXCEPT !.numVectorsRequested = x])
              /\ GsupIn([g EXCEPT !.cancelType = x])
         /\ x \in Option(Seq(Octet)) => GsupIn([g EXCEPT !.msisdn = x])
         /\ GsupIn([g EXCEPT !.type = x])
         /\ GsupIn([g EXCEPT !.authTuples = x]) /\ GsupIn([g EXCEPT !.hlrNumber = x])
         /\ GsupIn([g EXCEPT !.cnDomain = x]) /\ GsupIn([g EXCEPT !.pdpInfoList = x])
         /\ GsupIn([g EXCEPT !.pdpInfoComplete = x])
         /\ GsupIn([g EXCEPT !.freezePtmsi = x])
<1>1. Len(x) \in Nat => GsupIn([g EXCEPT !.imsi = x])
  BY DEF GsupIn
<1>2. x \in Option(Octet) => GsupIn([g EXCEPT !.cause = x])
  BY DEF GsupIn
<1>3. x \in Option(Octet) => GsupIn([g EXCEPT !.numVectorsRequested = x])
  BY DEF GsupIn
<1>4. x \in Option(Octet) => GsupIn([g EXCEPT !.cancelType = x])
  BY DEF GsupIn
<1>5. x \in Option(Seq(Octet)) => GsupIn([g EXCEPT !.msisdn = x])
  BY DEF GsupIn
<1>6. GsupIn([g EXCEPT !.type = x]) /\ GsupIn([g EXCEPT !.authTuples = x])
  BY DEF GsupIn
<1>7. GsupIn([g EXCEPT !.hlrNumber = x]) /\ GsupIn([g EXCEPT !.cnDomain = x])
  BY DEF GsupIn
<1>8. GsupIn([g EXCEPT !.pdpInfoList = x]) /\ GsupIn([g EXCEPT !.pdpInfoComplete = x])
  BY DEF GsupIn
<1>9. GsupIn([g EXCEPT !.freezePtmsi = x])
  BY DEF GsupIn
<1> QED
  BY <1>1, <1>2, <1>3, <1>4, <1>5, <1>6, <1>7, <1>8, <1>9, Zenon

LEMMA GsupElement ==
  ASSUME NEW m, GsupIn(m), NEW x \in Ie, NEW b \in Gsup!decodeIe(m, x)
  PROVE  GsupIn(b)
<1>0. PICK v \in Seq(Octet) : v = x.value /\ x.tag \in Octet /\ (x.tag = 2 => Len(v) > 0)
  BY DEF Ie
<1>1. ASSUME v # <<>> PROVE <<v[1]>> \in Option(Octet)
  <2>1. v[1] \in Octet
    <3>1. Len(v) \in Nat /\ Len(v) # 0
      BY <1>1, LenProperties, EmptySeq
    <3>2. 1 \in 1 .. Len(v)
      BY <3>1
    <3> QED
      BY <3>2, ElementOfSeq
  <2> QED
    BY <2>1, Zenon DEF Option
<1>2. /\ m.cancelType \in Option(Octet) /\ m.numVectorsRequested \in Option(Octet)
  BY Zenon DEF GsupIn
<1>3. <<v>> \in Option(Seq(Octet))
  BY Zenon DEF Option
<1>4. PICK t \in Octet : t = x.tag
  BY <1>0, Zenon
<1>5. /\ Gsup!IeTag.Imsi = 1 /\ Gsup!IeTag.Cause = 2 /\ Gsup!IeTag.AuthTuple = 3
      /\ Gsup!IeTag.PdpInfoComplete = 4 /\ Gsup!IeTag.PdpInfo = 5
      /\ Gsup!IeTag.CancelType = 6 /\ Gsup!IeTag.FreezePtmsi = 7
      /\ Gsup!IeTag.Msisdn = 8 /\ Gsup!IeTag.HlrNumber = 9
      /\ Gsup!IeTag.NumVectorsReq = 16 /\ Gsup!IeTag.CnDomain = 40
  BY DEF Gsup!IeTag
<1>6. CASE t = 1
  <2>1. b \in {[m EXCEPT !.imsi = imsi] : imsi \in Gsup!bcdToImsi(v)}
    BY <1>0, <1>4, <1>5, <1>6 DEF Gsup!decodeIe
  <2>2. PICK imsi \in Gsup!bcdToImsi(v) : b = [m EXCEPT !.imsi = imsi]
    BY <2>1, Zenon
  <2>3. Len(imsi) \in Nat
    BY GsupImsi, Zenon
  <2> QED
    BY <2>2, <2>3, GsupExcept, Zenon
<1>7. CASE t = 2
  <2>1. v # <<>>
    <3>1. Len(<<>>) = 0 /\ Len(v) > 0
      BY <1>0, <1>4, <1>7
    <3> QED
      BY <3>1
  <2>2. b = [m EXCEPT !.cause = <<v[1]>>]
    BY <1>0, <1>4, <1>5, <1>7 DEF Gsup!decodeIe
  <2> QED
    BY <1>1, <2>1, <2>2, GsupExcept, Zenon
<1>8. CASE t = 3
  <2>1. b \in {[m EXCEPT !.authTuples = Append(@, Gsup!decodeAuthTuple(ies))] :
                 ies \in Gsup!readIes(v, TRUE)}
    <3>1. /\ x.tag # Gsup!IeTag.Imsi /\ x.tag # Gsup!IeTag.Cause
          /\ x.tag # Gsup!IeTag.PdpInfoComplete /\ x.tag # Gsup!IeTag.PdpInfo
          /\ x.tag # Gsup!IeTag.CancelType /\ x.tag # Gsup!IeTag.FreezePtmsi
          /\ x.tag # Gsup!IeTag.Msisdn /\ x.tag # Gsup!IeTag.HlrNumber
          /\ x.tag # Gsup!IeTag.NumVectorsReq /\ x.tag # Gsup!IeTag.CnDomain
          /\ x.tag = Gsup!IeTag.AuthTuple
      BY <1>4, <1>5, <1>8
    <3> QED
      BY <1>0, <3>1, Zenon DEF Gsup!decodeIe
  <2>2. PICK y : b = [m EXCEPT !.authTuples = y]
    BY <2>1, Zenon
  <2> QED
    BY <2>2, GsupExcept, Zenon
<1>a. CASE t = 5
  <2>1. b \in {[m EXCEPT !.pdpInfoList = Append(@, Gsup!decodePdpInfo(ies))] :
                 ies \in Gsup!readIes(v, TRUE)}
    <3>1. /\ x.tag # Gsup!IeTag.Imsi /\ x.tag # Gsup!IeTag.Cause
          /\ x.tag # Gsup!IeTag.AuthTuple /\ x.tag # Gsup!IeTag.PdpInfoComplete
          /\ x.tag # Gsup!IeTag.CancelType /\ x.tag # Gsup!IeTag.FreezePtmsi
          /\ x.tag # Gsup!IeTag.Msisdn /\ x.tag # Gsup!IeTag.HlrNumber
          /\ x.tag # Gsup!IeTag.NumVectorsReq /\ x.tag # Gsup!IeTag.CnDomain
          /\ x.tag = Gsup!IeTag.PdpInfo
      BY <1>4, <1>5, <1>a
    <3> QED
      BY <1>0, <3>1, Zenon DEF Gsup!decodeIe
  <2>2. PICK y : b = [m EXCEPT !.pdpInfoList = y]
    BY <2>1, Zenon
  <2> QED
    BY <2>2, GsupExcept, Zenon
<1>9. CASE t = 4
  <2>1. b = [m EXCEPT !.pdpInfoComplete = TRUE]
    BY <1>0, <1>4, <1>5, <1>9 DEF Gsup!decodeIe
  <2> QED
    BY <2>1, GsupExcept, Zenon
<1>b. CASE t = 7
  <2>1. b = [m EXCEPT !.freezePtmsi = TRUE]
    BY <1>0, <1>4, <1>5, <1>b DEF Gsup!decodeIe
  <2> QED
    BY <2>1, GsupExcept, Zenon
<1>10. CASE t = 6
  <2>1. b = [m EXCEPT !.cancelType = IF v = <<>> THEN m.cancelType ELSE <<v[1]>>]
    BY <1>0, <1>4, <1>5, <1>10 DEF Gsup!decodeIe
  <2> QED
    BY <1>1, <1>2, <2>1, GsupExcept, Zenon
<1>11. CASE t = 8
  <2>1. b = [m EXCEPT !.msisdn = <<v>>]
    BY <1>0, <1>4, <1>5, <1>11 DEF Gsup!decodeIe
  <2> QED
    BY <1>3, <2>1, GsupExcept, Zenon
<1>12. CASE t = 9
  <2>1. b = [m EXCEPT !.hlrNumber = <<v>>]
    BY <1>0, <1>4, <1>5, <1>12 DEF Gsup!decodeIe
  <2> QED
    BY <2>1, GsupExcept, Zenon
<1>c. CASE t = 40
  <2>1. b = [m EXCEPT !.cnDomain = IF v = <<>> THEN m.cnDomain ELSE <<v[1]>>]
    BY <1>0, <1>4, <1>5, <1>c DEF Gsup!decodeIe
  <2> QED
    BY <2>1, GsupExcept, Zenon
<1>13. CASE t = 16
  <2>1. b = [m EXCEPT !.numVectorsRequested =
                        IF v = <<>> THEN m.numVectorsRequested ELSE <<v[1]>>]
    BY <1>0, <1>4, <1>5, <1>13 DEF Gsup!decodeIe
  <2> QED
    BY <1>1, <1>2, <2>1, GsupExcept, Zenon
<1>14. CASE t \notin {1, 2, 3, 4, 5, 6, 7, 8, 9, 16, 40}
  <2>1. b = m
    BY <1>0, <1>4, <1>5, <1>14 DEF Gsup!decodeIe
  <2> QED
    BY <2>1, Zenon
<1> QED
  BY <1>6, <1>7, <1>8, <1>9, <1>10, <1>11, <1>12, <1>13, <1>14, <1>a, <1>b, <1>c,
     Zenon

DecodeIe(m, x) == Gsup!decodeIe(m, x)

GsupIes == INSTANCE Iteration WITH Body <- DecodeIe, Good <- GsupIn

(* Whatever octets a peer sends, what GsupCodec decodes is well-formed. *)
LEMMA GsupDecoded ==
  ASSUME NEW s \in Seq(Octet), NEW g \in Gsup!decode(s)
  PROVE  GsupIn(g)
<1>1. s # <<>>
  BY Zenon DEF Gsup!decode
<1>2. PICK rest \in Seq(Octet) : rest = Tail(s)
  BY <1>1, HeadTailProperties, Zenon
<1>3. PICK start : start = [Gsup!GsupMessage EXCEPT !.type = Gsup!TypeOf(s[1])]
  OBVIOUS
<1>4. PICK ies \in Gsup!readIes(rest, FALSE) : g \in Gsup!Loop(ies, start, Gsup!decodeIe)
  BY <1>1, <1>2, <1>3, Zenon DEF Gsup!decode, Gsup!Then
<1>5. ies \in Seq(Ie)
  BY <1>4, IesType
<1>6. Len(ies) \in Nat /\ \A i \in 1 .. Len(ies) : ies[i] \in Ie
  BY <1>5, LenProperties, ElementOfSeq
<1>7. GsupIn(start)
  <2>1. GsupIn(Gsup!GsupMessage)
    <3>1. Len(<<>>) \in Nat /\ <<>> \in Option(Octet) /\ <<>> \in Option(Seq(Octet))
      BY DEF Option
    <3> QED
      BY <3>1 DEF GsupIn, Gsup!GsupMessage
  <2> QED
    BY <1>3, <2>1, GsupExcept, Zenon
<1>8. \A i \in 1 .. Len(ies) : \A a : GsupIn(a) => \A b \in DecodeIe(a, ies[i]) : GsupIn(b)
  BY <1>6, GsupElement, Zenon DEF DecodeIe
<1>9. \A a \in GsupIes!Loop(ies, start, DecodeIe) : GsupIn(a)
  BY <1>6, <1>7, <1>8, GsupIes!LoopKeeps, Zenon
<1>10. Gsup!Loop(ies, start, Gsup!decodeIe) = GsupIes!Loop(ies, start, DecodeIe)
  BY Zenon DEF Gsup!Loop, Gsup!Then, GsupIes!Loop, GsupIes!Then, DecodeIe
<1> QED
  BY <1>4, <1>9, <1>10, Zenon

-----------------------------------------------------------------------------
(* What the converter makes for the HLR can be encoded.                     *)

LEMMA NoneOption ==
  ASSUME NEW S
  PROVE  <<>> \in Option(S)
BY Zenon DEF Option

(* The converter makes an encodable request of any GSUP message it accepts. *)
LEMMA RequestOut ==
  ASSUME NEW g, GsupIn(g), NEW tid \in Nat, NEW id \in Octet,
         NEW m \in gsupToMap(g, tid, id)
  PROVE  MapOut(m)
<1>1. /\ Len(g.imsi) \in Nat
      /\ g.cause \in Option(Octet) /\ g.numVectorsRequested \in Option(Octet)
      /\ g.cancelType \in Option(Octet) /\ g.msisdn \in Option(Seq(Octet))
  BY Zenon DEF GsupIn
<1>2. PICK imsi : imsi = g.imsi /\ Len(imsi) \in Nat
  BY <1>1, Zenon
<1>3. PICK op \in Operations : op = Switch!gsupToMap(g.type)
  <2>1. g.type \in Switch!GsupToMapTypes
    BY Zenon DEF gsupToMap
  <2>2. g.type.proc \in {"SendAuthInfo", "UpdateLocation", "LocationCancel",
                         "InsertData", "PurgeMs"}
    BY <2>1 DEF Switch!GsupToMapTypes
  <2> QED
    BY <2>2 DEF Switch!gsupToMap, Switch!OperationOf, Operations
<1>4. PICK b : b = [Map!MapMessage EXCEPT !.transactionId = tid,
                                    !.invokeId = id, !.imsi = imsi,
                                    !.operation = op]
  OBVIOUS
<1>5. b = [transactionId |-> tid, component |-> "Invoke", invokeId |-> id,
     operation |-> op, imsi |-> imsi, numRequestedVectors |-> <<>>,
     authTriplets |-> <<>>, authQuintuplets |-> <<>>, sgsnNumber |-> <<>>,
     sgsnAddress |-> <<>>, hlrNumber |-> <<>>, msisdn |-> <<>>,
     cancelType |-> <<>>, freezePtmsi |-> FALSE, errorCode |-> <<>>]
  BY <1>4 DEF Map!MapMessage
<1>6. MapOut(b)
  <2>1. <<>> \in Option(Octet) /\ <<>> \in Option(Seq(Octet))
    BY NoneOption, Zenon
  <2> QED
    BY <1>2, <1>5, <2>1 DEF MapOut
<1>7. <<ValueOr(g.numVectorsRequested, 1)>> \in Option(Octet)
  <2>1. 1 \in Octet
    BY DEF Octet
  <2>2. ValueOr(g.numVectorsRequested, 1) \in Octet
    BY <1>1, <2>1, OptionSeq, Zenon DEF ValueOr
  <2> QED
    BY <2>2, Zenon DEF Option
<1>8. /\ \A x \in Option(Octet) : MapOut([b EXCEPT !.numRequestedVectors = x])
      /\ \A x \in Option(Octet) : MapOut([b EXCEPT !.cancelType = x])
      /\ \A x \in Option(Seq(Octet)) : MapOut([b EXCEPT !.msisdn = x])
  <2>1. \A x \in Option(Octet) : MapOut([b EXCEPT !.numRequestedVectors = x])
    BY <1>5, <1>6 DEF MapOut
  <2>2. \A x \in Option(Octet) : MapOut([b EXCEPT !.cancelType = x])
    BY <1>5, <1>6 DEF MapOut
  <2>3. \A x \in Option(Seq(Octet)) : MapOut([b EXCEPT !.msisdn = x])
    BY <1>5, <1>6 DEF MapOut
  <2> QED
    BY <2>1, <2>2, <2>3, Zenon
<1>9. \/ m = [b EXCEPT !.numRequestedVectors = <<ValueOr(g.numVectorsRequested, 1)>>]
      \/ m = [b EXCEPT !.cancelType = g.cancelType]
      \/ m = [b EXCEPT !.msisdn = g.msisdn]
      \/ m = b
  BY <1>2, <1>3, <1>4 DEF gsupToMap
<1> QED
  BY <1>1, <1>6, <1>7, <1>8, <1>9, Zenon

(* The converter makes an encodable answer of any GSUP message it accepts. *)
LEMMA ResultOut ==
  ASSUME NEW g, GsupIn(g), NEW tid \in Nat, NEW id \in Octet,
         NEW m \in gsupToMapResult(g, tid, id)
  PROVE  MapOut(m)
<1>1. PICK imsi : imsi = g.imsi /\ Len(imsi) \in Nat
  BY Zenon DEF GsupIn
<1>2. PICK e \in Option(Octet) : e = IF g.type.dir = "Error" THEN g.cause ELSE <<>>
  BY NoneOption, Zenon DEF GsupIn
<1>3. PICK op \in Operations, c \in {"ReturnResult", "ReturnError"} :
        op = Switch!gsupToMapResult(g.type).operation
        /\ c = Switch!gsupToMapResult(g.type).component
  <2>1. Switch!isHlrInitiatedGsupType(g.type)
    BY Zenon DEF gsupToMapResult
  <2>2. g.type.proc \in {"InsertData", "LocationCancel", "DeleteData", "PurgeMs"}
    BY <2>1 DEF Switch!isHlrInitiatedGsupType, Switch!MapInvokeProcs
  <2>3. Switch!OperationOf[g.type.proc] \in Operations
    BY <2>2 DEF Switch!OperationOf, Operations
  <2> QED
    BY <2>3 DEF Switch!gsupToMapResult
<1>4. m = [Map!MapMessage EXCEPT
                 !.transactionId = tid, !.invokeId = id,
                 !.imsi = imsi, !.component = c, !.operation = op,
                 !.errorCode = e]
  BY <1>1, <1>2, <1>3, Zenon DEF gsupToMapResult
<1>5. m = [transactionId |-> tid, component |-> c, invokeId |-> id,
     operation |-> op, imsi |-> imsi, numRequestedVectors |-> <<>>,
     authTriplets |-> <<>>, authQuintuplets |-> <<>>, sgsnNumber |-> <<>>,
     sgsnAddress |-> <<>>, hlrNumber |-> <<>>, msisdn |-> <<>>,
     cancelType |-> <<>>, freezePtmsi |-> FALSE, errorCode |-> e]
  BY <1>4 DEF Map!MapMessage
<1>6. <<>> \in Option(Octet) /\ <<>> \in Option(Seq(Octet))
  BY NoneOption, Zenon
<1> QED
  BY <1>1, <1>2, <1>5, <1>6 DEF MapOut

-----------------------------------------------------------------------------
(* What the M3UA and SCCP codecs leave of a message is octets.              *)

LEMMA Slice ==
  ASSUME NEW s \in Seq(Octet), NEW m \in Nat \ {0}, NEW n \in Int, n <= Len(s)
  PROVE  SubSeq(s, m, n) \in Seq(Octet)
OBVIOUS

(* A message read so far: user data, if there are any, are octets.          *)
DataRead(m) ==
    /\ {"msgClass", "msgType", "routingContext", "protocolData",
        "heartbeatData"} \subseteq DOMAIN m
    /\ m.protocolData = <<>> \/ m.protocolData[1].userData \in Seq(Octet)

BodyRead(a) == DataRead(a.msg) /\ a.rest \in Seq(Octet)

Bodies == INSTANCE Iteration WITH Body <- DecodeTurn, Good <- BodyRead

LEMMA TlvData ==
  ASSUME NEW m, DataRead(m), NEW tag, NEW v \in Seq(Octet),
         NEW b \in M3ua!decodeTlv(m, tag, v)
  PROVE  DataRead(b)
<1>1. Len(v) \in Nat
  BY LenProperties
<1>2. \A x : DataRead([m EXCEPT !.routingContext = x])
             /\ DataRead([m EXCEPT !.heartbeatData = x])
  BY DEF DataRead
<1>3. \/ b = m \/ b = [m EXCEPT !.heartbeatData = v]
      \/ b = [m EXCEPT !.routingContext = <<M3ua!ValueBE(M3ua!Taken(v, 4))>>]
      \/ /\ ~(Len(v) < 12)
         /\ b = [m EXCEPT !.protocolData =
                    <<[opc |-> M3ua!ValueBE(SubSeq(v, 1, 4)),
                       dpc |-> M3ua!ValueBE(SubSeq(v, 5, 8)),
                       si |-> v[9], ni |-> v[10], mp |-> v[11], sls |-> v[12],
                       userData |-> M3ua!Left(v, 12)]>>]
  BY DEF M3ua!decodeTlv, M3ua!kTagRoutingCtx, M3ua!kTagHeartbeatData,
         M3ua!kTagProtocolData
<1>4. ASSUME ~(Len(v) < 12), NEW pd, pd.userData = M3ua!Left(v, 12),
             b = [m EXCEPT !.protocolData = <<pd>>]
      PROVE  DataRead(b)
  <2>1. Left(v, 12) \in Seq(Octet)
    <3>1. 12 \in 0 .. Len(v)
      BY <1>1, <1>4
    <3> QED
      BY <3>1, TakenAndLeft, Zenon
  <2>2. pd.userData \in Seq(Octet)
    BY <1>4, <2>1, M3uaOctets, Zenon
  <2> QED
    BY <1>4, <2>2 DEF DataRead
<1>5. ASSUME NEW x1, NEW x2, NEW x3, NEW x4, NEW x5, NEW x6, NEW x7
      PROVE  [opc |-> x1, dpc |-> x2, si |-> x3, ni |-> x4, mp |-> x5, sls |-> x6,
              userData |-> x7].userData = x7
  OBVIOUS
<1> QED
  BY <1>2, <1>3, <1>4, <1>5, Zenon

LEMMA TurnData ==
  ASSUME NEW a, BodyRead(a), NEW b \in M3ua!decodeNext(a)
  PROVE  BodyRead(b)
<1>0. PICK m : m = a.msg /\ DataRead(m)
  BY Zenon DEF BodyRead
<1>1. PICK s \in Seq(Octet) : s = a.rest
  BY Zenon DEF BodyRead
<1>2. Len(s) \in Nat
  BY LenProperties
<1>3. CASE Len(s) < 4
  <2>1. b = a
    BY <1>1, <1>3, Zenon DEF M3ua!decodeNext
  <2> QED
    BY <2>1, Zenon
<1>4. CASE ~(Len(s) < 4)
  <2>1. PICK len \in Nat : len = M3ua!ValueBE(SubSeq(s, 3, 4))
    <3>1. SubSeq(s, 3, 4) \in Seq(Octet)
      <4>1. 3 \in Nat \ {0} /\ 4 \in Int /\ 4 <= Len(s)
        BY <1>2, <1>4
      <4> QED
        BY <4>1, Slice, Zenon
    <3> QED
      BY <3>1, ValueNat, M3uaOctets, Zenon
  <2>2. PICK k : k = IF len + M3ua!padding(len) <= Len(s)
                       THEN len + M3ua!padding(len) ELSE len
    OBVIOUS
  <2>3. PICK x : /\ ~(len < 4 \/ len > Len(s))
                 /\ x \in M3ua!decodeTlv(m, M3ua!ValueBE(M3ua!Taken(s, 2)), SubSeq(s, 5, len))
                 /\ b = [msg |-> x, rest |-> M3ua!Left(s, k)]
    BY <1>0, <1>1, <1>4, <2>1, <2>2, Zenon DEF M3ua!decodeNext
  <2>4. k \in 0 .. Len(s) /\ SubSeq(s, 5, len) \in Seq(Octet)
    <3>1. M3ua!padding(len) \in Nat
      BY DEF M3ua!padding
    <3>2. k \in 0 .. Len(s) /\ len <= Len(s) /\ 5 \in Nat \ {0} /\ len \in Int
      BY <1>2, <2>2, <2>3, <3>1
    <3> QED
      BY <3>2, Slice, Zenon
  <2>5. DataRead(x)
    BY <1>0, <2>3, <2>4, TlvData, Zenon
  <2>6. Left(s, k) \in Seq(Octet)
    BY <2>4, TakenAndLeft, Zenon
  <2>7. b.msg = x /\ b.rest = M3ua!Left(s, k)
    BY <2>3
  <2> QED
    BY <2>5, <2>6, <2>7, M3uaOctets, Zenon DEF BodyRead
<1> QED
  BY <1>3, <1>4

LEMMA DecodedData ==
  ASSUME NEW s \in Seq(Octet), Len(s) >= 8, NEW m \in M3ua!decode(s)
  PROVE  DataRead(m)
<1>1. PICK b \in Seq(Octet) : b = M3ua!Left(s, M3ua!kCommonHeaderSize)
  <2>1. 8 \in 0 .. Len(s) /\ M3ua!kCommonHeaderSize = 8
    BY LenProperties DEF M3ua!kCommonHeaderSize
  <2> QED
    BY <2>1, TakenAndLeft, M3uaOctets, Zenon
<1>2. PICK n \in Nat : n = Len(b) \div 4
  <2>1. Len(b) \in Nat
    BY LenProperties
  <2> QED
    BY <2>1
<1>3. PICK t : t = [i \in 1 .. n |-> i] /\ Len(t) \in Nat
  <2>1. PICK t : t = [i \in 1 .. n |-> i]
    OBVIOUS
  <2> QED
    BY <2>1, TurnCount, Zenon
<1>4. PICK start : start = [msg |-> M3ua!Message(s[3], s[4]), rest |-> b]
  OBVIOUS
<1>5. BodyRead(start)
  <2>1. start.msg = M3ua!Message(s[3], s[4]) /\ start.rest = b
    BY <1>4
  <2>2. DataRead(M3ua!Message(s[3], s[4]))
    BY DEF DataRead, M3ua!Message
  <2> QED
    BY <2>1, <2>2, Zenon DEF BodyRead
<1>6. \A i \in 1 .. Len(t) : \A a : BodyRead(a) =>
        \A c \in DecodeTurn(a, t[i]) : BodyRead(c)
  BY TurnData, Zenon DEF DecodeTurn
<1>7. \A a \in Bodies!Loop(t, start, DecodeTurn) : BodyRead(a)
  BY <1>3, <1>5, <1>6, Bodies!LoopKeeps, Zenon
<1>8. m \in M3ua!decodeTlvs(M3ua!Message(s[3], s[4]), b)
  BY <1>1, Zenon DEF M3ua!decode
<1>9. M3ua!decodeTlvs(M3ua!Message(s[3], s[4]), b) =
        {a.msg : a \in Bodies!Loop(t, start, DecodeTurn)}
  BY <1>2, <1>3, <1>4, Zenon DEF M3ua!decodeTlvs, M3ua!While, M3ua!Loop, M3ua!Then,
       Bodies!Loop, Bodies!Then, DecodeTurn
<1> QED
  BY <1>7, <1>8, <1>9, Zenon DEF BodyRead

LEMMA M3uaRead ==
  ASSUME NEW buf \in Seq(Octet), NEW r \in M3ua!next(buf)
  PROVE  /\ r.buf \in Seq(Octet)
         /\ r.msg = <<>> \/ DataRead(r.msg[1])
<1>1. PICK f \in Seq(Octet) :
           /\ r.buf \in Seq(Octet)
           /\ \/ r.msg = <<>>
              \/ /\ Len(f) >= M3ua!kCommonHeaderSize
                 /\ \E m \in M3ua!decode(f) : r.msg = <<m>>
  BY M3uaProgress
<1>2. ASSUME Len(f) >= M3ua!kCommonHeaderSize,
             NEW m \in M3ua!decode(f), r.msg = <<m>>
      PROVE  DataRead(r.msg[1])
  <2>1. Len(f) >= 8 /\ r.msg[1] = m
    BY <1>2 DEF M3ua!kCommonHeaderSize
  <2> QED
    BY <2>1, DecodedData, Zenon
<1> QED
  BY <1>1, <1>2, Zenon

LEMMA UdtData ==
  ASSUME NEW raw \in Seq(Octet), NEW udt \in Sccp!decodeUdt(raw)
  PROVE  udt.data \in Seq(Octet)
<1>1. Len(raw) \in Nat /\ ~(Len(raw) < 5)
  <2>1. Len(raw) \in Nat
    BY LenProperties
  <2>2. ~(Len(raw) < 5)
    BY SMT DEF Sccp!decodeUdt
  <2> QED
    BY <2>1, <2>2
<1>2. PICK d \in Sccp!udtPart(raw, 5) : udt.data = d
  BY <1>1 DEF Sccp!decodeUdt
<1>3. PICK at : at = 5 + raw[5]
  OBVIOUS
<1>4. ~(at > Len(raw) \/ at + raw[at] > Len(raw)) /\ d = SubSeq(raw, at + 1, at + raw[at])
  BY <1>2, <1>3, Zenon DEF Sccp!udtPart
<1>5. raw[5] \in Nat
  <2>1. 5 \in 1 .. Len(raw)
    BY <1>1
  <2> QED
    BY <2>1, ElementOfSeq, OctetNat, Zenon
<1>6. at \in 1 .. Len(raw)
  BY <1>1, <1>3, <1>4, <1>5
<1>7. raw[at] \in Nat
  BY <1>6, ElementOfSeq, OctetNat, Zenon
<1>8. at + 1 \in Nat \ {0} /\ at + raw[at] \in Int /\ at + raw[at] <= Len(raw)
  BY <1>1, <1>4, <1>6, <1>7
<1> QED
  BY <1>2, <1>4, <1>8, Slice, Zenon

-----------------------------------------------------------------------------
(* What MapCodec reads.                                                     *)

TlvSet == [tag : Octet, value : Seq(Octet)]

IsLength(l) == l.len \in Nat /\ l.rest \in Seq(Octet)

LEMMA BerLength ==
  ASSUME NEW s \in Seq(Octet), NEW l \in Map!readLength(s)
  PROVE  IsLength(l)
<1>1. s # <<>>
  BY Zenon DEF Map!readLength
<1>2. Len(s) \in Nat /\ Len(s) # 0 /\ s[1] \in Octet
  <2>1. Len(s) \in Nat /\ Len(s) # 0
    BY <1>1, LenProperties, EmptySeq
  <2>2. 1 \in 1 .. Len(s)
    BY <2>1
  <2> QED
    BY <2>1, <2>2, ElementOfSeq
<1>3. PICK f \in Nat : f = s[1]
  BY <1>2, OctetNat, Zenon
<1>4. PICK t \in Seq(Octet) : t = Tail(s) /\ Len(t) = Len(s) - 1
  BY <1>1, HeadTailProperties
<1>5. CASE f <= 127
  <2>1. l = [len |-> f, rest |-> t]
    BY <1>1, <1>3, <1>4, <1>5 DEF Map!readLength
  <2>2. l.len = f /\ l.rest = t
    BY <2>1
  <2> QED
    BY <2>2, Zenon DEF IsLength
<1>6. CASE ~(f <= 127)
  <2>1. PICK n : n = f % 128
    OBVIOUS
  <2>2. /\ n \in 1 .. 4 /\ n < Len(s)
        /\ l = [len |-> Map!ValueBE(Map!Taken(t, n)), rest |-> Map!Left(t, n)]
    BY <1>1, <1>3, <1>4, <1>6, <2>1 DEF Map!readLength
  <2>3. n \in 0 .. Len(t)
    BY <1>2, <1>4, <2>2
  <2>4. Taken(t, n) \in Seq(Octet) /\ Left(t, n) \in Seq(Octet)
    BY <2>3, TakenAndLeft
  <2>5. l.len = Map!ValueBE(Map!Taken(t, n)) /\ l.rest = Map!Left(t, n)
    BY <2>2
  <2> QED
    BY <2>4, <2>5, ValueNat, MapOctets, Zenon DEF IsLength
<1> QED
  BY <1>5, <1>6

IsElement(x) == x.tag \in Octet /\ x.value \in Seq(Octet) /\ x.rest \in Seq(Octet)

LEMMA BerTlv ==
  ASSUME NEW s \in Seq(Octet), NEW x \in Map!readTlv(s)
  PROVE  IsElement(x)
<1>1. s # <<>>
  BY Zenon DEF Map!readTlv
<1>2. s[1] \in Octet
  <2>1. Len(s) \in Nat /\ Len(s) # 0
    BY <1>1, LenProperties, EmptySeq
  <2>2. 1 \in 1 .. Len(s)
    BY <2>1
  <2> QED
    BY <2>2, ElementOfSeq
<1>3. PICK t \in Seq(Octet) : t = Tail(s)
  BY <1>1, HeadTailProperties
<1>4. PICK l \in Map!readLength(t) :
        /\ l.len <= Len(l.rest)
        /\ x = [tag |-> s[1], value |-> Map!Taken(l.rest, l.len),
                rest |-> Map!Left(l.rest, l.len)]
  BY <1>1, <1>3, Zenon DEF Map!readTlv
<1>5. PICK n \in Nat : n = l.len
  BY BerLength, Zenon DEF IsLength
<1>6. PICK r \in Seq(Octet) : r = l.rest
  BY BerLength, Zenon DEF IsLength
<1>7. n \in 0 .. Len(r)
  <2>1. Len(r) \in Nat
    BY LenProperties
  <2> QED
    BY <1>4, <1>5, <1>6, <2>1
<1>8. Taken(r, n) \in Seq(Octet) /\ Left(r, n) \in Seq(Octet)
  BY <1>7, TakenAndLeft
<1>9. /\ x.tag = s[1] /\ x.value = Map!Taken(r, n) /\ x.rest = Map!Left(r, n)
  BY <1>4, <1>5, <1>6
<1> QED
  BY <1>2, <1>8, <1>9, MapOctets, Zenon DEF IsElement

TlvTurns(a, i) == Map!readNext(a)

TlvsRead(a) == a.tlvs \in Seq(TlvSet) /\ a.rest \in Seq(Octet)

BerTlvs == INSTANCE Iteration WITH Body <- TlvTurns, Good <- TlvsRead

LEMMA TlvTurnKeeps ==
  ASSUME NEW a, TlvsRead(a), NEW b \in Map!readNext(a)
  PROVE  TlvsRead(b)
<1>1. PICK s \in Seq(Octet) : s = a.rest
  BY Zenon DEF TlvsRead
<1>2. PICK tlvs \in Seq(TlvSet) : tlvs = a.tlvs
  BY Zenon DEF TlvsRead
<1>3. CASE s = <<>>
  BY <1>1, <1>3, Zenon DEF Map!readNext
<1>4. CASE s # <<>>
  <2>1. PICK x \in Map!readTlv(s) :
          b = [tlvs |-> Append(a.tlvs, [tag |-> x.tag, value |-> x.value]),
               rest |-> x.rest]
    BY <1>1, <1>4, Zenon DEF Map!readNext
  <2>2. x.tag \in Octet /\ x.value \in Seq(Octet) /\ x.rest \in Seq(Octet)
    BY BerTlv, Zenon DEF IsElement
  <2>3. PICK y \in TlvSet : y = [tag |-> x.tag, value |-> x.value]
    BY <2>2 DEF TlvSet
  <2>4. Append(tlvs, y) \in Seq(TlvSet)
    BY AppendProperties
  <2>5. b.tlvs = Append(tlvs, y) /\ b.rest = x.rest
    BY <1>2, <2>1, <2>3
  <2> QED
    BY <2>2, <2>4, <2>5, Zenon DEF TlvsRead
<1> QED
  BY <1>3, <1>4

LEMMA TlvsType ==
  ASSUME NEW s \in Seq(Octet), NEW tlvs \in Map!readTlvs(s)
  PROVE  tlvs \in Seq(TlvSet)
<1>1. PICK n \in Nat : n = (Len(s) + 1) \div 2
  <2>1. Len(s) \in Nat
    BY LenProperties
  <2> QED
    BY <2>1, Pairs
<1>2. PICK t : t = [i \in 1 .. n |-> i] /\ Len(t) \in Nat
  <2>1. PICK t : t = [i \in 1 .. n |-> i]
    OBVIOUS
  <2> QED
    BY <2>1, TurnCount, Zenon
<1>3. PICK start : start = [tlvs |-> <<>>, rest |-> s]
  OBVIOUS
<1>4. TlvsRead(start)
  <2>1. start.tlvs = <<>> /\ start.rest = s /\ <<>> \in Seq(TlvSet)
    BY <1>3
  <2> QED
    BY <2>1 DEF TlvsRead
<1>5. \A i \in 1 .. Len(t) : \A a : TlvsRead(a) => \A b \in TlvTurns(a, t[i]) : TlvsRead(b)
  BY TlvTurnKeeps, Zenon DEF TlvTurns
<1>6. \A a \in BerTlvs!Loop(t, start, TlvTurns) : TlvsRead(a)
  BY <1>2, <1>4, <1>5, BerTlvs!LoopKeeps, Zenon
<1>7. Map!readTlvs(s) = {a.tlvs : a \in BerTlvs!Loop(t, start, TlvTurns)}
  BY <1>1, <1>2, <1>3, Zenon DEF Map!readTlvs, Map!While, Map!Loop, Map!Then,
       BerTlvs!Loop, BerTlvs!Then, TlvTurns
<1> QED
  BY <1>6, <1>7, Zenon DEF TlvsRead

LEMMA ValuesLength ==
  ASSUME NEW tlvs \in Seq(TlvSet), NEW tag
  PROVE  /\ Len(Map!ValuesOf(tlvs, tag)) \in Nat
         /\ Len(tlvs) \in Nat /\ \A i \in 1 .. Len(tlvs) : tlvs[i] \in TlvSet
<1>1. PICK n \in Nat : n = Len(tlvs) /\ DOMAIN tlvs = 1 .. n
                       /\ \A i \in 1 .. n : tlvs[i] \in TlvSet
  BY LenProperties, ElementOfSeq
<1>2. PICK s : s = [i \in DOMAIN tlvs |-> IF tlvs[i].tag = tag THEN <<tlvs[i].value>>
                                          ELSE <<>>]
  OBVIOUS
<1>3. \A x \in TlvSet : <<x.value>> \in Seq(Seq(Octet)) /\ <<>> \in Seq(Seq(Octet))
  BY DEF TlvSet
<1>4. s \in [1 .. n -> Seq(Seq(Octet))]
  BY <1>1, <1>2, <1>3, Zenon
<1>5. s \in Seq(Seq(Seq(Octet)))
  BY <1>4, SeqDef
<1>6. FlattenSeq(s) \in Seq(Seq(Octet))
  BY <1>5, FlattenType, Zenon
<1>7. Map!ValuesOf(tlvs, tag) = FlattenSeq(s)
  BY <1>2, MapOctets, Zenon DEF Map!ValuesOf, Map!Each
<1>8. Len(FlattenSeq(s)) \in Nat
  BY <1>6, LenProperties
<1> QED
  BY <1>1, <1>7, <1>8, Zenon

(* A MAP message as the proxy takes it.                                     *)
MapIn(m) ==
    /\ {"transactionId", "component", "invokeId", "operation", "imsi",
        "numRequestedVectors", "authTriplets", "authQuintuplets", "sgsnNumber",
        "sgsnAddress", "hlrNumber", "msisdn", "cancelType", "freezePtmsi",
        "errorCode"} \subseteq DOMAIN m
    /\ m.transactionId \in Nat /\ m.invokeId \in Octet

LEMMA MapExcept ==
  ASSUME NEW m, MapIn(m), NEW x, NEW y
  PROVE  /\ MapIn([m EXCEPT !.imsi = x]) /\ MapIn([m EXCEPT !.operation = x])
         /\ MapIn([m EXCEPT !.component = x]) /\ MapIn([m EXCEPT !.errorCode = x])
         /\ MapIn([m EXCEPT !.cancelType = x]) /\ MapIn([m EXCEPT !.hlrNumber = x])
         /\ MapIn([m EXCEPT !.freezePtmsi = x])
         /\ MapIn([m EXCEPT !.authTriplets = x])
         /\ MapIn([m EXCEPT !.authQuintuplets = x])
         /\ MapIn([m EXCEPT !.imsi = x, !.numRequestedVectors = y])
         /\ MapIn([m EXCEPT !.imsi = x, !.msisdn = y])
         /\ MapIn([m EXCEPT !.imsi = x, !.sgsnNumber = y])
         /\ x \in Nat => MapIn([m EXCEPT !.transactionId = x])
         /\ x \in Octet => MapIn([m EXCEPT !.invokeId = x])
<1>1. MapIn([m EXCEPT !.imsi = x]) /\ MapIn([m EXCEPT !.operation = x])
  BY DEF MapIn
<1>2. MapIn([m EXCEPT !.component = x]) /\ MapIn([m EXCEPT !.errorCode = x])
  BY DEF MapIn
<1>3. MapIn([m EXCEPT !.cancelType = x]) /\ MapIn([m EXCEPT !.hlrNumber = x])
  BY DEF MapIn
<1>4. MapIn([m EXCEPT !.freezePtmsi = x]) /\ MapIn([m EXCEPT !.authTriplets = x])
  BY DEF MapIn
<1>5. MapIn([m EXCEPT !.authQuintuplets = x])
  BY DEF MapIn
<1>6. MapIn([m EXCEPT !.imsi = x, !.numRequestedVectors = y])
  BY DEF MapIn
<1>7. MapIn([m EXCEPT !.imsi = x, !.msisdn = y])
  BY DEF MapIn
<1>8. MapIn([m EXCEPT !.imsi = x, !.sgsnNumber = y])
  BY DEF MapIn
<1>9. x \in Nat => MapIn([m EXCEPT !.transactionId = x])
  BY DEF MapIn
<1>10. x \in Octet => MapIn([m EXCEPT !.invokeId = x])
  BY DEF MapIn
<1> QED
  BY <1>1, <1>2, <1>3, <1>4, <1>5, <1>6, <1>7, <1>8, <1>9, <1>10, Zenon

LEMMA MapByte ==
  ASSUME NEW v \in Seq(Octet), NEW n \in Map!decodeOctet(v)
  PROVE  n \in Octet
<1>1. Len(v) \in Nat
  BY LenProperties
<1>2. PICK x \in Nat : x = Map!ValueBE(v)
  BY ValueNat, MapOctets, Zenon
<1>3. PICK k : k \in Map!decodeInt(v) /\ n = k % 256
  BY Zenon DEF Map!decodeOctet
<1>4. k = x - 256 ^ Len(v) \/ k = x - 0
  BY <1>2, <1>3, Zenon DEF Map!decodeInt
<1>5. k \in Int
  <2>1. PICK l \in Nat : l = Len(v)
    BY <1>1, Zenon
  <2>2. 256 ^ l \in Int
    OBVIOUS
  <2> QED
    BY <1>4, <2>1, <2>2
<1>6. k % 256 \in Octet
  BY <1>5 DEF Octet
<1> QED
  BY <1>3, <1>6, Zenon

CancelTurn(a, i) == {[a EXCEPT !.cancelType = <<n>>] : n \in Map!decodeOctet(i)}

Cancels == INSTANCE Iteration WITH Body <- CancelTurn, Good <- MapIn

LEMMA ReqIn ==
  ASSUME NEW m, MapIn(m), m.operation \in Operations, NEW tlvs,
         m.operation = "CancelLocation" =>
           Len(Map!ValuesOf(tlvs, Map!kBerInt)) \in Nat,
         NEW b \in Map!decodeReq(m, tlvs)
  PROVE  MapIn(b)
<1>1. CASE m.operation = "SendAuthenticationInfo"
  <2>1. b \in Map!decodeSendAuthInfoReq(m, tlvs)
    BY <1>1, SMT DEF Map!decodeReq
  <2>2. PICK ints : ints = Map!ValuesOf(tlvs, Map!kBerInt)
    OBVIOUS
  <2>3. PICK counts : counts = IF m.numRequestedVectors # <<>> \/ ints = <<>>
                                 THEN {m.numRequestedVectors}
                                 ELSE {<<n>> : n \in Map!decodeOctet(ints[1])}
    OBVIOUS
  <2>4. PICK x : b \in {[m EXCEPT !.imsi = x, !.numRequestedVectors = n] :
                          n \in counts}
    BY <2>1, <2>2, <2>3, Zenon DEF Map!decodeSendAuthInfoReq, Map!Then
  <2>5. PICK y : b = [m EXCEPT !.imsi = x, !.numRequestedVectors = y]
    BY <2>4, Zenon
  <2> QED
    BY <2>5, MapExcept, Zenon
<1>2. CASE m.operation = "UpdateGprsLocation"
  <2>1. b \in Map!decodeUpdateGprsLocationReq(m, tlvs)
    BY <1>2, SMT DEF Map!decodeReq
  <2>2. PICK octets : octets = Map!ValuesOf(tlvs, Map!kBerOctetStr)
    OBVIOUS
  <2>3. PICK all : all = m.sgsnNumber \o m.sgsnAddress
                    \o IF m.imsi = <<>> THEN Map!behindFirst(octets) ELSE octets
    OBVIOUS
  <2>4. PICK y, z : y = Map!Nth(all, 1) /\ z = Map!Nth(all, 2)
    OBVIOUS
  <2>5. PICK x : b = [m EXCEPT !.imsi = x, !.sgsnNumber = y, !.sgsnAddress = z]
    BY <2>1, <2>2, <2>3, <2>4, Zenon DEF Map!decodeUpdateGprsLocationReq
  <2> QED
    BY <2>5 DEF MapIn
<1>3. CASE m.operation = "CancelLocation"
  <2>0. b \in Map!decodeCancelLocationReq(m, tlvs)
    BY <1>3, SMT DEF Map!decodeReq
  <2>1. PICK ints : ints = Map!ValuesOf(tlvs, Map!kBerInt) /\ Len(ints) \in Nat
    BY <1>3, Zenon
  <2>2. PICK x : b \in Map!cancelTypes([m EXCEPT !.imsi = x], ints)
    BY <2>0, <2>1, Zenon DEF Map!decodeCancelLocationReq, Map!Then
  <2>3. PICK start : start = [m EXCEPT !.imsi = x] /\ MapIn(start)
    BY MapExcept, Zenon
  <2>4. b \in Cancels!Loop(ints, start, CancelTurn)
    BY <2>2, <2>3, Zenon DEF Map!cancelTypes, Map!Loop, Map!Then, Cancels!Loop,
         Cancels!Then, CancelTurn
  <2>5. ASSUME NEW i \in 1 .. Len(ints), NEW a, MapIn(a),
               NEW c \in CancelTurn(a, ints[i])
        PROVE  MapIn(c)
    <3>1. PICK y : c = [a EXCEPT !.cancelType = y]
      BY Zenon DEF CancelTurn
    <3> QED
      BY <2>5, <3>1, MapExcept, Zenon
  <2>6. \A a \in Cancels!Loop(ints, start, CancelTurn) : MapIn(a)
    BY <2>1, <2>3, <2>5, Cancels!LoopKeeps, Zenon
  <2> QED
    BY <2>4, <2>6, Zenon
<1>4. CASE m.operation = "InsertSubscriberData"
  <2>1. b \in Map!decodeInsertSubscriberDataReq(m, tlvs)
    BY <1>4, SMT DEF Map!decodeReq
  <2>2. PICK x, y : b = [m EXCEPT !.imsi = x, !.msisdn = y]
    BY <2>1, Zenon DEF Map!decodeInsertSubscriberDataReq
  <2> QED
    BY <2>2, MapExcept, Zenon
<1>5. CASE m.operation = "DeleteSubscriberData"
  <2>1. b \in Map!decodeDeleteSubscriberDataReq(m, tlvs)
    BY <1>5, SMT DEF Map!decodeReq
  <2>2. PICK x : b = [m EXCEPT !.imsi = x]
    BY <2>1, Zenon DEF Map!decodeDeleteSubscriberDataReq
  <2> QED
    BY <2>2, MapExcept, Zenon
<1>6. CASE m.operation = "PurgeMS"
  <2>1. b \in Map!decodePurgeMsReq(m, tlvs)
    BY <1>6, SMT DEF Map!decodeReq
  <2>2. PICK x, y : b = [m EXCEPT !.imsi = x, !.sgsnNumber = y]
    BY <2>1, Zenon DEF Map!decodePurgeMsReq
  <2> QED
    BY <2>2, MapExcept, Zenon
<1> QED
  BY <1>1, <1>2, <1>3, <1>4, <1>5, <1>6, Zenon DEF Operations

VectorTurn(m, x) == Map!decodeVector(m, x)

Vectors == INSTANCE Iteration WITH Body <- VectorTurn, Good <- MapIn

LEMMA VectorIn ==
  ASSUME NEW m, MapIn(m), NEW x, NEW b \in Map!decodeVector(m, x)
  PROVE  MapIn(b)
<1>1. CASE x.tag # Map!kBerSequence
  BY <1>1, Zenon DEF Map!decodeVector
<1>2. CASE x.tag = Map!kBerSequence
  <2>1. PICK q, y : \/ b = [m EXCEPT !.authQuintuplets = q]
                    \/ b = [m EXCEPT !.authTriplets = y]
                    \/ b = m
    BY <1>2, Zenon DEF Map!decodeVector, Map!Then
  <2>2. MapIn([m EXCEPT !.authQuintuplets = q]) /\ MapIn([m EXCEPT !.authTriplets = y])
    BY MapExcept, Zenon
  <2> QED
    BY <2>1, <2>2, Zenon
<1> QED
  BY <1>1, <1>2, Zenon

LEMMA ResIn ==
  ASSUME NEW m, MapIn(m), NEW tlvs, Len(tlvs) \in Nat,
         m.operation \in {"SendAuthenticationInfo", "UpdateGprsLocation", "PurgeMS"},
         NEW b \in Map!decodeRes(m, tlvs)
  PROVE  MapIn(b)
<1>1. CASE m.operation = "SendAuthenticationInfo"
  <2>1. b \in Map!Loop(tlvs, m, Map!decodeVector)
    BY <1>1, SMT DEF Map!decodeRes
  <2>2. b \in Vectors!Loop(tlvs, m, VectorTurn)
    BY <2>1, Zenon DEF Map!Loop, Map!Then, Vectors!Loop, Vectors!Then, VectorTurn
  <2>3. \A i \in 1 .. Len(tlvs) : \A a : MapIn(a) =>
          \A c \in VectorTurn(a, tlvs[i]) : MapIn(c)
    BY VectorIn, Zenon DEF VectorTurn
  <2>4. \A a \in Vectors!Loop(tlvs, m, VectorTurn) : MapIn(a)
    BY <2>3, Vectors!LoopKeeps, Zenon
  <2> QED
    BY <2>2, <2>4, Zenon
<1>2. CASE m.operation = "UpdateGprsLocation"
  <2>1. PICK x : b = [m EXCEPT !.hlrNumber = x]
    BY <1>2, SMT DEF Map!decodeRes
  <2> QED
    BY <2>1, MapExcept, Zenon
<1>3. CASE m.operation = "PurgeMS"
  <2>1. PICK x : b = [m EXCEPT !.freezePtmsi = x]
    BY <1>3, SMT DEF Map!decodeRes
  <2> QED
    BY <2>1, MapExcept, Zenon
<1> QED
  BY <1>1, <1>2, <1>3, Zenon

LEMMA SequenceIn ==
  ASSUME NEW m, MapIn(m), NEW args, args.value \in Seq(Octet),
         m.operation \in IF m.component = "Invoke" THEN Operations
                         ELSE {"SendAuthenticationInfo", "UpdateGprsLocation",
                               "PurgeMS"},
         NEW b \in Map!decodeSequence(m, args)
  PROVE  MapIn(b)
<1>1. CASE /\ m.component = "Invoke" /\ m.operation = "SendAuthenticationInfo"
           /\ args.tag # Map!kBerSequence
  BY <1>1, Zenon DEF Map!decodeSequence
<1>2. CASE ~(/\ m.component = "Invoke" /\ m.operation = "SendAuthenticationInfo"
             /\ args.tag # Map!kBerSequence)
  <2>1. PICK x \in Map!decodeElements(m, args.value) :
          b \in IF m.component = "Invoke" THEN Map!decodeReq(m, x)
                                          ELSE Map!decodeRes(m, x)
    BY <1>2, Zenon DEF Map!decodeSequence, Map!Then
  <2>2. m.component # "Invoke" \/ m.operation # "DeleteSubscriberData" =>
          x \in Seq(TlvSet)
    BY TlvsType, Zenon DEF Map!decodeElements
  <2>3. CASE m.component # "Invoke"
    <3>1. Len(x) \in Nat
      BY <2>2, <2>3, ValuesLength, Zenon
    <3> QED
      BY <2>1, <2>3, <3>1, ResIn, Zenon
  <2>4. CASE m.component = "Invoke"
    <3>1. m.operation = "CancelLocation" => m.operation # "DeleteSubscriberData"
      OBVIOUS
    <3>2. m.operation = "CancelLocation" =>
            Len(Map!ValuesOf(x, Map!kBerInt)) \in Nat
      BY <2>2, <3>1, ValuesLength, Zenon
    <3>3. m.operation \in Operations
      BY <2>4, Zenon
    <3> QED
      BY <2>1, <2>4, <3>2, <3>3, ReqIn, Zenon
  <2> QED
    BY <2>3, <2>4, Zenon
<1> QED
  BY <1>1, <1>2, Zenon

LEMMA ArgumentsIn ==
  ASSUME NEW m, MapIn(m), NEW octets \in Seq(Octet),
         NEW b \in Map!decodeArguments(m, octets)
  PROVE  MapIn(b)
<1>1. DOMAIN Map!OperationCode \ {"Unknown"} = Operations
  BY DEF Map!OperationCode, Operations
<1>2. PICK known : known = IF m.component = "Invoke" THEN Operations
                           ELSE {"SendAuthenticationInfo", "UpdateGprsLocation",
                                 "PurgeMS"}
  OBVIOUS
<1>3. CASE octets = <<>> \/ m.operation \notin known
  BY <1>1, <1>2, <1>3, Zenon DEF Map!decodeArguments
<1>4. CASE ~(octets = <<>> \/ m.operation \notin known)
  <2>1. PICK args \in Map!readTlv(octets) : b \in Map!decodeSequence(m, args)
    BY <1>1, <1>2, <1>4, Zenon DEF Map!decodeArguments, Map!Then
  <2>2. args.value \in Seq(Octet)
    BY BerTlv, Zenon DEF IsElement
  <2> QED
    BY <1>2, <1>4, <2>1, <2>2, SequenceIn, Zenon
<1> QED
  BY <1>3, <1>4, Zenon

LEMMA OperationIn ==
  ASSUME NEW m, MapIn(m), NEW op, op.rest \in Seq(Octet),
         NEW b \in Map!decodeOperation(m, op)
  PROVE  MapIn(b)
<1>1. PICK n : b \in Map!decodeArguments([m EXCEPT !.operation = Map!Operation(n)], op.rest)
  BY Zenon DEF Map!decodeOperation, Map!Then
<1> QED
  BY <1>1, ArgumentsIn, MapExcept, Zenon

LEMMA OutcomeIn ==
  ASSUME NEW m, MapIn(m), NEW x, IsElement(x),
         m.component \in {"Invoke", "ReturnResult", "ReturnError"},
         NEW b \in Map!decodeOutcome(m, x)
  PROVE  MapIn(b)
<1>1. CASE m.component = "Invoke"
  <2>1. b \in Map!decodeOperation(m, x)
    BY <1>1, SMT DEF Map!decodeOutcome
  <2> QED
    BY <2>1, OperationIn, Zenon DEF IsElement
<1>2. CASE m.component = "ReturnResult"
  <2>1. PICK op \in Map!readTlv(x.value) : b \in Map!decodeOperation(m, op)
    BY <1>2, SMT DEF Map!decodeOutcome, Map!Then
  <2>2. IsElement(op)
    BY BerTlv, Zenon DEF IsElement
  <2> QED
    BY <2>1, <2>2, OperationIn, Zenon DEF IsElement
<1>3. CASE m.component = "ReturnError"
  <2>1. PICK y : b = [m EXCEPT !.errorCode = y]
    BY <1>3, SMT DEF Map!decodeOutcome
  <2> QED
    BY <2>1, MapExcept, Zenon
<1> QED
  BY <1>1, <1>2, <1>3, Zenon

LEMMA ComponentIn ==
  ASSUME NEW m, MapIn(m), NEW c \in TlvSet, NEW b \in Map!decodeComponent(m, c)
  PROVE  MapIn(b)
<1>1. PICK v \in Seq(Octet) : v = c.value
  BY DEF TlvSet
<1>2. PICK comp : comp = CHOOSE k \in DOMAIN Map!CompTag : Map!CompTag[k] = c.tag
  OBVIOUS
<1>3. CASE \A k \in DOMAIN Map!CompTag : Map!CompTag[k] # c.tag
  BY <1>3, Zenon DEF Map!decodeComponent
<1>4. CASE ~\A k \in DOMAIN Map!CompTag : Map!CompTag[k] # c.tag
  <2>1. comp \in DOMAIN Map!CompTag
    BY <1>2, <1>4, Zenon
  <2>2. comp \in {"Invoke", "ReturnResult", "ReturnError"}
    BY <2>1 DEF Map!CompTag
  <2>3. PICK k : k = [m EXCEPT !.component = comp]
    OBVIOUS
  <2>4. PICK id \in Map!readTlv(v) : b \in Map!decodeInvokeId(k, id)
    BY <1>1, <1>2, <1>4, <2>3, Zenon DEF Map!decodeComponent, Map!Then
  <2>5. id.value \in Seq(Octet) /\ id.rest \in Seq(Octet)
    BY BerTlv, Zenon DEF IsElement
  <2>6. MapIn(k)
    BY <2>3, MapExcept, Zenon
  <2>7. k.component = comp
    BY <2>3 DEF MapIn
  <2>8. PICK n \in Map!decodeOctet(id.value) :
          b \in Map!Then(Map!readTlv(id.rest), LAMBDA x :
                  Map!decodeOutcome([k EXCEPT !.invokeId = n], x))
    BY <2>4, Zenon DEF Map!decodeInvokeId, Map!Then
  <2>9. PICK x \in Map!readTlv(id.rest) :
          b \in Map!decodeOutcome([k EXCEPT !.invokeId = n], x)
    BY <2>8, Zenon DEF Map!Then
  <2>10. n \in Octet /\ IsElement(x)
    BY <2>5, MapByte, BerTlv, Zenon
  <2>11. PICK l : l = [k EXCEPT !.invokeId = n]
    OBVIOUS
  <2>12. MapIn(l)
    BY <2>6, <2>10, <2>11, MapExcept, Zenon
  <2>13. l.component = comp
    BY <2>6, <2>7, <2>11 DEF MapIn
  <2> QED
    BY <2>2, <2>9, <2>10, <2>11, <2>12, <2>13, OutcomeIn, Zenon
<1> QED
  BY <1>3, <1>4

ComponentTurn(m, c) == Map!decodeComponent(m, c)

Components == INSTANCE Iteration WITH Body <- ComponentTurn, Good <- MapIn

LEMMA FieldIn ==
  ASSUME NEW m, MapIn(m), NEW x \in TlvSet, NEW b \in Map!decodeField(m, x)
  PROVE  MapIn(b)
<1>1. PICK v \in Seq(Octet) : v = x.value
  BY DEF TlvSet
<1>2. CASE x.tag \in {Map!kTcapTagOtid, Map!kTcapTagDtid}
  <2>1. PICK k : k = IF Len(v) > 4 THEN Len(v) - 4 ELSE 0
    OBVIOUS
  <2>2. k \in 0 .. Len(v)
    <3>1. Len(v) \in Nat
      BY LenProperties
    <3> QED
      BY <2>1, <3>1
  <2>3. Map!ValueBE(Map!Left(v, k)) \in Nat
    <3>1. Left(v, k) \in Seq(Octet)
      BY <2>2, TakenAndLeft
    <3> QED
      BY <3>1, ValueNat, MapOctets, Zenon
  <2>4. b = [m EXCEPT !.transactionId = Map!ValueBE(Map!Left(v, k))]
    BY <1>1, <1>2, <2>1, Zenon DEF Map!decodeField
  <2> QED
    BY <2>3, <2>4, MapExcept, Zenon
<1>3. CASE /\ x.tag \notin {Map!kTcapTagOtid, Map!kTcapTagDtid}
           /\ x.tag = Map!kTcapTagComponents
  <2>1. PICK cs \in Map!readTlvs(v) : b \in Map!Loop(cs, m, Map!decodeComponent)
    BY <1>1, <1>3, Zenon DEF Map!decodeField, Map!Then
  <2>2. cs \in Seq(TlvSet)
    BY <2>1, TlvsType
  <2>3. Len(cs) \in Nat /\ \A i \in 1 .. Len(cs) : cs[i] \in TlvSet
    BY <2>2, ValuesLength, Zenon
  <2>4. b \in Components!Loop(cs, m, ComponentTurn)
    BY <2>1, Zenon DEF Map!Loop, Map!Then, Components!Loop, Components!Then, ComponentTurn
  <2>5. \A i \in 1 .. Len(cs) : \A a : MapIn(a) =>
          \A c \in ComponentTurn(a, cs[i]) : MapIn(c)
    BY <2>3, ComponentIn, Zenon DEF ComponentTurn
  <2>6. \A a \in Components!Loop(cs, m, ComponentTurn) : MapIn(a)
    BY <2>3, <2>5, Components!LoopKeeps, Zenon
  <2> QED
    BY <2>4, <2>6, Zenon
<1>4. CASE /\ x.tag \notin {Map!kTcapTagOtid, Map!kTcapTagDtid}
           /\ x.tag # Map!kTcapTagComponents
  BY <1>4, Zenon DEF Map!decodeField
<1> QED
  BY <1>2, <1>3, <1>4, Zenon

FieldTurn(m, x) == Map!decodeField(m, x)

MapFields == INSTANCE Iteration WITH Body <- FieldTurn, Good <- MapIn

(* Whatever octets a peer sends, what MapCodec decodes is well-formed. *)
LEMMA MapDecoded ==
  ASSUME NEW s \in Seq(Octet), NEW m \in Map!decode(s)
  PROVE  MapIn(m)
<1>1. PICK pdu \in Map!readTlv(s) :
        m \in Map!Then(Map!readTlvs(pdu.value), LAMBDA fields :
                Map!Loop(fields, Map!MapMessage, Map!decodeField))
  BY Zenon DEF Map!decode, Map!Then
<1>2. pdu.value \in Seq(Octet)
  BY BerTlv, Zenon DEF IsElement
<1>3. PICK fields \in Map!readTlvs(pdu.value) :
        m \in Map!Loop(fields, Map!MapMessage, Map!decodeField)
  BY <1>1, Zenon DEF Map!Then
<1>4. fields \in Seq(TlvSet)
  BY <1>2, TlvsType
<1>5. Len(fields) \in Nat /\ \A i \in 1 .. Len(fields) : fields[i] \in TlvSet
  BY <1>4, ValuesLength, Zenon
<1>6. MapIn(Map!MapMessage)
  <2>1. 1 \in Octet
    BY DEF Octet
  <2> QED
    BY <2>1 DEF MapIn, Map!MapMessage
<1>7. m \in MapFields!Loop(fields, Map!MapMessage, FieldTurn)
  BY <1>3, Zenon DEF Map!Loop, Map!Then, MapFields!Loop, MapFields!Then, FieldTurn
<1>8. \A i \in 1 .. Len(fields) : \A a : MapIn(a) =>
        \A c \in FieldTurn(a, fields[i]) : MapIn(c)
  BY <1>5, FieldIn, Zenon DEF FieldTurn
<1>9. \A a \in MapFields!Loop(fields, Map!MapMessage, FieldTurn) : MapIn(a)
  BY <1>5, <1>6, <1>8, MapFields!LoopKeeps, Zenon
<1> QED
  BY <1>7, <1>9, Zenon

-----------------------------------------------------------------------------
(* What the handlers keep.                                                  *)

(* Received messages, all of them addressed as they should be.              *)
AllAddressed(q) == \E S : q \in Seq(S) /\ \A x \in S : Addressed(x)

LEMMA OneMoreAddressed ==
  ASSUME NEW q, AllAddressed(q), NEW x, Addressed(x)
  PROVE  AllAddressed(Append(q, x))
<1>1. PICK S : q \in Seq(S) /\ \A y \in S : Addressed(y)
  BY Zenon DEF AllAddressed
<1>2. PICK T : T = S \cup {x}
  OBVIOUS
<1>3. \A y \in T : Addressed(y)
  BY <1>1, <1>2, Zenon
<1>4. Append(q, x) \in Seq(T)
  <2>1. q \in Seq(T) /\ x \in T
    BY <1>1, <1>2
  <2> QED
    BY <2>1, AppendProperties
<1> QED
  BY <1>3, <1>4, Zenon DEF AllAddressed

(* hlrTx_ has identifiers that can be encoded in the results it is kept for.*)
Owed(table) ==
    \A k \in DOMAIN table : table[k].tid \in Nat /\ table[k].invokeId \in Octet

(* A state of the proxy that the handlers keep: what it sent is addressed,  *)
(* and what it remembers for later messages can be encoded.                 *)
Sound(st) ==
    /\ {"tid", "received", "transactions", "hlrTx"} \subseteq DOMAIN st
    /\ st.tid \in Nat /\ DOMAIN st.received = {"sgsn", "hlr"}
    /\ AllAddressed(st.received["hlr"]) /\ Owed(st.hlrTx)

LEMMA SoundExcept ==
  ASSUME NEW st, Sound(st), NEW x
  PROVE  /\ x \in Nat => Sound([st EXCEPT !.tid = x])
         /\ Sound([st EXCEPT !.transactions = x])
         /\ Owed(x) => Sound([st EXCEPT !.hlrTx = x])
         /\ Sound([st EXCEPT !.received["sgsn"] = Append(@, x)])
         /\ Addressed(x) => Sound([st EXCEPT !.received["hlr"] = Append(@, x)])
<1>1. x \in Nat => Sound([st EXCEPT !.tid = x])
  BY DEF Sound
<1>2. Sound([st EXCEPT !.transactions = x])
  BY DEF Sound
<1>3. Owed(x) => Sound([st EXCEPT !.hlrTx = x])
  BY DEF Sound
<1>4. \A y : Sound([st EXCEPT !.received["sgsn"] = y])
  BY DEF Sound
<1>5. \A y : AllAddressed(y) => Sound([st EXCEPT !.received["hlr"] = y])
  BY DEF Sound
<1>6. Addressed(x) => AllAddressed(Append(st.received["hlr"], x))
  BY OneMoreAddressed, Zenon DEF Sound
<1> QED
  BY <1>1, <1>2, <1>3, <1>4, <1>5, <1>6, Zenon

LEMMA DeliverSound ==
  ASSUME NEW st, Sound(st), NEW messages
  PROVE  /\ Sound(Deliver(st, "sgsn", messages))
         /\ (\A x \in messages : Addressed(x)) => Sound(Deliver(st, "hlr", messages))
<1>1. CASE messages = {}
  BY <1>1, Zenon DEF Deliver, Try
<1>2. CASE messages # {}
  <2>1. PICK x : x = CHOOSE r \in messages : TRUE
    OBVIOUS
  <2>2. x \in messages
    BY <1>2, <2>1, Zenon
  <2>3. Deliver(st, "sgsn", messages) = [st EXCEPT !.received["sgsn"] = Append(@, x)]
    BY <1>2, <2>1, Zenon DEF Deliver, Try
  <2>4. Deliver(st, "hlr", messages) = [st EXCEPT !.received["hlr"] = Append(@, x)]
    BY <1>2, <2>1, Zenon DEF Deliver, Try
  <2>5. Sound(Deliver(st, "sgsn", messages))
    <3>1. Sound([st EXCEPT !.received["sgsn"] = Append(@, x)])
      BY SoundExcept
    <3> QED
      BY <2>3, <3>1, Zenon
  <2>6. ASSUME \A y \in messages : Addressed(y)
        PROVE  Sound(Deliver(st, "hlr", messages))
    <3>1. Addressed(x)
      BY <2>2, <2>6, Zenon
    <3>2. Sound([st EXCEPT !.received["hlr"] = Append(@, x)])
      BY <3>1, SoundExcept
    <3> QED
      BY <2>4, <3>2, Zenon
  <2> QED
    BY <2>5, <2>6, Zenon
<1> QED
  BY <1>1, <1>2, Zenon

LEMMA ToHlrSound ==
  ASSUME Configured, NEW st, Sound(st), NEW payload, IsPayload(payload)
  PROVE  Sound(ToHlr(st, payload))
<1>1. payload \in Seq(Octet) /\ Len(payload) <= 256 * (256 * 256)
  BY Zenon DEF IsPayload
<1>2. PICK frames : frames = HlrReads(dataFrame(payload))
  OBVIOUS
<1>3. ASSUME NEW r \in frames PROVE Addressed(r)
  <2>1. /\ r.called = Sccp!makeGtAddress(HlrGt, hlrSsn)
        /\ r.calling = Sccp!makeGtAddress(LocalGt, localSsn)
    BY <1>1, <1>2, FrameAddressed
  <2> QED
    BY <2>1, Zenon DEF Addressed
<1>4. ToHlr(st, payload) = Deliver(st, "hlr", frames)
  BY <1>2, Zenon DEF ToHlr
<1> QED
  BY <1>3, <1>4, DeliverSound, Zenon

LEMMA ToSgsnSound ==
  ASSUME NEW st, Sound(st), NEW g
  PROVE  Sound(ToSgsn(st, g))
<1>1. PICK messages : messages = Then(Gsup!encode(g), LAMBDA payload :
                          SgsnReads(Ipa!encode(Ipa!kStreamGsup, payload)))
  OBVIOUS
<1>2. ToSgsn(st, g) = Deliver(st, "sgsn", messages)
  BY <1>1, Zenon DEF ToSgsn
<1> QED
  BY <1>2, DeliverSound, Zenon

LEMMA RequestSound ==
  ASSUME Configured, NEW st, Sound(st), NEW g, GsupIn(g)
  PROVE  Sound(handleGsupRequest(st, g))
<1> DEFINE tid == st.tid + 1
           id == 1 + (st.tid % 127)
           allocated == [st EXCEPT !.tid = tid]
           found == gsupToMap(g, tid, id)
           m == CHOOSE r \in found : TRUE
           pending == [allocated EXCEPT !.transactions =
                         Assign(@, tid, [imsi |-> g.imsi, operation |-> m.operation])]
           payloads == Map!encode(m)
           p == CHOOSE r \in payloads : TRUE
<1>1. handleGsupRequest(st, g) =
        IF found = {} THEN allocated
        ELSE IF payloads = {} THEN allocated ELSE ToHlr(pending, p)
  BY Zenon DEF handleGsupRequest, Try
<1>2. tid \in Nat /\ id \in Octet
  BY DEF Sound, Octet
<1> HIDE DEF tid, id
<1>3. Sound(allocated)
  BY <1>2, SoundExcept, Zenon
<1> HIDE DEF allocated
<1>4. Sound(pending)
  BY <1>3, SoundExcept, Zenon
<1>5. ASSUME found # {} PROVE MapOut(m)
  <2>1. m \in gsupToMap(g, tid, id)
    BY <1>5, Zenon
  <2> HIDE DEF m
  <2> QED
    BY <1>2, <2>1, RequestOut, Zenon
<1> HIDE DEF m, pending
<1>6. ASSUME found # {}, payloads # {} PROVE Sound(ToHlr(pending, p))
  <2>1. p \in Map!encode(m)
    BY <1>6, Zenon
  <2> HIDE DEF p
  <2>2. IsPayload(p)
    BY <1>5, <1>6, <2>1, MapEncoded, Zenon
  <2> QED
    BY <1>4, <2>2, ToHlrSound, Zenon
<1> HIDE DEF found, payloads, p
<1> QED
  BY <1>1, <1>3, <1>6, Zenon

LEMMA OwedLess ==
  ASSUME NEW table, Owed(table), NEW K
  PROVE  Owed(Without(table, K))
BY DEF Owed, Without, Restrict

LEMMA OwedMore ==
  ASSUME NEW table, Owed(table), NEW k, NEW tid \in Nat, NEW id \in Octet
  PROVE  Owed(Assign(table, k, [tid |-> tid, invokeId |-> id]))
BY DEF Owed, Assign

LEMMA ResponseSound ==
  ASSUME Configured, NEW st, Sound(st), NEW g, GsupIn(g)
  PROVE  Sound(handleGsupHlrResponse(st, g))
<1>1. CASE g.imsi \notin DOMAIN st.hlrTx
  BY <1>1, Zenon DEF handleGsupHlrResponse
<1>2. CASE g.imsi \in DOMAIN st.hlrTx
  <2> DEFINE entry == st.hlrTx[g.imsi]
             erased == [st EXCEPT !.hlrTx = Without(@, {g.imsi})]
             payloads == Then(gsupToMapResult(g, entry.tid, entry.invokeId), Map!encode)
             p == CHOOSE r \in payloads : TRUE
  <2>1. handleGsupHlrResponse(st, g) =
          IF payloads = {} THEN erased ELSE ToHlr(erased, p)
    BY <1>2, Zenon DEF handleGsupHlrResponse, Try
  <2>2. entry.tid \in Nat /\ entry.invokeId \in Octet
    BY <1>2, Zenon DEF Sound, Owed
  <2> HIDE DEF entry
  <2>3. Sound(erased)
    <3>1. Owed(Without(st.hlrTx, {g.imsi}))
      BY OwedLess, Zenon DEF Sound
    <3> QED
      BY <3>1, SoundExcept, Zenon
  <2> HIDE DEF erased
  <2>4. ASSUME payloads # {} PROVE Sound(ToHlr(erased, p))
    <3>1. p \in payloads
      BY <2>4, Zenon
    <3>2. PICK m \in gsupToMapResult(g, entry.tid, entry.invokeId) : p \in Map!encode(m)
      BY <3>1, Zenon DEF Then
    <3> HIDE DEF p
    <3>3. MapOut(m)
      BY <2>2, <3>2, ResultOut, Zenon
    <3>4. IsPayload(p)
      BY <3>2, <3>3, MapEncoded, Zenon
    <3> QED
      BY <2>3, <3>4, ToHlrSound, Zenon
  <2> HIDE DEF payloads, p
  <2> QED
    BY <2>1, <2>3, <2>4, Zenon
<1> QED
  BY <1>1, <1>2, Zenon

LEMMA GsupSound ==
  ASSUME Configured, NEW st, Sound(st), NEW g, GsupIn(g)
  PROVE  Sound(handleGsup(st, g))
BY RequestSound, ResponseSound, Zenon DEF handleGsup

LEMMA MapSound ==
  ASSUME NEW st, Sound(st), NEW m, MapIn(m)
  PROVE  Sound(handleMap(st, m))
<1>1. PICK tid \in Nat : tid = m.transactionId
  BY Zenon DEF MapIn
<1>2. PICK id \in Octet : id = m.invokeId
  BY Zenon DEF MapIn
<1>3. ASSUME NEW g PROVE Sound(handleHlrInitiated(st, m, g))
  <2>1. Owed(Without(st.hlrTx, {g.imsi}))
    BY OwedLess, Zenon DEF Sound
  <2>2. Owed(Assign(st.hlrTx, g.imsi, [tid |-> tid, invokeId |-> id]))
    BY OwedMore, Zenon DEF Sound
  <2>3. PICK erased : erased = [st EXCEPT !.hlrTx = Without(@, {g.imsi})]
    OBVIOUS
  <2>4. PICK kept : kept = [st EXCEPT !.hlrTx = Assign(@, g.imsi,
                              [tid |-> tid, invokeId |-> id])]
    OBVIOUS
  <2>5. Sound(erased) /\ Sound(kept)
    BY <2>1, <2>2, <2>3, <2>4, SoundExcept, Zenon
  <2>6. \/ handleHlrInitiated(st, m, g) = erased
        \/ handleHlrInitiated(st, m, g) = ToSgsn(kept, g)
    BY <1>1, <1>2, <2>3, <2>4, Zenon DEF handleHlrInitiated
  <2> QED
    BY <2>5, <2>6, ToSgsnSound, Zenon
<1>4. CASE m.component = "Invoke"
  <2>1. \/ handleMap(st, m) = st
        \/ \E g : handleMap(st, m) = handleHlrInitiated(st, m, g)
    BY <1>4, Zenon DEF handleMap, Try
  <2> QED
    BY <1>3, <2>1, Zenon
<1>5. CASE m.component # "Invoke"
  <2>1. PICK completed : completed = [st EXCEPT !.transactions = Without(@, {tid})]
    OBVIOUS
  <2>2. Sound(completed)
    BY <2>1, SoundExcept, Zenon
  <2>3. \/ handleMap(st, m) = st \/ handleMap(st, m) = completed
        \/ \E g : handleMap(st, m) = ToSgsn(completed, g)
    BY <1>1, <1>5, <2>1, Zenon DEF handleMap, Try
  <2> QED
    BY <2>2, <2>3, ToSgsnSound, Zenon
<1> QED
  BY <1>4, <1>5, Zenon

LEMMA IpaRead ==
  ASSUME NEW buf \in Seq(Octet), NEW r \in Ipa!next(buf)
  PROVE  /\ r.buf \in Seq(Octet)
         /\ r.msg = <<>> \/ r.msg[1].payload \in Seq(Octet)
<1>1. r.buf \in Seq(Octet)
  BY IpaProgress
<1>2. PICK w : w = ValueBE(Taken(buf, 2))
  OBVIOUS
<1>3. CASE \/ Len(buf) < Ipa!kHeaderSize
           \/ /\ ~(Len(buf) < Ipa!kHeaderSize) /\ w \in 1 .. Ipa!kMaxIpaWireLen
              /\ Len(buf) < Ipa!kHeaderSize + w - 1
  <2>1. r = [buf |-> buf, msg |-> <<>>]
    BY <1>2, <1>3, IpaNextBranches, Zenon
  <2>2. r.msg = <<>>
    BY <2>1
  <2> QED
    BY <1>1, <2>2, Zenon
<1>4. CASE ~(Len(buf) < Ipa!kHeaderSize) /\ w \notin 1 .. Ipa!kMaxIpaWireLen
  BY <1>2, <1>4, IpaNextBranches, Zenon
<1>5. CASE /\ ~(Len(buf) < Ipa!kHeaderSize) /\ w \in 1 .. Ipa!kMaxIpaWireLen
           /\ ~(Len(buf) < Ipa!kHeaderSize + w - 1)
  <2>1. PICK p : p = SubSeq(buf, Ipa!kHeaderSize + 1, Ipa!kHeaderSize + w - 1)
    OBVIOUS
  <2>2. PICK rest : rest = Left(buf, Ipa!kHeaderSize + w - 1)
    OBVIOUS
  <2>3. r = [buf |-> rest, msg |-> <<[streamId |-> buf[3], payload |-> p]>>]
    BY <1>2, <1>5, <2>1, <2>2, IpaNextBranches, Zenon
  <2>4. r.msg[1].payload = p
    BY <2>3
  <2>5. p \in Seq(Octet)
    <3>1. /\ Len(buf) \in Nat /\ Ipa!kHeaderSize = 3 /\ Ipa!kMaxIpaWireLen = 4096
      BY LenProperties DEF Ipa!kHeaderSize, Ipa!kMaxIpaWireLen
    <3>2. /\ Ipa!kHeaderSize + 1 \in Nat \ {0} /\ Ipa!kHeaderSize + w - 1 \in Int
          /\ Ipa!kHeaderSize + w - 1 <= Len(buf)
      BY <1>5, <3>1
    <3> QED
      BY <2>1, <3>2, Slice, Zenon
  <2> QED
    BY <1>1, <2>4, <2>5, Zenon
<1> QED
  BY <1>3, <1>4, <1>5, Zenon

LEMMA FrameSound ==
  ASSUME Configured, NEW st, Sound(st), NEW frame, frame.payload \in Seq(Octet)
  PROVE  Sound(processFrame(st, frame))
<1> DEFINE found == Gsup!decode(frame.payload)
           g == CHOOSE r \in found : TRUE
           echo == {[kind |-> "echo", data |-> <<Ipa!kCcmPong>>]}
<1>1. \/ processFrame(st, frame) = IF found = {} THEN st ELSE handleGsup(st, g)
      \/ processFrame(st, frame) = Deliver(st, "sgsn", echo)
      \/ processFrame(st, frame) = st
  BY Zenon DEF processFrame, Try
<1>2. ASSUME found # {} PROVE Sound(handleGsup(st, g))
  <2>1. g \in Gsup!decode(frame.payload)
    BY <1>2, Zenon
  <2> HIDE DEF g
  <2>2. GsupIn(g)
    BY <2>1, GsupDecoded, Zenon
  <2> QED
    BY <2>2, GsupSound, Zenon
<1> HIDE DEF found, g, echo
<1>3. Sound(Deliver(st, "sgsn", echo))
  BY DeliverSound, Zenon
<1> QED
  BY <1>1, <1>2, <1>3, Zenon

LEMMA MessageSound ==
  ASSUME Configured, NEW st, Sound(st), NEW msg, DataRead(msg)
  PROVE  Sound(processMessage(st, msg))
<1> DEFINE raw == msg.protocolData[1].userData
           found == Then(Sccp!decodeUdt(raw), LAMBDA udt : Map!decode(udt.data))
           m == CHOOSE r \in found : TRUE
           echo == {[kind |-> "echo", data |-> r.msg[1].heartbeatData] :
                      r \in M3ua!next(M3ua!encode(
                                        M3ua!makeHeartbeatAck(msg.heartbeatData)))}
<1>1. \/ processMessage(st, msg) = Deliver(st, "hlr", echo)
      \/ /\ msg.protocolData # <<>>
         /\ processMessage(st, msg) = IF found = {} THEN st ELSE handleMap(st, m)
      \/ processMessage(st, msg) = st
  BY Zenon DEF processMessage, Try
<1>2. ASSUME msg.protocolData # <<>>, found # {} PROVE Sound(handleMap(st, m))
  <2>1. m \in found
    BY <1>2, Zenon
  <2>2. PICK udt \in Sccp!decodeUdt(raw) : m \in Map!decode(udt.data)
    BY <2>1, Zenon DEF Then
  <2>3. raw \in Seq(Octet)
    BY <1>2, Zenon DEF DataRead
  <2> HIDE DEF m, raw
  <2>4. udt.data \in Seq(Octet)
    BY <2>2, <2>3, UdtData, Zenon
  <2>5. MapIn(m)
    BY <2>2, <2>4, MapDecoded, Zenon
  <2> QED
    BY <2>5, MapSound, Zenon
<1>3. Sound(Deliver(st, "hlr", echo))
  <2>1. ASSUME NEW x \in echo PROVE Addressed(x)
    <3>1. PICK d : x = [kind |-> "echo", data |-> d]
      BY <2>1, Zenon
    <3>2. x.kind = "echo"
      BY <3>1
    <3>3. x.kind # "map"
      BY <3>2
    <3> QED
      BY <3>3, Zenon DEF Addressed
  <2> HIDE DEF echo
  <2> QED
    BY <2>1, DeliverSound, Zenon
<1> HIDE DEF found, m, echo, raw
<1> QED
  BY <1>1, <1>2, <1>3, Zenon

(* The loop over what the decoder returns.                                  *)
DrainGood(a) == Sound(a.st) /\ a.buf \in Seq(Octet)

SgsnTurn(a, i) == drainNext("sgsn", a)

HlrTurn(a, i) == drainNext("hlr", a)

SgsnDrain == INSTANCE Iteration WITH Body <- SgsnTurn, Good <- DrainGood

HlrDrain == INSTANCE Iteration WITH Body <- HlrTurn, Good <- DrainGood

LEMMA TurnSound ==
  ASSUME Configured, NEW side \in {"sgsn", "hlr"}, NEW a, DrainGood(a),
         NEW b \in drainNext(side, a)
  PROVE  DrainGood(b)
<1>1. CASE ~a.more
  BY <1>1, Zenon DEF drainNext
<1>2. CASE a.more
  <2>1. PICK st, buf : st = a.st /\ buf = a.buf /\ Sound(st) /\ buf \in Seq(Octet)
    BY Zenon DEF DrainGood
  <2>2. PICK r \in next(side, buf) :
          b = [st |-> IF r.msg = <<>> THEN st ELSE process(side, st, r.msg[1]),
               buf |-> r.buf, more |-> r.msg # <<>>]
    BY <1>2, <2>1, Zenon DEF drainNext
  <2>3. /\ b.st = (IF r.msg = <<>> THEN st ELSE process(side, st, r.msg[1]))
        /\ b.buf = r.buf
    BY <2>2
  <2>4. r.buf \in Seq(Octet) /\ (r.msg = <<>> \/ Sound(process(side, st, r.msg[1])))
    <3>1. CASE side = "sgsn"
      <4>1. r \in Ipa!next(buf) /\ \A x : process(side, st, x) = processFrame(st, x)
        BY <3>1, Zenon DEF next, process
      <4>2. r.buf \in Seq(Octet) /\ (r.msg = <<>> \/ r.msg[1].payload \in Seq(Octet))
        BY <2>1, <4>1, IpaRead, Zenon
      <4> QED
        BY <2>1, <4>1, <4>2, FrameSound, Zenon
    <3>2. CASE side = "hlr"
      <4>0. side # "sgsn"
        BY <3>2
      <4>1. r \in M3ua!next(buf) /\ \A x : process(side, st, x) = processMessage(st, x)
        BY <4>0, Zenon DEF next, process
      <4>2. r.buf \in Seq(Octet) /\ (r.msg = <<>> \/ DataRead(r.msg[1]))
        BY <2>1, <4>1, M3uaRead, Zenon
      <4> QED
        BY <2>1, <4>1, <4>2, MessageSound, Zenon
    <3> QED
      BY <3>1, <3>2, Zenon
  <2> QED
    BY <2>1, <2>3, <2>4, Zenon DEF DrainGood
<1> QED
  BY <1>1, <1>2, Zenon

(* A read handler's whole loop, from any soundly addressed state. *)
LEMMA DrainSound ==
  ASSUME Configured, NEW side \in {"sgsn", "hlr"}, NEW st, Sound(st),
         NEW buf \in Seq(Octet), NEW d \in drain(side, st, buf)
  PROVE  DrainGood(d)
<1>1. PICK n \in Nat : n = Len(buf) \div 3 + 1
  <2>1. Len(buf) \in Nat
    BY LenProperties
  <2> QED
    BY <2>1
<1>2. PICK t : t = [i \in 1 .. n |-> i] /\ Len(t) \in Nat
  <2>1. PICK t : t = [i \in 1 .. n |-> i]
    OBVIOUS
  <2> QED
    BY <2>1, TurnCount, Zenon
<1>3. PICK start : start = [st |-> st, buf |-> buf, more |-> TRUE]
  OBVIOUS
<1>4. DrainGood(start)
  <2>1. start.st = st /\ start.buf = buf
    BY <1>3
  <2> QED
    BY <2>1, Zenon DEF DrainGood
<1>5. CASE side = "sgsn"
  <2>1. \A i \in 1 .. Len(t) : \A a : DrainGood(a) =>
          \A b \in SgsnTurn(a, t[i]) : DrainGood(b)
    BY TurnSound, Zenon DEF SgsnTurn
  <2>2. \A a \in SgsnDrain!Loop(t, start, SgsnTurn) : DrainGood(a)
    BY <1>2, <1>4, <2>1, SgsnDrain!LoopKeeps, Zenon
  <2>3. drain("sgsn", st, buf) = SgsnDrain!Loop(t, start, SgsnTurn)
    BY <1>1, <1>2, <1>3, Zenon DEF drain, While, Loop, Then,
         SgsnDrain!Loop, SgsnDrain!Then, SgsnTurn
  <2> QED
    BY <1>5, <2>2, <2>3, Zenon
<1>6. CASE side = "hlr"
  <2>1. \A i \in 1 .. Len(t) : \A a : DrainGood(a) =>
          \A b \in HlrTurn(a, t[i]) : DrainGood(b)
    BY TurnSound, Zenon DEF HlrTurn
  <2>2. \A a \in HlrDrain!Loop(t, start, HlrTurn) : DrainGood(a)
    BY <1>2, <1>4, <2>1, HlrDrain!LoopKeeps, Zenon
  <2>3. drain("hlr", st, buf) = HlrDrain!Loop(t, start, HlrTurn)
    BY <1>1, <1>2, <1>3, Zenon DEF drain, While, Loop, Then,
         HlrDrain!Loop, HlrDrain!Then, HlrTurn
  <2> QED
    BY <1>6, <2>2, <2>3, Zenon
<1> QED
  BY <1>5, <1>6, Zenon

-----------------------------------------------------------------------------

State == [tid |-> proxy.tid, received |-> received,
          transactions |-> proxy.transactions, hlrTx |-> proxy.hlrTx]

(* The inductive invariant: streams and buffers are octets, and the tables  *)
(* and the messages received are sound.                                     *)
WireInv ==
    /\ wire \in [{"sgsn", "hlr"} -> Seq(Octet)]
    /\ buf_ \in [{"sgsn", "hlr"} -> Seq(Octet)]
    /\ Sound(State)

LEMMA WireInit ==
  ASSUME Init
  PROVE  WireInv
<1>1. <<>> \in Seq(Octet)
  OBVIOUS
<1>2. /\ wire \in [{"sgsn", "hlr"} -> Seq(Octet)]
      /\ buf_ \in [{"sgsn", "hlr"} -> Seq(Octet)]
  BY <1>1 DEF Init, Side
<1>3. State.tid = 0 /\ State.received = received /\ State.hlrTx = EmptyMap
      /\ DOMAIN State = {"tid", "received", "transactions", "hlrTx"}
  BY DEF Init, State
<1>4. DOMAIN received = {"sgsn", "hlr"} /\ received["hlr"] = <<>>
  BY DEF Init, Side
<1>5. AllAddressed(<<>>)
  <2>1. PICK S : S = {}
    OBVIOUS
  <2>2. <<>> \in Seq(S) /\ \A x \in S : Addressed(x)
    BY <2>1
  <2>3. PICK q : q = <<>>
    OBVIOUS
  <2>4. AllAddressed(q)
    BY <2>2, <2>3, Zenon DEF AllAddressed
  <2> QED
    BY <2>3, <2>4, Zenon
<1>6. Owed(EmptyMap)
  BY DEF Owed, EmptyMap
<1>7. Sound(State)
  <2>1. 0 \in Nat
    OBVIOUS
  <2> QED
    BY <1>3, <1>4, <1>5, <1>6, <2>1, Zenon DEF Sound
<1> QED
  BY <1>2, <1>7, Zenon DEF WireInv

LEMMA SendKeeps ==
  ASSUME WireInv, NEW side \in {"sgsn", "hlr"}, NEW octets, NEW says, NEW echo, NEW re,
         Send(side, octets, says, echo, re)
  PROVE  WireInv'
<1>1. /\ octets \in Seq(Octet) /\ wire' = [wire EXCEPT ![side] = @ \o octets]
      /\ buf_' = buf_ /\ proxy' = proxy /\ received' = received
  BY DEF Send
<1>2. wire' \in [{"sgsn", "hlr"} -> Seq(Octet)]
  <2>1. wire \in [{"sgsn", "hlr"} -> Seq(Octet)]
    BY Zenon DEF WireInv
  <2>2. wire[side] \o octets \in Seq(Octet)
    BY <1>1, <2>1, Together, Zenon
  <2> QED
    BY <1>1, <2>1, <2>2
<1>3. State' = State
  BY <1>1, Zenon DEF State
<1> QED
  BY <1>1, <1>2, <1>3, Zenon DEF WireInv

LEMMA ReadKeeps ==
  ASSUME Configured, WireInv, NEW side \in {"sgsn", "hlr"}, NEW n \in Nat \ {0},
         Read(side, n)
  PROVE  WireInv'
<1>1. PICK w \in Seq(Octet) : w = wire[side]
  BY Zenon DEF WireInv
<1>2. PICK b \in Seq(Octet) : b = buf_[side]
  BY Zenon DEF WireInv
<1>3. PICK size : size = IF n < Len(w) THEN n ELSE Len(w)
  OBVIOUS
<1>4. size \in 0 .. Len(w)
  <2>1. Len(w) \in Nat
    BY LenProperties
  <2> QED
    BY <1>3, <2>1
<1>5. Taken(w, size) \in Seq(Octet) /\ Left(w, size) \in Seq(Octet)
  BY <1>4, TakenAndLeft
<1>6. PICK t \in Seq(Octet) : t = b \o Taken(w, size)
  BY <1>5, Together, Zenon
<1>7. PICK d \in drain(side, State, t) :
             /\ proxy' = [tid |-> d.st.tid, hlrTx |-> d.st.hlrTx,
                          transactions |-> d.st.transactions]
             /\ received' = d.st.received
             /\ buf_' = [buf_ EXCEPT ![side] = d.buf]
  BY <1>1, <1>2, <1>3, <1>6, Zenon DEF Read, State
<1>8. wire' = [wire EXCEPT ![side] = Left(w, size)]
  BY <1>1, <1>3, Zenon DEF Read
<1>9. Sound(d.st) /\ d.buf \in Seq(Octet)
  BY <1>7, DrainSound, Zenon DEF WireInv, DrainGood
<1>10. /\ wire' \in [{"sgsn", "hlr"} -> Seq(Octet)]
       /\ buf_' \in [{"sgsn", "hlr"} -> Seq(Octet)]
  BY <1>5, <1>7, <1>8, <1>9 DEF WireInv
<1>11. Sound(State')
  <2>1. PICK st : st = d.st /\ Sound(st)
    BY <1>9, Zenon
  <2>2. State' = [tid |-> st.tid, received |-> st.received,
                  transactions |-> st.transactions, hlrTx |-> st.hlrTx]
    BY <1>7, <2>1 DEF State
  <2> QED
    BY <2>1, <2>2 DEF Sound
<1> QED
  BY <1>10, <1>11, Zenon DEF WireInv

LEMMA SgsnSendsKeeps ==
  ASSUME WireInv, NEW g, NEW re, SgsnSends(g, re)
  PROVE  WireInv'
<1>1. PICK octets, says, echo : Send("sgsn", octets, says, echo, re)
  BY Zenon DEF SgsnSends
<1> QED
  BY <1>1, SendKeeps, Zenon

LEMMA HlrSendsKeeps ==
  ASSUME WireInv, NEW m, NEW understood, NEW re, HlrSends(m, understood, re)
  PROVE  WireInv'
<1>1. PICK octets, says, echo : Send("hlr", octets, says, echo, re)
  BY Zenon DEF HlrSends
<1> QED
  BY <1>1, SendKeeps, Zenon

(* WireInv is inductive. *)
LEMMA WireNext ==
  ASSUME Configured, WireInv, [Next]_vars
  PROVE  WireInv'
<1>1. ASSUME NEW side \in Side, NEW n \in Cuts[side], Read(side, n) PROVE WireInv'
  <2>1. side \in {"sgsn", "hlr"} /\ n \in Nat \ {0}
    BY CutsAssumption DEF Side
  <2> QED
    BY <1>1, <2>1, ReadKeeps, Zenon
<1>2. ASSUME SgsnStarts PROVE WireInv'
  <2>1. PICK g : SgsnSends(g, 0)
    BY <1>2, Zenon DEF SgsnStarts
  <2> QED
    BY <2>1, SgsnSendsKeeps, Zenon
<1>3. ASSUME SgsnAnswersRequest PROVE WireInv'
  <2>1. PICK g, k : SgsnSends(g, k)
    BY <1>3, Zenon DEF SgsnAnswersRequest
  <2> QED
    BY <2>1, SgsnSendsKeeps, Zenon
<1>4. ASSUME SgsnPings PROVE WireInv'
  BY <1>4, SendKeeps, Zenon DEF SgsnPings
<1>5. ASSUME HlrStarts PROVE WireInv'
  <2>1. PICK m : HlrSends(m, m, 0)
    BY <1>5, Zenon DEF HlrStarts
  <2> QED
    BY <2>1, HlrSendsKeeps, Zenon
<1>6. ASSUME HlrAnswersInvoke PROVE WireInv'
  <2>1. PICK m, u, k : HlrSends(m, u, k)
    BY <1>6, Zenon DEF HlrAnswersInvoke
  <2> QED
    BY <2>1, HlrSendsKeeps, Zenon
<1>7. ASSUME GatewayBeats PROVE WireInv'
  <2>1. PICK octets, data : Send("hlr", octets, <<>>, <<data>>, 0)
    BY <1>7, Zenon DEF GatewayBeats
  <2> QED
    BY <2>1, SendKeeps, Zenon
<1>8. ASSUME UNCHANGED vars PROVE WireInv'
  <2>1. wire' = wire /\ buf_' = buf_ /\ proxy' = proxy /\ received' = received
    BY <1>8 DEF vars
  <2>2. State' = State
    BY <2>1, Zenon DEF State
  <2> QED
    BY <2>1, <2>2, Zenon DEF WireInv
<1> QED
  BY <1>1, <1>2, <1>3, <1>4, <1>5, <1>6, <1>7, <1>8, Zenon DEF Next, Quiet

(* A title of digits is its own E.164 number.                               *)
LEMMA DigitsOnly ==
  ASSUME NEW gt \in Seq(Digits)
  PROVE  E164(gt) = gt
<1>1. PICK n \in Nat : n = Len(gt) /\ DOMAIN gt = 1 .. n /\ \A i \in 1 .. n : gt[i] \in Digits
  BY LenProperties, ElementOfSeq
<1>2. \A i \in 1 .. n : gt[i] \in 0 .. 9
  BY <1>1 DEF Digits
<1>3. PICK s : s = [i \in DOMAIN gt |-> IF gt[i] \in 0 .. 9 THEN <<gt[i]>> ELSE <<>>]
  OBVIOUS
<1>4. s = [i \in 1 .. Len(gt) |-> <<gt[i]>>]
  BY <1>1, <1>2, <1>3
<1>5. FlattenSeq(s) = gt
  BY <1>4, FlattenSingles, Zenon
<1> QED
  BY <1>3, <1>5, Zenon DEF E164, Each

LEMMA WireSafe ==
  ASSUME Configured, WireInv
  PROVE  HlrAddressed
<1>1. PICK q : q = received.hlr /\ AllAddressed(q)
  <2>1. State.received = received
    BY DEF State
  <2>2. AllAddressed(received["hlr"])
    BY <2>1, Zenon DEF WireInv, Sound
  <2> QED
    BY <2>2
<1>2. PICK S : q \in Seq(S) /\ \A x \in S : Addressed(x)
  BY <1>1, Zenon DEF AllAddressed
<1>3. \A k \in DOMAIN q : Addressed(q[k])
  <2>1. \A k \in DOMAIN q : q[k] \in S
    BY <1>2
  <2> QED
    BY <1>2, <2>1, Zenon
<1>4. E164(HlrGt) = HlrGt /\ E164(LocalGt) = LocalGt
  BY DigitsOnly, Zenon DEF Configured
<1> QED
  BY <1>1, <1>3, <1>4, Zenon DEF HlrAddressed, Addressed

(* MapTransport::send behind handleGsupPayload.  However the streams are    *)
(* cut and whatever messages the peers send, every message the HLR's        *)
(* gateway reads is addressed to the configured global title and names the  *)
(* proxy's own, digit for digit: for all titles that have digits only and   *)
(* fit in a UDT.  (With a '+' it fails: see the run globaltitle.)           *)
THEOREM WireAddressed ==
  ASSUME Configured
  PROVE  Spec => []HlrAddressed
<1>1. Init => WireInv
  BY WireInit
<1>2. WireInv /\ [Next]_vars => WireInv'
  BY WireNext
<1>3. WireInv => HlrAddressed
  BY WireSafe
<1> QED
  BY <1>1, <1>2, <1>3, PTL DEF Spec

-----------------------------------------------------------------------------
(* BER elements, there and back.                                            *)

(* s is the octet c and then t. *)
Begins(s, c, t) ==
    /\ s \in Seq(Octet) /\ s = <<c>> \o t /\ s # <<>> /\ s[1] = c
    /\ Tail(s) = t /\ Len(s) = 1 + Len(t) /\ Len(t) \in Nat

(* An octet in front of octets: what is read first, and what is left. *)
LEMMA Beginning ==
  ASSUME NEW c \in Octet, NEW t \in Seq(Octet)
  PROVE  \E s : Begins(s, c, t)
<1>1. PICK s : s = <<c>> \o t
  OBVIOUS
<1>2. PICK p \in Seq(Octet) : p = <<c>> /\ Len(p) = 1
  BY OneOctet, ZenonT(60)
<1>3. /\ s \in Seq(Octet) /\ Len(s) = 1 + Len(t) /\ Len(t) \in Nat
      /\ s[1] = c /\ \A i \in 1 .. Len(t) : s[1 + i] = t[i]
  <2>1. p[1] = c
    BY <1>2
  <2> QED
    BY <1>1, <1>2, <2>1, ConcatProperties, LenProperties
<1>4. s # <<>>
  BY <1>3
<1>5. /\ Tail(s) \in Seq(Octet) /\ Len(Tail(s)) = Len(t)
      /\ \A i \in 1 .. Len(t) : Tail(s)[i] = s[i + 1]
  BY <1>3, <1>4, HeadTailProperties
<1>6. \A i \in 1 .. Len(t) : Tail(s)[i] = t[i]
  BY <1>3, <1>5
<1>7. Tail(s) = t
  BY <1>5, <1>6, SeqEqual
<1> QED
  BY <1>1, <1>3, <1>4, <1>7 DEF Begins

(* Octets written one after another are the same however they are grouped. *)
LEMMA JoinsAssociate ==
  ASSUME NEW p \in Seq(Octet), NEW q \in Seq(Octet), NEW r \in Seq(Octet)
  PROVE  (p \o q) \o r = p \o (q \o r)
BY ConcatAssociative, SMTT(30)

(* The big-endian value of one octet is that octet. *)
LEMMA ValueOne ==
  ASSUME NEW n \in Octet, NEW s, s = <<n>>
  PROVE  ValueBE(s) = n
<1> DEFINE Sum(f) == [i \in 0 .. Len(s) |->
                        IF i = 0 THEN 0 ELSE f[i - 1] * 256 + s[i]]
           g == [i \in 0 .. Len(s) |-> IF i = 0 THEN 0 ELSE n]
           value == CHOOSE f : f = Sum(f)
<1>1. Len(s) = 1 /\ s[1] = n
  OBVIOUS
<1>2. g = Sum(g)
  BY <1>1 DEF Octet
<1> HIDE DEF g
<1>3. value = Sum(value)
  BY <1>2
<1>4. ValueBE(s) = value[Len(s)]
  BY ZenonT(60) DEF ValueBE
<1> HIDE DEF value
<1>5. value[0] = 0 /\ value[1] = value[0] * 256 + s[1]
  BY <1>1, <1>3
<1> QED
  BY <1>1, <1>4, <1>5 DEF Octet

(* The long form of a length.                                               *)
LEMMA LongLength ==
  ASSUME NEW c \in Octet, c > 127, NEW w \in Seq(Octet), Len(w) = c % 128,
         Len(w) \in 1 .. 4, NEW t \in Seq(Octet)
  PROVE  Map!readLength(<<c>> \o (w \o t)) = {[len |-> ValueBE(w), rest |-> t]}
<1>1. PICK q \in Seq(Octet) :
        /\ q = w \o t /\ Len(q) = Len(w) + Len(t) /\ Len(t) \in Nat
        /\ Taken(q, Len(w)) = w /\ Left(q, Len(w)) = t
  BY FrameAndRest, ZenonT(60)
<1>2. PICK s : Begins(s, c, q)
  BY Beginning, ZenonT(60)
<1>3. /\ s # <<>> /\ s[1] = c /\ Tail(s) = q
      /\ s = <<c>> \o (w \o t) /\ Len(s) = 1 + Len(q) /\ Len(q) \in Nat
  BY <1>1, <1>2, ZenonT(60) DEF Begins
<1>4. /\ ~(s[1] <= 127) /\ s[1] % 128 = Len(w)
      /\ s[1] % 128 \in 1 .. 4 /\ s[1] % 128 < Len(s)
  BY <1>1, <1>3 DEF Octet
<1>5. Map!readLength(s) = {[len  |-> Map!ValueBE(Map!Taken(Tail(s), s[1] % 128)),
                            rest |-> Map!Left(Tail(s), s[1] % 128)]}
  BY <1>3, <1>4, ZenonT(60) DEF Map!readLength
<1>6. Map!readLength(s) = {[len |-> ValueBE(w), rest |-> t]}
  BY <1>1, <1>3, <1>4, <1>5, MapOctets, ZenonT(60)
<1> QED
  BY <1>3, <1>6, ZenonT(60)

(* readLength reads what writeLength wrote, on both sides of 127 and 255.   *)
LEMMA LengthRead ==
  ASSUME NEW n \in Nat, n < 256 * 256, NEW t \in Seq(Octet)
  PROVE  /\ Map!writeLength(n) \in Seq(Octet)
         /\ Map!readLength(Map!writeLength(n) \o t) = {[len |-> n, rest |-> t]}
<1>0. n <= 127 \/ (~(n <= 127) /\ n <= 255) \/ (~(n <= 127) /\ ~(n <= 255))
  OBVIOUS
<1>1. Map!writeLength(n) \in Seq(Octet)
  BY MapLength, ZenonT(60)
<1>2. CASE n <= 127
  <2>1. n \in Octet
    BY <1>2 DEF Octet
  <2>2. Map!writeLength(n) = <<n>>
    BY <1>2 DEF Map!writeLength
  <2>3. PICK s : Begins(s, n, t)
    BY <2>1, Beginning, ZenonT(60)
  <2>4. s # <<>> /\ s[1] = n /\ Tail(s) = t /\ s = <<n>> \o t
    BY <2>3, ZenonT(60) DEF Begins
  <2>5. s[1] <= 127
    BY <1>2, <2>4, ZenonT(60)
  <2>6. Map!readLength(s) = {[len |-> n, rest |-> t]}
    BY <2>4, <2>5 DEF Map!readLength
  <2> QED
    BY <1>1, <2>2, <2>4, <2>6, ZenonT(60)
<1>3. CASE ~(n <= 127) /\ n <= 255
  <2>1. n \in Octet /\ 129 \in Octet /\ 129 > 127 /\ 129 % 128 = 1 /\ 1 \in 1 .. 4
    BY <1>3 DEF Octet
  <2>2. Map!writeLength(n) = <<129, n>>
    BY <1>3 DEF Map!writeLength
  <2>3. PICK w \in Seq(Octet) : w = <<n>> /\ Len(w) = 1
    BY <2>1, OneOctet, ZenonT(60)
  <2>4. PICK c \in Seq(Octet) : c = <<129>>
    BY <2>1, OneOctet, ZenonT(60)
  <2>5. ValueBE(w) = n
    BY <2>1, <2>3, ValueOne, ZenonT(60)
  <2>6. Len(w) = 129 % 128 /\ Len(w) \in 1 .. 4
    BY <2>1, <2>3, ZenonT(60)
  <2>7. Map!readLength(<<129>> \o (w \o t)) = {[len |-> ValueBE(w), rest |-> t]}
    BY <2>1, <2>6, LongLength, ZenonT(60)
  <2>8. <<129, n>> = <<129>> \o <<n>>
    BY <2>1
  <2>9. (c \o w) \o t = c \o (w \o t)
    BY JoinsAssociate, ZenonT(60)
  <2> QED
    BY <1>1, <2>2, <2>3, <2>4, <2>5, <2>7, <2>8, <2>9, ZenonT(60)
<1>4. CASE ~(n <= 127) /\ ~(n <= 255)
  <2>1. /\ 130 \in Octet /\ 130 > 127 /\ 130 % 128 = 2 /\ 2 \in 1 .. 4
    BY DEF Octet
  <2>2. Map!writeLength(n) = <<130>> \o Map!BE(2, n)
    BY <1>4 DEF Map!writeLength
  <2>3. PICK w \in Seq(Octet) : w = BE(2, n) /\ Len(w) = 2 /\ ValueBE(w) = n
    BY <2>1, WrittenTwo, ZenonT(60)
  <2>4. PICK c \in Seq(Octet) : c = <<130>>
    BY <2>1, OneOctet, ZenonT(60)
  <2>6. Len(w) = 130 % 128 /\ Len(w) \in 1 .. 4
    BY <2>1, <2>3, ZenonT(60)
  <2>7. Map!readLength(<<130>> \o (w \o t)) = {[len |-> ValueBE(w), rest |-> t]}
    BY <2>1, <2>6, LongLength, ZenonT(60)
  <2>8. Map!writeLength(n) = c \o w
    BY <2>2, <2>3, <2>4, MapOctets, ZenonT(60)
  <2>9. (c \o w) \o t = c \o (w \o t)
    BY JoinsAssociate, ZenonT(60)
  <2> QED
    BY <1>1, <2>3, <2>4, <2>7, <2>8, <2>9, ZenonT(60)
<1> QED
  BY <1>0, <1>2, <1>3, <1>4, ZenonT(60)

(* BerCodec's readTlv against its writeTlv.  An element of any tag, with    *)
(* up to the 65535 octets writeLength accepts, in whichever of the three    *)
(* forms its length is written, is read back whole, and exactly what        *)
(* follows it is left: so no element shifts the ones behind it.             *)
THEOREM BerRoundTrip ==
  ASSUME NEW tag \in Octet, NEW value \in Seq(Octet), Len(value) < 256 * 256,
         NEW rest \in Seq(Octet)
  PROVE  Map!readTlv(Map!writeTlv(tag, value) \o rest) =
           {[tag |-> tag, value |-> value, rest |-> rest]}
<1>1. PICK n \in Nat : n = Len(value) /\ n < 256 * 256
  <2>1. Len(value) \in Nat
    BY LenProperties
  <2> QED
    BY <2>1, ZenonT(60)
<1>2. PICK q \in Seq(Octet) :
        /\ q = value \o rest /\ Taken(q, n) = value /\ Left(q, n) = rest
        /\ Len(q) = n + Len(rest) /\ Len(rest) \in Nat
  BY <1>1, FrameAndRest, ZenonT(60)
<1>3. PICK l \in Seq(Octet) :
        /\ l = Map!writeLength(n)
        /\ Map!readLength(l \o q) = {[len |-> n, rest |-> q]}
  BY <1>1, LengthRead, ZenonT(60)
<1>4. PICK t \in Seq(Octet) : t = l \o q
  BY FrameAndRest, ZenonT(60)
<1>5. PICK s : Begins(s, tag, t)
  BY <1>4, Beginning, ZenonT(60)
<1>6. s # <<>> /\ s[1] = tag /\ Tail(s) = t /\ s = <<tag>> \o t
  BY <1>5, ZenonT(60) DEF Begins
<1>7. Map!writeTlv(tag, value) \o rest = s
  <2>1. Map!writeTlv(tag, value) = <<tag>> \o l \o value
    BY <1>1, <1>3, ZenonT(60) DEF Map!writeTlv
  <2>2. PICK c \in Seq(Octet) : c = <<tag>>
    BY OneOctet, ZenonT(60)
  <2>3. PICK h \in Seq(Octet) : h = c \o l
    BY FrameAndRest, ZenonT(60)
  <2>4. (h \o value) \o rest = h \o q
    <3>1. (h \o value) \o rest = h \o (value \o rest)
      BY JoinsAssociate, ZenonT(60)
    <3> QED
      BY <1>2, <3>1, ZenonT(60)
  <2>5. h \o q = c \o t
    <3>1. (c \o l) \o q = c \o (l \o q)
      BY JoinsAssociate, ZenonT(60)
    <3> QED
      BY <1>4, <2>3, <3>1, ZenonT(60)
  <2> QED
    BY <1>6, <2>1, <2>2, <2>3, <2>4, <2>5, ZenonT(60)
<1> DEFINE read(l0) == [tag |-> s[1], value |-> Map!Taken(l0.rest, l0.len),
                        rest |-> Map!Left(l0.rest, l0.len)]
<1>8. Map!readTlv(s) = {read(l0) : l0 \in {k \in Map!readLength(Tail(s)) : k.len <= Len(k.rest)}}
  BY <1>6, ZenonT(60) DEF Map!readTlv
<1>9. PICK x : x = [len |-> n, rest |-> q]
  BY ZenonT(60)
<1>a. x.len = n /\ x.rest = q
  BY <1>9
<1>10. {k \in Map!readLength(Tail(s)) : k.len <= Len(k.rest)} = {x}
  <2>1. x.len <= Len(x.rest)
    BY <1>1, <1>2, <1>a
  <2> QED
    BY <1>3, <1>4, <1>6, <1>9, <2>1, ZenonT(60)
<1>11. read(x) = [tag |-> tag, value |-> value, rest |-> rest]
  BY <1>2, <1>6, <1>a, MapOctets, ZenonT(60)
<1> HIDE DEF read
<1>12. Map!readTlv(s) = {read(x)}
  BY <1>8, <1>10, ZenonT(60)
<1> QED
  BY <1>7, <1>11, <1>12, ZenonT(60)
=============================================================================
