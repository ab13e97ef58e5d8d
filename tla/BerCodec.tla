------------------------------ MODULE BerCodec ------------------------------
(***************************************************************************)
(* map/BerCodec: tag, length and value, and integers.                       *)
(***************************************************************************)
EXTENDS Octets

kBerInt      == \h02
kBerOctetStr == \h04
kBerNull     == \h05
kBerSequence == \h30

(* Above 65535 the code throws: see MapCodec's encode.                      *)
writeLength(n) ==
    IF n <= \h7F THEN <<n>>
    ELSE IF n <= \hFF THEN <<\h81, n>>
    ELSE <<\h82>> \o BE(2, n)

readLength(s) ==
    LET first    == s[1]
        numBytes == first % 128
    IN  IF s = <<>> THEN {}
        ELSE IF first <= \h7F THEN {[len |-> first, rest |-> Tail(s)]}
        ELSE IF numBytes \in 1 .. 4 /\ numBytes < Len(s)
               THEN {[len  |-> ValueBE(Taken(Tail(s), numBytes)),
                      rest |-> Left(Tail(s), numBytes)]}
               ELSE {}

(* Also wrapConstructed.                                                    *)
writeTlv(tag, value) == <<tag>> \o writeLength(Len(value)) \o value

writeTlvOctet(tag, value) == <<tag, 1, value>>

readTlv(s) ==
    IF s = <<>> THEN {}
    ELSE {[tag |-> s[1], value |-> Taken(l.rest, l.len),
           rest |-> Left(l.rest, l.len)] :
             l \in {k \in readLength(Tail(s)) : k.len <= Len(k.rest)}}

(* The loops that call readTlv until their reader is empty.                 *)
readNext(a) ==
    IF a.rest = <<>> THEN {a}
    ELSE {[tlvs |-> Append(a.tlvs, [tag |-> x.tag, value |-> x.value]),
           rest |-> x.rest] : x \in readTlv(a.rest)}

readTlvs(s) ==
    {a.tlvs : a \in While((Len(s) + 1) \div 2, [tlvs |-> <<>>, rest |-> s],
                          readNext)}

(* The values under tag, in order.                                          *)
ValuesOf(tlvs, tag) ==
    Each(tlvs, LAMBDA x : IF x.tag = tag THEN <<x.value>> ELSE <<>>)

-----------------------------------------------------------------------------

(* As many octets as the value and its sign take.                           *)
fits(v, width) == v \in -(128 * 256 ^ (width - 1)) .. 128 * 256 ^ (width - 1) - 1

encodeInt(v) ==
    BE(CHOOSE w \in 1 .. 8 : fits(v, w) /\ (w = 1 \/ ~fits(v, w - 1)), v)

decodeInt(octets) ==
    IF octets = <<>> THEN {}
    ELSE {ValueBE(octets)
            - IF octets[1] >= \h80 THEN 256 ^ Len(octets) ELSE 0}

writeTlvInt(tag, v) == writeTlv(tag, encodeInt(v))
=============================================================================
