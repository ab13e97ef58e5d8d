----------------------------- MODULE ScccpCodec -----------------------------
(***************************************************************************)
(* transport/ScccpCodec: SCCP unitdata and its two addresses.               *)
(***************************************************************************)
EXTENDS PackedDigits

kMsgUdt           == \h09
kProtoClass0      == \h00
kAiRoutBySsn      == \h80
kAiSsnPresent     == \h08
kGtiNoGt          == \h00
kGtiTtNpEsNai     == \h40
kNpIsdnTelephony  == \h10
kEsBcdOdd         == \h01
kEsBcdEven        == \h02
kNaiInternational == \h04
kTtInternational  == \h00

(* An SccpAddress as it is constructed; ssn and pc are optional.            *)
SccpAddress ==
    [routeByGt |-> TRUE, digits |-> <<>>, tt |-> kTtInternational,
     np |-> kNpIsdnTelephony, nai |-> kNaiInternational,
     ssn |-> <<>>, pc |-> <<>>]

makeGtAddress(digits, ssn) ==
    [SccpAddress EXCEPT !.digits = digits, !.ssn = <<ssn>>]

makeSsnAddress(pc, ssn) ==
    [SccpAddress EXCEPT !.routeByGt = FALSE, !.ssn = <<ssn>>, !.pc = <<pc>>]

(* The digits of n octets; the last half is filler after an odd number.     *)
unpackBcd(bcd, odd) ==
    LET count == 2 * Len(bcd) - IF odd /\ bcd # <<>> THEN 1 ELSE 0
    IN  [i \in 1 .. count |-> IF i % 2 = 1 THEN bcd[(i + 1) \div 2] % 16
                              ELSE bcd[i \div 2] \div 16]

(* Mutant: the flag only for an even number.                               *)
oddFlagInverted(digits) == IF Len(digits) % 2 = 0 THEN \h80 ELSE 0

oddFlag(digits) == IF Len(digits) % 2 = 1 THEN \h80 ELSE 0

encodeAddress(a) ==
    LET es     == IF oddFlag(a.digits) = 0 THEN kEsBcdEven ELSE kEsBcdOdd
        ssnBit == IF a.ssn = <<>> THEN 0 ELSE kAiSsnPresent
    IN  IF a.routeByGt
          THEN <<bitOr(kGtiTtNpEsNai, ssnBit)>> \o a.ssn
               \o <<a.tt, bitOr(a.np, es), bitOr(a.nai, oddFlag(a.digits))>>
               \o packBcd(a.digits)
          ELSE <<bitOr(bitOr(kAiRoutBySsn, kAiSsnPresent),
                       IF a.pc = <<>> THEN 0 ELSE 1)>> \o a.ssn
               \o Each(a.pc, LAMBDA pc : <<pc % 256, (pc \div 256) % 64>>)

(* An address without its title, and a title of the format of a GT address. *)
decodeIndicator(s, ssns) ==
    [SccpAddress EXCEPT !.routeByGt = bitAnd(s[1], kAiRoutBySsn) = 0,
                        !.ssn = SubSeq(s, 2, 1 + ssns)]

decodeTitle(a, gt) ==
    IF Len(gt) < 3 THEN {}
    ELSE {[a EXCEPT !.tt = gt[1], !.np = bitAnd(gt[2], \hF0),
                    !.nai = bitAnd(gt[3], \h7F),
                    !.digits = unpackBcd(Left(gt, 3), gt[3] >= \h80)]}

(* A point code is left unread, and so is a global title of another format. *)
decodeAddress(s) ==
    LET ssns == IF bitAnd(s[1], kAiSsnPresent) = 0 THEN 0 ELSE 1
        a    == decodeIndicator(s, ssns)
    IN  IF s = <<>> \/ Len(s) < 1 + ssns THEN {}
        ELSE IF bitAnd(s[1], \h70) # kGtiTtNpEsNai THEN {a}
        ELSE decodeTitle(a, Left(s, 1 + ssns))

-----------------------------------------------------------------------------

(* The pointers and lengths are single octets: a longer part is written out *)
(* in full behind a length that is cut to eight bits.                       *)
encodeUdt(udt) ==
    LET called  == encodeAddress(udt.calledParty)
        calling == encodeAddress(udt.callingParty)
        part(s) == <<Len(s) % 256>> \o s
    IN  <<kMsgUdt, udt.protocolClass, 3, (3 + Len(called)) % 256,
          (3 + Len(called) + Len(calling)) % 256>>
        \o part(called) \o part(calling) \o part(udt.data)

(* The part that the pointer at octet p leads to, relative to itself.  An   *)
(* address that runs past the end is undefined behaviour in the code, where *)
(* only data is checked; no message of this model has one.                  *)
udtPart(raw, p) ==
    LET at == p + raw[p]
    IN  IF at > Len(raw) \/ at + raw[at] > Len(raw) THEN {}
        ELSE {SubSeq(raw, at + 1, at + raw[at])}

decodeUdt(raw) ==
    IF Len(raw) < 5 \/ raw[1] # kMsgUdt THEN {}
    ELSE {[protocolClass |-> raw[2], calledParty |-> called,
           callingParty |-> calling, data |-> data] :
             called  \in Then(udtPart(raw, 3), decodeAddress),
             calling \in Then(udtPart(raw, 4), decodeAddress),
             data    \in udtPart(raw, 5)}
=============================================================================
