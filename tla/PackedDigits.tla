---------------------------- MODULE PackedDigits ----------------------------
(***************************************************************************)
(* The packed decimal digits all protocols use.  A string of digits is the  *)
(* sequence of the numbers its characters are worth, which is ch - '0' for  *)
(* every character.                                                         *)
(***************************************************************************)
EXTENDS Octets

(* Two digits per octet, the first in the low half, 15 after an odd number. *)
(* The halves are or'ed: a character that is no digit spills into the other.*)
packBcd(digits) ==
    [i \in 1 .. (Len(digits) + 1) \div 2 |->
       LET lo == digits[2 * i - 1] % 256
           hi == IF 2 * i <= Len(digits) THEN digits[2 * i] % 16 ELSE 15
       IN  bitOr(hi * 16, lo)]

(* bcdToImsi: 15 in a high half is skipped wherever it is; anything else    *)
(* that is no digit throws.                                                 *)
bcdToImsi(bcd) ==
    LET lo(i) == bcd[i] % 16
        hi(i) == bcd[i] \div 16
    IN  IF \A i \in DOMAIN bcd : lo(i) <= 9 /\ hi(i) \in 0 .. 9 \cup {15}
          THEN {Each(bcd, LAMBDA o : IF o \div 16 = 15 THEN <<o % 16>>
                                     ELSE <<o % 16, o \div 16>>)}
          ELSE {}
=============================================================================
