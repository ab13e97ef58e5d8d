------------------------------- MODULE Octets -------------------------------
(***************************************************************************)
(* common/Buffer: reading and writing octets.                               *)
(*                                                                          *)
(* A function that may throw yields a set: its result, or nothing when it   *)
(* throws.  An optional field is a sequence of at most one value.           *)
(***************************************************************************)
EXTENDS Integers, Sequences, SequencesExt

Octet == 0 .. 255

(* writeBE16, writeBE32: n in width octets.                                 *)
BE(width, n) == [i \in 1 .. width |-> (n \div 256 ^ (width - i)) % 256]

(* readBE16, readBE32.                                                      *)
ValueBE(octets) ==
    LET value[i \in 0 .. Len(octets)] ==
          IF i = 0 THEN 0 ELSE value[i - 1] * 256 + octets[i]
    IN  value[Len(octets)]

(* readBytes(n), and what is left behind them.                              *)
Taken(s, n) == SubSeq(s, 1, n)

Left(s, n) == SubSeq(s, n + 1, Len(s))

(* uint8_t's | and &.                                                       *)
bitOr(a, b) ==
    LET bit(p) == IF (a \div p) % 2 = 1 \/ (b \div p) % 2 = 1 THEN p ELSE 0
    IN  bit(1) + bit(2) + bit(4) + bit(8)
          + bit(16) + bit(32) + bit(64) + bit(128)

bitAnd(a, b) ==
    LET bit(p) == IF (a \div p) % 2 = 1 /\ (b \div p) % 2 = 1 THEN p ELSE 0
    IN  bit(1) + bit(2) + bit(4) + bit(8)
          + bit(16) + bit(32) + bit(64) + bit(128)

ValueOr(optional, default) == IF optional = <<>> THEN default ELSE optional[1]

(* The i-th value, when there are as many.                                  *)
Nth(s, i) == IF i <= Len(s) THEN <<s[i]>> ELSE <<>>

(* A call that may throw, and what is done with its result.                 *)
Then(results, F(_)) == UNION {F(r) : r \in results}

(* The same where an exception is caught, which leaves otherwise.           *)
Try(results, otherwise, F(_)) ==
    IF results = {} THEN otherwise ELSE F(CHOOSE r \in results : TRUE)

(* A loop whose body may throw.                                             *)
Loop(s, start, Body(_, _)) ==
    LET after[i \in 0 .. Len(s)] ==
          IF i = 0 THEN {start}
          ELSE Then(after[i - 1], LAMBDA a : Body(a, s[i]))
    IN  after[Len(s)]

(* A while loop: a turn that finds nothing to do leaves its state as it is, *)
(* and there are turns enough for all there is to do.                       *)
While(turns, start, Turn(_)) ==
    Loop([i \in 1 .. turns |-> i], start, LAMBDA a, i : Turn(a))

(* The concatenation of Op(x) for the x in a sequence.                      *)
Each(s, Op(_)) == FlattenSeq([i \in DOMAIN s |-> Op(s[i])])
=============================================================================
