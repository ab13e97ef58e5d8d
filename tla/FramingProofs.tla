--------------------------- MODULE FramingProofs ---------------------------
(***************************************************************************)
(* Proofs about the codecs of the two links.  TCP may deliver a message in  *)
(* pieces or several at once, and next() of IpaCodec and M3uaCodec takes    *)
(* exactly one message off the buffer, or waits.  An SCCP address, the UDT  *)
(* it is in and the M3UA message around that are read back as they were     *)
(* written, whatever their digits, data and lengths.                        *)
(***************************************************************************)
EXTENDS Codecs, SequenceTheorems, TLAPS

-----------------------------------------------------------------------------
(* Pieces of a stream.                                                      *)

IsPiece(p, s, m, n) ==
    /\ p \in Seq(Octet) /\ p = SubSeq(s, m, n)
    /\ Len(p) = n - m + 1
    /\ \A i \in 1 .. Len(p) : p[i] = s[m + i - 1]

LEMMA Piece ==
  ASSUME NEW s \in Seq(Octet), NEW m \in Nat \ {0}, NEW n \in Nat,
         n <= Len(s), m <= n + 1
  PROVE  \E p : IsPiece(p, s, m, n)
<1>1. Len(s) \in Nat /\ \A i \in 1 .. Len(s) : s[i] \in Octet
  BY ElementOfSeq, LenProperties
<1>2. \A i \in m .. n : s[i] \in Octet
  BY <1>1
<1>3. /\ SubSeq(s, m, n) \in Seq(Octet)
      /\ Len(SubSeq(s, m, n)) = n - m + 1
      /\ \A i \in 1 .. n - m + 1 : SubSeq(s, m, n)[i] = s[m + i - 1]
  BY <1>2, SubSeqProperties
<1>4. IsPiece(SubSeq(s, m, n), s, m, n)
  BY <1>3 DEF IsPiece
<1> QED
  BY <1>4

(* A stream is what was taken off it and what is left.                      *)
LEMMA TakenAndLeft ==
  ASSUME NEW s \in Seq(Octet), NEW k \in 0 .. Len(s)
  PROVE  /\ Taken(s, k) \in Seq(Octet) /\ Len(Taken(s, k)) = k
         /\ Left(s, k) \in Seq(Octet) /\ Len(Left(s, k)) = Len(s) - k
         /\ s = Taken(s, k) \o Left(s, k)
<1>0. Len(s) \in Nat
  BY LenProperties
<1>1. PICK t : IsPiece(t, s, 1, k)
  BY <1>0, Piece
<1>2. PICK u : IsPiece(u, s, k + 1, Len(s))
  BY <1>0, Piece
<1>3. /\ t = Taken(s, k) /\ t \in Seq(Octet) /\ Len(t) = k
      /\ u = Left(s, k) /\ u \in Seq(Octet) /\ Len(u) = Len(s) - k
  BY <1>0, <1>1, <1>2 DEF IsPiece, Taken, Left
<1>4. /\ \A i \in 1 .. k : t[i] = s[i]
      /\ \A i \in 1 .. Len(s) - k : u[i] = s[k + i]
  BY <1>0, <1>1, <1>2 DEF IsPiece
<1>5. /\ t \o u \in Seq(Octet) /\ Len(t \o u) = Len(t) + Len(u)
      /\ \A i \in 1 .. Len(t) + Len(u) :
           (t \o u)[i] = IF i <= Len(t) THEN t[i] ELSE u[i - Len(t)]
  BY <1>3, ConcatProperties
<1>6. Len(t \o u) = Len(s) /\ \A i \in 1 .. Len(s) : (t \o u)[i] = s[i]
  <2>1. Len(t) = k /\ Len(u) = Len(s) - k /\ k \in Nat /\ k <= Len(s)
    BY <1>0, <1>3
  <2>2. ASSUME NEW i \in 1 .. Len(s) PROVE (t \o u)[i] = s[i]
    <3>1. (t \o u)[i] = IF i <= k THEN t[i] ELSE u[i - k]
      BY <1>0, <1>5, <2>1
    <3>2. CASE i <= k
      BY <1>4, <3>1, <3>2
    <3>3. CASE ~(i <= k)
      <4>1. i - k \in 1 .. Len(s) - k /\ k + (i - k) = i
        BY <1>0, <2>1, <3>3
      <4> QED
        BY <1>4, <3>1, <3>3, <4>1
    <3> QED
      BY <3>2, <3>3
  <2> QED
    BY <1>0, <1>5, <2>1, <2>2
<1>7. s = t \o u
  BY <1>5, <1>6, SeqEqual
<1> QED
  BY <1>3, <1>7

(* Behind a frame comes the rest of the stream; the frame is unchanged.     *)
LEMMA FrameAndRest ==
  ASSUME NEW f \in Seq(Octet), NEW rest \in Seq(Octet)
  PROVE  /\ f \o rest \in Seq(Octet)
         /\ Len(f \o rest) = Len(f) + Len(rest)
         /\ Len(f) \in Nat /\ Len(rest) \in Nat
         /\ Taken(f \o rest, Len(f)) = f
         /\ Left(f \o rest, Len(f)) = rest
         /\ \A m \in 1 .. Len(f) + 1, n \in 0 .. Len(f) :
              m <= n + 1 => SubSeq(f \o rest, m, n) = SubSeq(f, m, n)
<1> DEFINE s == f \o rest
<1>0. Len(f) \in Nat /\ Len(rest) \in Nat
  BY LenProperties
<1>1. /\ s \in Seq(Octet) /\ Len(s) = Len(f) + Len(rest)
      /\ \A i \in 1 .. Len(f) : s[i] = f[i]
      /\ \A i \in 1 .. Len(rest) : s[Len(f) + i] = rest[i]
  BY <1>0, ConcatProperties
<1> HIDE DEF s
<1>2. ASSUME NEW m \in 1 .. Len(f) + 1, NEW n \in 0 .. Len(f), m <= n + 1
      PROVE  SubSeq(s, m, n) = SubSeq(f, m, n)
  <2>0. /\ m \in Nat \ {0} /\ n \in Nat /\ n <= Len(f) /\ n <= Len(s)
        /\ m <= n + 1
    BY <1>0, <1>1, <1>2
  <2>1. PICK p : IsPiece(p, s, m, n)
    BY <1>1, <2>0, Piece
  <2>2. PICK q : IsPiece(q, f, m, n)
    BY <2>0, Piece
  <2>3. p \in Seq(Octet) /\ q \in Seq(Octet) /\ Len(p) = Len(q)
    BY <2>1, <2>2 DEF IsPiece
  <2>4. ASSUME NEW i \in 1 .. Len(p) PROVE p[i] = q[i]
    <3>1. p[i] = s[m + i - 1] /\ q[i] = f[m + i - 1] /\ Len(p) = n - m + 1
      BY <2>1, <2>2, <2>3 DEF IsPiece
    <3>2. m + i - 1 \in 1 .. Len(f)
      BY <1>0, <2>0, <3>1
    <3> QED
      BY <1>1, <3>1, <3>2
  <2>5. p = q
    BY <2>3, <2>4, SeqEqual
  <2> QED
    BY <2>1, <2>2, <2>5 DEF IsPiece
<1>3. SubSeq(s, 1, Len(f)) = f
  <2>1. SubSeq(s, 1, Len(f)) = SubSeq(f, 1, Len(f))
    BY <1>0, <1>2
  <2> QED
    BY <2>1, SubSeqFull
<1>4. SubSeq(s, Len(f) + 1, Len(s)) = rest
  <2>1. PICK p : IsPiece(p, s, Len(f) + 1, Len(s))
    BY <1>0, <1>1, Piece
  <2>2. p \in Seq(Octet) /\ Len(p) = Len(rest)
    BY <1>0, <1>1, <2>1 DEF IsPiece
  <2>3. ASSUME NEW i \in 1 .. Len(p) PROVE p[i] = rest[i]
    BY <1>0, <1>1, <2>1, <2>2 DEF IsPiece
  <2>4. p = rest
    BY <2>2, <2>3, SeqEqual
  <2> QED
    BY <2>1, <2>4 DEF IsPiece
<1>5. Taken(s, Len(f)) = f /\ Left(s, Len(f)) = rest
  BY <1>3, <1>4 DEF Taken, Left
<1> QED
  BY <1>0, <1>1, <1>2, <1>5 DEF s

(* The same seen from a piece of a frame.                                   *)
LEMMA PieceOfTaken ==
  ASSUME NEW f \in Seq(Octet), NEW k \in 0 .. Len(f),
         NEW m \in 1 .. k + 1, NEW n \in 0 .. k, m <= n + 1
  PROVE  SubSeq(Taken(f, k), m, n) = SubSeq(f, m, n)
<1>1. PICK t \in Seq(Octet), u \in Seq(Octet) :
        t = Taken(f, k) /\ f = t \o u /\ Len(t) = k
  BY TakenAndLeft
<1>2. SubSeq(t \o u, m, n) = SubSeq(t, m, n)
  BY <1>1, FrameAndRest
<1> QED
  BY <1>1, <1>2

-----------------------------------------------------------------------------
(* Numbers in network order.                                                *)

(* Each octet of a number adds its value to 256 times what came before.     *)
LEMMA ValueOfTwo ==
  ASSUME NEW a \in Octet, NEW b \in Octet, NEW s, s = <<a, b>>
  PROVE  ValueBE(s) = a * 256 + b
<1> DEFINE Body(f) == [i \in 0 .. Len(s) |->
                         IF i = 0 THEN 0 ELSE f[i - 1] * 256 + s[i]]
           g == [i \in 0 .. Len(s) |-> IF i = 0 THEN 0
                                       ELSE IF i = 1 THEN a ELSE a * 256 + b]
           value == CHOOSE f : f = Body(f)
<1>1. Len(s) = 2 /\ s[1] = a /\ s[2] = b
  OBVIOUS
<1>2. g = Body(g)
  BY <1>1 DEF Octet
<1> HIDE DEF g
<1>3. value = Body(value)
  BY <1>2
<1>4. ValueBE(s) = value[Len(s)]
  BY Zenon DEF ValueBE
<1> HIDE DEF value
<1>5. /\ value[0] = 0
      /\ value[1] = value[0] * 256 + s[1]
      /\ value[2] = value[1] * 256 + s[2]
  BY <1>1, <1>3
<1> QED
  BY <1>1, <1>4, <1>5 DEF Octet

LEMMA ValueOfFour ==
  ASSUME NEW a \in Octet, NEW b \in Octet, NEW c \in Octet, NEW d \in Octet,
         NEW s, s = <<a, b, c, d>>
  PROVE  ValueBE(s) = ((a * 256 + b) * 256 + c) * 256 + d
<1> DEFINE Body(f) == [i \in 0 .. Len(s) |->
                         IF i = 0 THEN 0 ELSE f[i - 1] * 256 + s[i]]
           g == [i \in 0 .. Len(s) |->
                   IF i = 0 THEN 0 ELSE IF i = 1 THEN a
                   ELSE IF i = 2 THEN a * 256 + b
                   ELSE IF i = 3 THEN (a * 256 + b) * 256 + c
                   ELSE ((a * 256 + b) * 256 + c) * 256 + d]
           value == CHOOSE f : f = Body(f)
<1>1. Len(s) = 4 /\ s[1] = a /\ s[2] = b /\ s[3] = c /\ s[4] = d
  OBVIOUS
<1>2. g = Body(g)
  BY <1>1 DEF Octet
<1> HIDE DEF g
<1>3. value = Body(value)
  BY <1>2
<1>4. ValueBE(s) = value[Len(s)]
  BY Zenon DEF ValueBE
<1> HIDE DEF value
<1>5. /\ value[0] = 0
      /\ value[1] = value[0] * 256 + s[1]
      /\ value[2] = value[1] * 256 + s[2]
      /\ value[3] = value[2] * 256 + s[3]
      /\ value[4] = value[3] * 256 + s[4]
  BY <1>1, <1>3
<1> QED
  BY <1>1, <1>4, <1>5 DEF Octet

(* What readBE16 and readBE32 return is a number, and what writeBE16 and    *)
(* writeBE32 wrote when it fits.                                            *)
LEMMA LengthOfTwo ==
  ASSUME NEW s \in Seq(Octet), Len(s) = 2
  PROVE  ValueBE(s) = s[1] * 256 + s[2] /\ ValueBE(s) \in Nat
<1>1. s = <<s[1], s[2]>> /\ s[1] \in Octet /\ s[2] \in Octet
  OBVIOUS
<1>2. PICK a \in Octet, b \in Octet : a = s[1] /\ b = s[2]
  BY <1>1
<1>3. s = <<a, b>>
  BY <1>1, <1>2
<1>4. ValueBE(s) = a * 256 + b
  BY <1>3, ValueOfTwo
<1>5. a * 256 + b \in Nat
  BY DEF Octet
<1> QED
  BY <1>2, <1>4, <1>5

LEMMA LengthOfFour ==
  ASSUME NEW s \in Seq(Octet), Len(s) = 4
  PROVE  ValueBE(s) \in Nat
<1>1. PICK a \in Octet, b \in Octet, c \in Octet, d \in Octet :
        a = s[1] /\ b = s[2] /\ c = s[3] /\ d = s[4]
  OBVIOUS
<1>2. <<a, b, c, d>> \in Seq(Octet)
  OBVIOUS
<1>3. PICK t \in Seq(Octet) : t = <<a, b, c, d>>
  BY <1>2, Zenon
<1>4. Len(t) = 4 /\ t[1] = a /\ t[2] = b /\ t[3] = c /\ t[4] = d
  BY <1>3
<1>5. \A i \in 1 .. 4 : i = 1 \/ i = 2 \/ i = 3 \/ i = 4
  OBVIOUS
<1>6. s = t
  BY <1>1, <1>4, <1>5, SeqEqual
<1>7. ValueBE(s) = ((a * 256 + b) * 256 + c) * 256 + d
  BY <1>3, <1>6, ValueOfFour
<1>8. ((a * 256 + b) * 256 + c) * 256 + d \in Nat
  BY DEF Octet
<1> QED
  BY <1>7, <1>8

(* Division by 256 splits off an octet.                                     *)
LEMMA SplitOctet ==
  ASSUME NEW n \in Nat
  PROVE  /\ n \div 256 \in Nat /\ n % 256 \in Octet
         /\ (n \div 256) * 256 + (n % 256) = n
<1>1. n \div 256 \in Int /\ 0 <= n \div 256
  OBVIOUS
<1>2. (n \div 256) * 256 + (n % 256) = n
  OBVIOUS
<1>3. n % 256 \in 0 .. 255
  OBVIOUS
<1> QED
  BY <1>1, <1>2, <1>3 DEF Octet

LEMMA WrittenTwo ==
  ASSUME NEW n \in Nat, n < 256 * 256
  PROVE  /\ BE(2, n) \in Seq(Octet) /\ Len(BE(2, n)) = 2
         /\ ValueBE(BE(2, n)) = n
<1>1. /\ n \div 256 \in Nat /\ n % 256 \in Octet
      /\ (n \div 256) * 256 + (n % 256) = n
  BY SplitOctet, Zenon
<1>2. PICK a \in Nat : a = n \div 256
  BY <1>1, Zenon
<1>3. PICK b \in Octet : b = n % 256
  BY <1>1, Zenon
<1>4. a * 256 + b = n /\ a < 256
  <2>1. a * 256 + b = n
    BY <1>1, <1>2, <1>3, Zenon
  <2> QED
    BY <2>1, SMT DEF Octet
<1>5. a % 256 = a /\ a \in Octet
  BY <1>4, SMT DEF Octet
<1>6. ASSUME NEW i \in 1 .. 2
      PROVE  (n \div 256 ^ (2 - i)) % 256 = IF i = 1 THEN a ELSE b
  <2>1. CASE i = 1
    <3>1. 256 ^ (2 - i) = 256
      BY <2>1, SMT
    <3> QED
      BY <1>2, <1>5, <2>1, <3>1, SMT
  <2>2. CASE i = 2
    <3>1. 256 ^ (2 - i) = 1
      BY <2>2, SMT
    <3>2. n \div 1 = n
      BY SMT
    <3>3. (n \div 256 ^ (2 - i)) % 256 = b
      BY <1>3, <3>1, <3>2, Zenon
    <3> QED
      BY <2>2, <3>3, SMT
  <2>3. i = 1 \/ i = 2
    BY SMT
  <2> QED
    BY <2>1, <2>2, <2>3, Zenon
<1>7. BE(2, n) = [i \in 1 .. 2 |-> IF i = 1 THEN a ELSE b]
  BY <1>6, Zenon DEF BE
<1>8. BE(2, n) = <<a, b>>
  BY <1>7, SMT
<1>9. <<a, b>> \in Seq(Octet) /\ Len(<<a, b>>) = 2
  BY <1>5, SMT
<1>10. ValueBE(<<a, b>>) = a * 256 + b
  BY <1>5, ValueOfTwo, Zenon
<1> QED
  BY <1>4, <1>8, <1>9, <1>10, Zenon

IsSplit(n, p, d) ==
    /\ p \in Nat /\ d \in Octet
    /\ p = n \div 256 /\ d = n % 256 /\ p * 256 + d = n

LEMMA Split ==
  ASSUME NEW n \in Nat
  PROVE  \E p, d : IsSplit(n, p, d)
<1>1. IsSplit(n, n \div 256, n % 256)
  BY SplitOctet, Zenon DEF IsSplit
<1> QED
  BY <1>1, Zenon

LEMMA WrittenFour ==
  ASSUME NEW n \in Nat, n < 256 * (256 * (256 * 256))
  PROVE  /\ BE(4, n) \in Seq(Octet) /\ Len(BE(4, n)) = 4
         /\ ValueBE(BE(4, n)) = n
<1>1a. PICK p, d : IsSplit(n, p, d)
  BY Split, Zenon
<1>1. /\ p \in Nat /\ d \in Octet
      /\ p = n \div 256 /\ d = n % 256 /\ p * 256 + d = n
  BY <1>1a, Zenon DEF IsSplit
<1>2a. PICK q, c : IsSplit(p, q, c)
  BY <1>1, Split, Zenon
<1>2. /\ q \in Nat /\ c \in Octet
      /\ q = p \div 256 /\ c = p % 256 /\ q * 256 + c = p
  BY <1>2a, Zenon DEF IsSplit
<1>3a. PICK a, b : IsSplit(q, a, b)
  BY <1>2, Split, Zenon
<1>3. /\ a \in Nat /\ b \in Octet
      /\ a = q \div 256 /\ b = q % 256 /\ a * 256 + b = q
  BY <1>3a, Zenon DEF IsSplit
<1>4. a < 256
  <2>1. n = ((a * 256 + b) * 256 + c) * 256 + d
    BY <1>1, <1>2, <1>3, SMT DEF Octet
  <2> QED
    BY <1>1, <1>2, <1>3, <2>1, SMT DEF Octet
<1>5. a % 256 = a /\ a \in Octet
  <2>1. a \in Nat
    BY <1>3, Zenon
  <2> QED
    BY <1>4, <2>1, SMT DEF Octet
<1>0. b \in Octet /\ c \in Octet /\ d \in Octet
  BY <1>1, <1>2, <1>3, Zenon
<1>6. n \div (256 * 256) = q
  BY <1>1, <1>2, SMT DEF Octet
<1>7. n \div (256 * (256 * 256)) = a
  BY <1>1, <1>2, <1>3, SMT DEF Octet
<1> DEFINE Digit(i) == IF i = 1 THEN a ELSE IF i = 2 THEN b
                       ELSE IF i = 3 THEN c ELSE d
<1>12. ASSUME NEW i \in 1 .. 4
       PROVE  (n \div 256 ^ (4 - i)) % 256 = Digit(i)
  <2>1. CASE i = 1
    <3>1. 256 ^ (4 - i) = 256 * (256 * 256)
      BY <2>1, SMT
    <3>2. (n \div 256 ^ (4 - i)) % 256 = a
      BY <1>5, <1>7, <3>1, Zenon
    <3> QED
      BY <2>1, <3>2, SMT
  <2>2. CASE i = 2
    <3>1. 256 ^ (4 - i) = 256 * 256
      BY <2>2, SMT
    <3>2. (n \div 256 ^ (4 - i)) % 256 = b
      BY <1>3, <1>6, <3>1, ZenonT(40)
    <3> QED
      BY <2>2, <3>2, SMT
  <2>3. CASE i = 3
    <3>1. 256 ^ (4 - i) = 256
      BY <2>3, SMT
    <3>2. (n \div 256 ^ (4 - i)) % 256 = c
      BY <1>1, <1>2, <3>1, Zenon
    <3> QED
      BY <2>3, <3>2, SMT
  <2>4. CASE i = 4
    <3>1. 256 ^ (4 - i) = 1
      BY <2>4, SMT
    <3>2. n \div 1 = n
      BY SMT
    <3>3. (n \div 256 ^ (4 - i)) % 256 = d
      BY <1>1, <3>1, <3>2, Zenon
    <3> QED
      BY <2>4, <3>3, SMT
  <2>5. i = 1 \/ i = 2 \/ i = 3 \/ i = 4
    BY SMT
  <2> QED
    BY <2>1, <2>2, <2>3, <2>4, <2>5, Zenon
<1>13. BE(4, n) = [i \in 1 .. 4 |-> Digit(i)]
  <2> HIDE DEF Digit
  <2> QED
    BY <1>12, Zenon DEF BE
<1>14. BE(4, n) = <<a, b, c, d>>
  BY <1>13, SMT
<1>15. <<a, b, c, d>> \in Seq(Octet) /\ Len(<<a, b, c, d>>) = 4
  BY <1>0, <1>5, SMT
<1>16. ValueBE(<<a, b, c, d>>) = ((a * 256 + b) * 256 + c) * 256 + d
  <2>1. PICK e \in Octet : e = a
    BY <1>5, Zenon
  <2>2. PICK t : t = <<e, b, c, d>>
    BY Zenon
  <2>3. ValueBE(t) = ((e * 256 + b) * 256 + c) * 256 + d
    BY <1>0, <2>2, ValueOfFour
  <2> QED
    BY <2>1, <2>2, <2>3, Zenon
<1>17. ((a * 256 + b) * 256 + c) * 256 + d = n
  BY <1>1, <1>2, <1>3, SMT DEF Octet
<1> QED
  BY <1>14, <1>15, <1>16, <1>17, Zenon

(* Two octets are the ones writeBE16 writes for their value.                *)
LEMMA ReadTwo ==
  ASSUME NEW s \in Seq(Octet), Len(s) = 2
  PROVE  BE(2, ValueBE(s)) = s
<1>1. PICK a \in Octet, b \in Octet : a = s[1] /\ b = s[2]
  BY SMT
<1>2. PICK n \in Nat : n = a * 256 + b
  BY SMT DEF Octet
<1>3. ValueBE(s) = n
  <2>1. ValueBE(s) = s[1] * 256 + s[2]
    BY LengthOfTwo, Zenon
  <2> QED
    BY <1>1, <1>2, <2>1, Zenon
<1>4. n < 256 * 256
  BY <1>2, SMT DEF Octet
<1>5. PICK t \in Seq(Octet) : t = BE(2, n) /\ Len(t) = 2 /\ ValueBE(t) = n
  BY <1>4, WrittenTwo, Zenon
<1>6. t[1] \in Octet /\ t[2] \in Octet
  BY <1>5, SMT
<1>7. t[1] * 256 + t[2] = a * 256 + b
  <2>1. ValueBE(t) = t[1] * 256 + t[2]
    BY <1>5, LengthOfTwo, Zenon
  <2> QED
    BY <1>2, <1>5, <2>1, Zenon
<1>8. t[1] = a /\ t[2] = b
  <2>1. PICK x \in Octet, y \in Octet : x = t[1] /\ y = t[2]
    BY <1>6, Zenon
  <2>2. x * 256 + y = a * 256 + b
    BY <1>7, <2>1, Zenon
  <2>3. x = a /\ y = b
    BY <2>2, SMT DEF Octet
  <2> QED
    BY <2>1, <2>3, Zenon
<1>9. t = s
  BY <1>1, <1>5, <1>8, SMT
<1> QED
  BY <1>3, <1>5, <1>9, Zenon

-----------------------------------------------------------------------------
(* IPA frames.                                                              *)

LEMMA IpaOctets ==
  ASSUME NEW s, NEW n
  PROVE  /\ Ipa!ValueBE(s) = ValueBE(s) /\ Ipa!BE(n, s) = BE(n, s)
         /\ Ipa!Taken(s, n) = Taken(s, n) /\ Ipa!Left(s, n) = Left(s, n)
  BY Zenon DEF Ipa!ValueBE, ValueBE, Ipa!BE, BE, Ipa!Taken, Taken, Ipa!Left, Left

(* The branches of IpaDecoder::next.                                        *)
LEMMA IpaNextBranches ==
  ASSUME NEW buf, NEW w, w = ValueBE(Taken(buf, 2))
  PROVE  /\ Len(buf) < Ipa!kHeaderSize =>
              Ipa!next(buf) = {[buf |-> buf, msg |-> <<>>]}
         /\ ~(Len(buf) < Ipa!kHeaderSize) /\ w \notin 1 .. Ipa!kMaxIpaWireLen =>
              Ipa!next(buf) = {}
         /\ (/\ ~(Len(buf) < Ipa!kHeaderSize) /\ w \in 1 .. Ipa!kMaxIpaWireLen
             /\ Len(buf) < Ipa!kHeaderSize + w - 1) =>
              Ipa!next(buf) = {[buf |-> buf, msg |-> <<>>]}
         /\ (/\ ~(Len(buf) < Ipa!kHeaderSize) /\ w \in 1 .. Ipa!kMaxIpaWireLen
             /\ ~(Len(buf) < Ipa!kHeaderSize + w - 1)) =>
              Ipa!next(buf) =
                {[buf |-> Left(buf, Ipa!kHeaderSize + w - 1),
                  msg |-> <<[streamId |-> buf[3],
                             payload |-> SubSeq(buf, Ipa!kHeaderSize + 1,
                                           Ipa!kHeaderSize + w - 1)]>>]}
<1>1. w = Ipa!ValueBE(Ipa!Taken(buf, 2))
  BY IpaOctets, Zenon
<1>2. Left(buf, Ipa!kHeaderSize + w - 1) = Ipa!Left(buf, Ipa!kHeaderSize + w - 1)
  BY IpaOctets, Zenon
<1> QED
  BY <1>1, <1>2, Zenon DEF Ipa!next

(* A frame is its length, the stream octet and the payload.                 *)
LEMMA IpaFrame ==
  ASSUME NEW streamId \in Octet, NEW payload \in Seq(Octet),
         Len(payload) < Ipa!kMaxIpaWireLen
  PROVE  \E f \in Seq(Octet) :
           /\ f = Ipa!encode(streamId, payload)
           /\ Len(f) = Len(payload) + 3 /\ Len(payload) \in Nat
           /\ SubSeq(f, 1, 2) = BE(2, Len(payload) + 1)
           /\ ValueBE(SubSeq(f, 1, 2)) = Len(payload) + 1
           /\ f[3] = streamId
           /\ SubSeq(f, 4, Len(f)) = payload
<1>1. PICK n \in Nat : n = Len(payload) + 1 /\ Len(payload) \in Nat
  BY LenProperties, SMT
<1>2. n < 256 * 256
  BY <1>1, SMT DEF Ipa!kMaxIpaWireLen
<1>3. PICK b \in Seq(Octet) : b = BE(2, n) /\ Len(b) = 2 /\ ValueBE(b) = n
  BY <1>2, WrittenTwo, Zenon
<1>4. <<streamId>> \in Seq(Octet) /\ Len(<<streamId>>) = 1
      /\ <<streamId>>[1] = streamId
  BY SMT
<1>5. PICK c \in Seq(Octet) : c = <<streamId>> /\ Len(c) = 1 /\ c[1] = streamId
  BY <1>4, Zenon
<1>6. PICK h \in Seq(Octet) : h = b \o c /\ Len(h) = 3 /\ Taken(h, 2) = b
                              /\ h[3] = streamId
  <2>1. b \o c \in Seq(Octet) /\ Len(b \o c) = 2 + 1 /\ Taken(b \o c, 2) = b
    BY <1>3, <1>5, FrameAndRest, ZenonT(40)
  <2>2. (b \o c)[3] = streamId
    BY <1>3, <1>5, ConcatProperties, SMTT(20)
  <2>3. 2 + 1 = 3
    BY SMT
  <2> QED
    BY <2>1, <2>2, <2>3, Zenon
<1>7. PICK f \in Seq(Octet) : f = h \o payload /\ Len(f) = 3 + Len(payload)
                              /\ Left(f, 3) = payload
                              /\ SubSeq(f, 1, 2) = SubSeq(h, 1, 2)
  <2>1. 1 \in 1 .. 3 + 1 /\ 2 \in 0 .. 3 /\ 1 <= 2 + 1
    BY SMT
  <2>0. Len(h) = 3
    BY <1>6
  <2>2. /\ h \o payload \in Seq(Octet)
        /\ Len(h \o payload) = Len(h) + Len(payload)
        /\ Left(h \o payload, Len(h)) = payload
        /\ \A m \in 1 .. Len(h) + 1, k \in 0 .. Len(h) :
             m <= k + 1 => SubSeq(h \o payload, m, k) = SubSeq(h, m, k)
    BY FrameAndRest
  <2>3. SubSeq(h \o payload, 1, 2) = SubSeq(h, 1, 2)
    BY <2>0, <2>1, <2>2, Zenon
  <2> QED
    BY <2>0, <2>2, <2>3, Zenon
<1>8. f[3] = streamId
  BY <1>6, <1>7, ConcatProperties
<1>9. f = Ipa!encode(streamId, payload)
  <2>1. Ipa!BE(2, n) = b
    BY <1>3, IpaOctets, Zenon
  <2> QED
    BY <1>1, <1>5, <1>6, <1>7, <2>1, Zenon DEF Ipa!encode
<1>10. SubSeq(f, 1, 2) = b
  BY <1>6, <1>7, Zenon DEF Taken
<1>11. SubSeq(f, 4, Len(f)) = payload
  <2>1. 3 + 1 = 4
    BY SMT
  <2> QED
    BY <1>7, <2>1, Zenon DEF Left
<1>12. Len(f) = Len(payload) + 3
  BY <1>1, <1>7, SMT
<1> QED
  BY <1>1, <1>3, <1>8, <1>9, <1>10, <1>11, <1>12, Zenon

(* IpaDecoder::next against IpaCodec's encode.  Of a stream that begins     *)
(* with a frame, whatever follows it, next() returns the frame's stream and *)
(* payload and leaves exactly what follows; of a piece of a frame that      *)
(* lacks an octet or more it keeps every octet and returns nothing.  So     *)
(* neither a segment that ends inside a frame nor one that holds several    *)
(* loses, repeats or shifts an octet.                                       *)
THEOREM IpaReassembles ==
  ASSUME NEW streamId \in Octet, NEW payload \in Seq(Octet),
         NEW rest \in Seq(Octet), Len(payload) < Ipa!kMaxIpaWireLen
  PROVE  /\ Ipa!next(Ipa!encode(streamId, payload) \o rest) =
              {[buf |-> rest,
                msg |-> <<[streamId |-> streamId, payload |-> payload]>>]}
         /\ \A k \in 0 .. Len(Ipa!encode(streamId, payload)) - 1 :
              Ipa!next(Taken(Ipa!encode(streamId, payload), k)) =
                {[buf |-> Taken(Ipa!encode(streamId, payload), k),
                  msg |-> <<>>]}
<1>1. PICK f \in Seq(Octet) :
        /\ f = Ipa!encode(streamId, payload)
        /\ Len(f) = Len(payload) + 3 /\ Len(payload) \in Nat
        /\ ValueBE(SubSeq(f, 1, 2)) = Len(payload) + 1
        /\ f[3] = streamId
        /\ SubSeq(f, 4, Len(f)) = payload
  BY IpaFrame, Zenon
<1>2. PICK w \in Nat : w = Len(payload) + 1
  BY <1>1, SMT
<1>3. /\ w \in 1 .. Ipa!kMaxIpaWireLen
      /\ Ipa!kHeaderSize + w - 1 = Len(f) /\ Ipa!kHeaderSize + 1 = 4
      /\ Ipa!kHeaderSize = 3 /\ Len(f) \in Nat /\ Len(f) >= 3
  <2>1. Len(f) = Len(payload) + 3 /\ Len(payload) \in Nat
    BY <1>1, Zenon
  <2>2. Ipa!kHeaderSize = 3
    BY DEF Ipa!kHeaderSize
  <2>3. Ipa!kMaxIpaWireLen \in Nat
    BY SMT DEF Ipa!kMaxIpaWireLen
  <2>4. /\ Ipa!kHeaderSize + w - 1 = Len(f) /\ Ipa!kHeaderSize + 1 = 4
        /\ Len(f) \in Nat /\ Len(f) >= 3
    BY <1>2, <2>1, <2>2, SMT
  <2>5. w \in 1 .. Ipa!kMaxIpaWireLen
    BY <1>2, <2>1, <2>3, SMT
  <2> QED
    BY <2>2, <2>4, <2>5, Zenon
<1>4. Ipa!next(f \o rest) =
        {[buf |-> rest, msg |-> <<[streamId |-> streamId, payload |-> payload]>>]}
  <2>1. PICK s \in Seq(Octet) : s = f \o rest
    BY ConcatProperties
  <2>2. /\ Len(s) = Len(f) + Len(rest) /\ Len(rest) \in Nat
        /\ Left(s, Len(f)) = rest
        /\ \A m \in 1 .. Len(f) + 1, k \in 0 .. Len(f) :
             m <= k + 1 => SubSeq(s, m, k) = SubSeq(f, m, k)
    BY <2>1, FrameAndRest
  <2>3. /\ 1 \in 1 .. Len(f) + 1 /\ 2 \in 0 .. Len(f) /\ 1 <= 2 + 1
        /\ 4 \in 1 .. Len(f) + 1 /\ Len(f) \in 0 .. Len(f) /\ 4 <= Len(f) + 1
    BY <1>3, SMT
  <2>4. SubSeq(s, 1, 2) = SubSeq(f, 1, 2) /\ SubSeq(s, 4, Len(f)) = payload
    BY <1>1, <2>2, <2>3, Zenon
  <2>5. s[3] = streamId
    BY <1>1, <1>3, <2>1, ConcatProperties
  <2>6. w = ValueBE(Taken(s, 2))
    BY <1>1, <1>2, <2>4, Zenon DEF Taken
  <2>7. ~(Len(s) < Ipa!kHeaderSize) /\ ~(Len(s) < Ipa!kHeaderSize + w - 1)
    BY <1>3, <2>2, SMT
  <2>8. Ipa!next(s) = {[buf |-> Left(s, Ipa!kHeaderSize + w - 1),
                        msg |-> <<[streamId |-> s[3],
                                   payload |-> SubSeq(s, Ipa!kHeaderSize + 1,
                                                 Ipa!kHeaderSize + w - 1)]>>]}
    BY <1>3, <2>6, <2>7, IpaNextBranches, Zenon
  <2> QED
    BY <1>3, <2>1, <2>2, <2>4, <2>5, <2>8, Zenon
<1>5. ASSUME NEW k \in 0 .. Len(f) - 1
      PROVE  Ipa!next(Taken(f, k)) = {[buf |-> Taken(f, k), msg |-> <<>>]}
  <2>0. k \in Nat /\ k \in 0 .. Len(f) /\ k < Len(f)
    BY <1>3, SMT
  <2>1. PICK t \in Seq(Octet) : t = Taken(f, k) /\ Len(t) = k
    BY <2>0, TakenAndLeft
  <2>2. CASE k < 3
    <3>1. Len(t) < Ipa!kHeaderSize
      BY <1>3, <2>1, <2>2, Zenon
    <3> QED
      BY <2>1, <3>1, IpaNextBranches, Zenon
  <2>3. CASE ~(k < 3)
    <3>1. 1 \in 1 .. k + 1 /\ 2 \in 0 .. k /\ 1 <= 2 + 1
      BY <2>0, <2>3, SMT
    <3>2. SubSeq(t, 1, 2) = SubSeq(f, 1, 2)
      BY <2>0, <2>1, <3>1, PieceOfTaken, Zenon
    <3>3. w = ValueBE(Taken(t, 2))
      BY <1>1, <1>2, <3>2, Zenon DEF Taken
    <3>4. ~(Len(t) < Ipa!kHeaderSize) /\ Len(t) < Ipa!kHeaderSize + w - 1
      BY <1>3, <2>0, <2>1, <2>3, SMT
    <3> QED
      BY <1>3, <2>1, <3>3, <3>4, IpaNextBranches, Zenon
  <2> QED
    BY <2>2, <2>3
<1> QED
  BY <1>1, <1>4, <1>5, Zenon

(* IpaDecoder::next on any buffer.  It leaves the buffer alone or takes off *)
(* its front exactly the octets that encode writes for the message it       *)
(* returns: no octet is consumed without becoming part of a message, and    *)
(* every message takes at least three octets, so the loop over next() that  *)
(* reads a segment ends.                                                    *)
THEOREM IpaProgress ==
  ASSUME NEW buf \in Seq(Octet), NEW r \in Ipa!next(buf)
  PROVE  \/ r.msg = <<>> /\ r.buf = buf
         \/ \E m : /\ r.msg = <<m>>
                   /\ buf = Ipa!encode(m.streamId, m.payload) \o r.buf
                   /\ r.buf \in Seq(Octet)
                   /\ Len(r.buf) + 3 <= Len(buf)
<1>0. Len(buf) \in Nat
  BY LenProperties
<1>1. PICK w : w = ValueBE(Taken(buf, 2))
  BY Zenon
<1>2. CASE \/ Len(buf) < Ipa!kHeaderSize
           \/ /\ ~(Len(buf) < Ipa!kHeaderSize) /\ w \in 1 .. Ipa!kMaxIpaWireLen
              /\ Len(buf) < Ipa!kHeaderSize + w - 1
  <2>1. Ipa!next(buf) = {[buf |-> buf, msg |-> <<>>]}
    BY <1>1, <1>2, IpaNextBranches, Zenon
  <2> QED
    BY <2>1
<1>3. CASE ~(Len(buf) < Ipa!kHeaderSize) /\ w \notin 1 .. Ipa!kMaxIpaWireLen
  <2>1. Ipa!next(buf) = {}
    BY <1>1, <1>3, IpaNextBranches, Zenon
  <2> QED
    BY <2>1
<1>4. CASE /\ ~(Len(buf) < Ipa!kHeaderSize) /\ w \in 1 .. Ipa!kMaxIpaWireLen
           /\ ~(Len(buf) < Ipa!kHeaderSize + w - 1)
  <2>1. PICK e \in Nat : e = Ipa!kHeaderSize + w - 1
    BY <1>4, SMT DEF Ipa!kHeaderSize, Ipa!kMaxIpaWireLen
  <2>2. /\ e = w + 2 /\ w \in Nat /\ e >= 3 /\ e <= Len(buf)
        /\ Ipa!kHeaderSize + 1 = 4 /\ w - 1 < Ipa!kMaxIpaWireLen
    BY <1>0, <1>4, <2>1, SMT DEF Ipa!kHeaderSize, Ipa!kMaxIpaWireLen
  <2>3. PICK p : IsPiece(p, buf, 4, e)
    BY <1>0, <2>2, Piece
  <2>4. /\ p \in Seq(Octet) /\ p = SubSeq(buf, 4, e) /\ Len(p) = w - 1
        /\ \A i \in 1 .. w - 1 : p[i] = buf[3 + i]
    BY <2>2, <2>3 DEF IsPiece
  <2>5. PICK m : m = [streamId |-> buf[3], payload |-> p]
    BY Zenon
  <2>6. r.msg = <<m>> /\ r.buf = Left(buf, e)
    <3>1. Ipa!next(buf) =
            {[buf |-> Left(buf, Ipa!kHeaderSize + w - 1),
              msg |-> <<[streamId |-> buf[3],
                         payload |-> SubSeq(buf, Ipa!kHeaderSize + 1,
                                       Ipa!kHeaderSize + w - 1)]>>]}
      BY <1>1, <1>4, IpaNextBranches, Zenon
    <3>2. Ipa!next(buf) = {[buf |-> Left(buf, e), msg |-> <<m>>]}
      BY <2>1, <2>2, <2>4, <2>5, <3>1, Zenon
    <3> QED
      BY <3>2
  <2>7. m.streamId = buf[3] /\ m.payload = p /\ buf[3] \in Octet
    BY <1>0, <2>2, <2>5
  <2>8. Len(p) < Ipa!kMaxIpaWireLen /\ Len(p) + 1 = w
    BY <2>2, <2>4, SMT
  <2>9. PICK g \in Seq(Octet) :
          /\ g = Ipa!encode(buf[3], p)
          /\ Len(g) = Len(p) + 3
          /\ SubSeq(g, 1, 2) = BE(2, Len(p) + 1)
          /\ g[3] = buf[3]
          /\ SubSeq(g, 4, Len(g)) = p
    BY <2>4, <2>7, <2>8, IpaFrame, Zenon
  <2>10. Len(g) = e
    BY <2>2, <2>4, <2>9, SMT
  <2>11. PICK t \in Seq(Octet), u \in Seq(Octet) :
           /\ t = Taken(buf, e) /\ Len(t) = e /\ u = Left(buf, e)
           /\ Len(u) = Len(buf) - e /\ buf = t \o u
    <3>1. e \in 0 .. Len(buf)
      BY <1>0, <2>2, SMT
    <3> QED
      BY <3>1, TakenAndLeft, Zenon
  <2>12. \A i \in 1 .. e : t[i] = buf[i]
    <3>1. Len(t) = e /\ buf = t \o u
      BY <2>11, Zenon
    <3>2. \A i \in 1 .. Len(t) : (t \o u)[i] = t[i]
      BY ConcatProperties
    <3> QED
      BY <3>1, <3>2, Zenon
  <2>13. g[1] = buf[1] /\ g[2] = buf[2]
    <3>0. /\ 1 \in Nat \ {0} /\ 2 \in Nat /\ 1 <= 2 + 1
          /\ 2 <= Len(buf) /\ 2 <= Len(g)
      BY <1>0, <2>2, <2>10, SMT
    <3>1. PICK h : IsPiece(h, buf, 1, 2)
      BY <3>0, Piece, Zenon
    <3>2. PICK q : IsPiece(q, g, 1, 2)
      BY <3>0, Piece, Zenon
    <3>3. /\ h \in Seq(Octet) /\ Len(h) = 2 /\ h = Taken(buf, 2)
          /\ h[1] = buf[1] /\ h[2] = buf[2]
      BY <3>1 DEF IsPiece, Taken
    <3>4. q = SubSeq(g, 1, 2) /\ q[1] = g[1] /\ q[2] = g[2]
      BY <3>2 DEF IsPiece
    <3>5. BE(2, w) = h
      BY <1>1, <3>3, ReadTwo, Zenon
    <3>6. q = h
      BY <2>8, <2>9, <3>4, <3>5, Zenon
    <3> QED
      BY <3>3, <3>4, <3>6, Zenon
  <2>14. ASSUME NEW i \in 4 .. e PROVE g[i] = buf[i]
    <3>1. PICK q : IsPiece(q, g, 4, Len(g))
      BY <2>2, <2>10, Piece
    <3>2. q = p /\ \A j \in 1 .. w - 1 : q[j] = g[3 + j]
      BY <2>2, <2>9, <2>10, <3>1 DEF IsPiece
    <3>3. PICK j \in 1 .. w - 1 : 3 + j = i
      <4>1. i - 3 \in 1 .. w - 1 /\ 3 + (i - 3) = i
        BY <2>2, SMT
      <4> QED
        BY <4>1, Zenon
    <3> QED
      BY <2>4, <3>2, <3>3, Zenon
  <2>15. ASSUME NEW i \in 1 .. e PROVE g[i] = t[i]
    <3>1. i = 1 \/ i = 2 \/ i = 3 \/ i \in 4 .. e
      BY <2>2, SMT
    <3>2. g[i] = buf[i]
      BY <2>9, <2>13, <2>14, <3>1, Zenon
    <3> QED
      BY <2>12, <3>2, Zenon
  <2>16. g = t
    BY <2>10, <2>11, <2>15, SeqEqual
  <2>17. Len(u) + 3 <= Len(buf)
    BY <1>0, <2>2, <2>11, SMT
  <2>18. buf = Ipa!encode(m.streamId, m.payload) \o r.buf
    BY <2>6, <2>7, <2>9, <2>11, <2>16, Zenon
  <2>19. r.buf \in Seq(Octet) /\ Len(r.buf) + 3 <= Len(buf)
    BY <2>6, <2>11, <2>17, Zenon
  <2> QED
    BY <2>6, <2>18, <2>19, Zenon
<1> QED
  BY <1>2, <1>3, <1>4, Zenon

-----------------------------------------------------------------------------
(* M3UA messages.                                                           *)

LEMMA M3uaOctets ==
  ASSUME NEW s, NEW n
  PROVE  /\ M3ua!ValueBE(s) = ValueBE(s) /\ M3ua!BE(n, s) = BE(n, s)
         /\ M3ua!Taken(s, n) = Taken(s, n) /\ M3ua!Left(s, n) = Left(s, n)
  BY Zenon DEF M3ua!ValueBE, ValueBE, M3ua!BE, BE, M3ua!Taken, Taken,
               M3ua!Left, Left

(* The branches of M3uaDecoder::next.                                       *)
LEMMA M3uaNextBranches ==
  ASSUME NEW buf, NEW n, n = ValueBE(SubSeq(buf, 5, 8))
  PROVE  /\ Len(buf) < M3ua!kCommonHeaderSize =>
              M3ua!next(buf) = {[buf |-> buf, msg |-> <<>>]}
         /\ (/\ ~(Len(buf) < M3ua!kCommonHeaderSize)
             /\ n > M3ua!kMaxM3uaMessageSize) => M3ua!next(buf) = {}
         /\ (/\ ~(Len(buf) < M3ua!kCommonHeaderSize)
             /\ ~(n > M3ua!kMaxM3uaMessageSize) /\ Len(buf) < n) =>
              M3ua!next(buf) = {[buf |-> buf, msg |-> <<>>]}
         /\ (/\ ~(Len(buf) < M3ua!kCommonHeaderSize)
             /\ ~(n > M3ua!kMaxM3uaMessageSize) /\ ~(Len(buf) < n)
             /\ n < M3ua!kCommonHeaderSize) =>
              M3ua!next(buf) = {[buf |-> Left(buf, n), msg |-> <<>>]}
         /\ (/\ ~(Len(buf) < M3ua!kCommonHeaderSize)
             /\ ~(n > M3ua!kMaxM3uaMessageSize) /\ ~(Len(buf) < n)
             /\ ~(n < M3ua!kCommonHeaderSize)) =>
              M3ua!next(buf) = {[buf |-> Left(buf, n), msg |-> <<m>>] :
                                  m \in M3ua!decode(Taken(buf, n))}
<1>1. n = M3ua!ValueBE(SubSeq(buf, 5, 8))
  BY M3uaOctets, Zenon
<1>2. Left(buf, n) = M3ua!Left(buf, n) /\ Taken(buf, n) = M3ua!Taken(buf, n)
  BY M3uaOctets, Zenon
<1> QED
  BY <1>1, <1>2, Zenon DEF M3ua!next

(* A message is its header, whose length covers the message, and its body.  *)
LEMMA M3uaFrame ==
  ASSUME NEW class \in Octet, NEW type \in Octet, NEW body \in Seq(Octet),
         8 + Len(body) < 256 * (256 * (256 * 256))
  PROVE  \E f \in Seq(Octet) :
           /\ f = M3ua!frame(class, type, body)
           /\ Len(f) = 8 + Len(body) /\ Len(body) \in Nat
           /\ ValueBE(SubSeq(f, 5, 8)) = Len(f)
           /\ f[1] = M3ua!kVersion /\ f[3] = class /\ f[4] = type
           /\ Left(f, 8) = body
<1>1. PICK n \in Nat : n = 8 + Len(body) /\ Len(body) \in Nat
  BY LenProperties, SMT
<1>2. n < 256 * (256 * (256 * 256)) /\ M3ua!kCommonHeaderSize + Len(body) = n
  BY <1>1, SMT DEF M3ua!kCommonHeaderSize
<1>3. PICK b \in Seq(Octet) : b = BE(4, n) /\ Len(b) = 4 /\ ValueBE(b) = n
  BY <1>2, WrittenFour, Zenon
<1>4. PICK v \in Octet : v = M3ua!kVersion
  BY SMT DEF Octet, M3ua!kVersion
<1>5. PICK z \in Octet : z = 0
  BY SMT DEF Octet
<1>6. PICK c \in Seq(Octet) :
        /\ c = <<v, z, class, type>> /\ Len(c) = 4
        /\ c[1] = v /\ c[3] = class /\ c[4] = type
  <2>1. <<v, z, class, type>> \in Seq(Octet)
    OBVIOUS
  <2>2. PICK c \in Seq(Octet) : c = <<v, z, class, type>>
    BY <2>1, Zenon
  <2>3. Len(c) = 4 /\ c[1] = v /\ c[3] = class /\ c[4] = type
    BY <2>2
  <2> QED
    BY <2>2, <2>3, Zenon
<1>7. PICK h \in Seq(Octet) :
        /\ h = c \o b /\ Len(h) = 8 /\ SubSeq(h, 5, 8) = b
        /\ h[1] = v /\ h[3] = class /\ h[4] = type
  <2>0. Len(c) = 4 /\ Len(b) = 4
    BY <1>3, <1>6, Zenon
  <2>1. /\ c \o b \in Seq(Octet) /\ Len(c \o b) = Len(c) + Len(b)
        /\ Left(c \o b, Len(c)) = b
    BY FrameAndRest
  <2>2. Len(c) + Len(b) = 8 /\ Len(c) + 1 = 5
    BY <2>0, SMT
  <2>3. SubSeq(c \o b, 5, 8) = b
    BY <2>1, <2>2, Zenon DEF Left
  <2>4. \A i \in 1 .. Len(c) : (c \o b)[i] = c[i]
    BY ConcatProperties
  <2>5. 1 \in 1 .. Len(c) /\ 3 \in 1 .. Len(c) /\ 4 \in 1 .. Len(c)
    BY <2>0, SMT
  <2>6. (c \o b)[1] = v /\ (c \o b)[3] = class /\ (c \o b)[4] = type
    BY <1>6, <2>4, <2>5, Zenon
  <2> QED
    BY <2>1, <2>2, <2>3, <2>6, Zenon
<1>8. PICK f \in Seq(Octet) :
        /\ f = h \o body /\ Len(f) = 8 + Len(body) /\ Left(f, 8) = body
        /\ SubSeq(f, 5, 8) = b
        /\ f[1] = v /\ f[3] = class /\ f[4] = type
  <2>0. Len(h) = 8
    BY <1>7, Zenon
  <2>1. /\ h \o body \in Seq(Octet)
        /\ Len(h \o body) = Len(h) + Len(body)
        /\ Left(h \o body, Len(h)) = body
        /\ \A m \in 1 .. Len(h) + 1, k \in 0 .. Len(h) :
             m <= k + 1 => SubSeq(h \o body, m, k) = SubSeq(h, m, k)
    BY FrameAndRest
  <2>2. 5 \in 1 .. Len(h) + 1 /\ 8 \in 0 .. Len(h) /\ 5 <= 8 + 1
    BY <2>0, SMT
  <2>3. SubSeq(h \o body, 5, 8) = SubSeq(h, 5, 8)
    BY <2>1, <2>2, Zenon
  <2>4. \A i \in 1 .. Len(h) : (h \o body)[i] = h[i]
    BY ConcatProperties
  <2>5. 1 \in 1 .. Len(h) /\ 3 \in 1 .. Len(h) /\ 4 \in 1 .. Len(h)
    BY <2>0, SMT
  <2>6. (h \o body)[1] = v /\ (h \o body)[3] = class /\ (h \o body)[4] = type
    BY <1>7, <2>4, <2>5, Zenon
  <2>7. SubSeq(h \o body, 5, 8) = b
    BY <1>7, <2>3, Zenon
  <2> QED
    BY <2>0, <2>1, <2>6, <2>7, Zenon
<1>9. f = M3ua!frame(class, type, body)
  <2>1. M3ua!BE(4, M3ua!kCommonHeaderSize + Len(body)) = b
    BY <1>2, <1>3, M3uaOctets, Zenon
  <2> QED
    BY <1>4, <1>5, <1>6, <1>7, <1>8, <2>1, Zenon DEF M3ua!frame
<1>10. ValueBE(SubSeq(f, 5, 8)) = Len(f)
  BY <1>1, <1>3, <1>8, Zenon
<1> QED
  BY <1>1, <1>4, <1>8, <1>9, <1>10, Zenon

(* M3uaDecoder::next against the frames M3uaCodec writes, up to the 64 KiB  *)
(* the decoder accepts.  Of a stream that begins with a message, whatever   *)
(* follows it, next() decodes exactly the message's body under its class    *)
(* and type and leaves exactly what follows; of a piece of a message that   *)
(* lacks an octet or more it keeps every octet and returns nothing.         *)
THEOREM M3uaReassembles ==
  ASSUME NEW class \in Octet, NEW type \in Octet, NEW body \in Seq(Octet),
         NEW rest \in Seq(Octet),
         M3ua!kCommonHeaderSize + Len(body) <= M3ua!kMaxM3uaMessageSize
  PROVE  /\ M3ua!next(M3ua!frame(class, type, body) \o rest) =
              {[buf |-> rest, msg |-> <<m>>] :
                 m \in M3ua!decodeTlvs(M3ua!Message(class, type), body)}
         /\ \A k \in 0 .. Len(M3ua!frame(class, type, body)) - 1 :
              M3ua!next(Taken(M3ua!frame(class, type, body), k)) =
                {[buf |-> Taken(M3ua!frame(class, type, body), k),
                  msg |-> <<>>]}
<1>1. PICK f \in Seq(Octet) :
        /\ f = M3ua!frame(class, type, body)
        /\ Len(f) = 8 + Len(body) /\ Len(body) \in Nat
        /\ ValueBE(SubSeq(f, 5, 8)) = Len(f)
        /\ f[1] = M3ua!kVersion /\ f[3] = class /\ f[4] = type
        /\ Left(f, 8) = body
  <2>0. Len(body) \in Nat
    BY LenProperties
  <2>1. 8 + Len(body) < 256 * (256 * (256 * 256))
    BY <2>0, SMT DEF M3ua!kMaxM3uaMessageSize, M3ua!kCommonHeaderSize
  <2> QED
    BY <2>1, M3uaFrame, Zenon
<1>2. /\ M3ua!kCommonHeaderSize = 8 /\ Len(f) \in Nat /\ Len(f) >= 8
      /\ ~(Len(f) > M3ua!kMaxM3uaMessageSize)
      /\ ~(Len(f) < M3ua!kCommonHeaderSize)
  <2>1. Len(f) = 8 + Len(body) /\ Len(body) \in Nat
    BY <1>1, Zenon
  <2> QED
    BY <2>1, SMT DEF M3ua!kCommonHeaderSize, M3ua!kMaxM3uaMessageSize
<1>3. M3ua!decode(f) = M3ua!decodeTlvs(M3ua!Message(class, type), body)
  <2>1. M3ua!Left(f, M3ua!kCommonHeaderSize) = body
    BY <1>1, <1>2, M3uaOctets, Zenon
  <2> QED
    BY <1>1, <2>1, Zenon DEF M3ua!decode
<1>4. M3ua!next(f \o rest) = {[buf |-> rest, msg |-> <<m>>] : m \in M3ua!decode(f)}
  <2>1. PICK s \in Seq(Octet) : s = f \o rest
    BY ConcatProperties
  <2>2. /\ Len(s) = Len(f) + Len(rest) /\ Len(rest) \in Nat
        /\ Left(s, Len(f)) = rest /\ Taken(s, Len(f)) = f
        /\ \A m \in 1 .. Len(f) + 1, k \in 0 .. Len(f) :
             m <= k + 1 => SubSeq(s, m, k) = SubSeq(f, m, k)
    BY <2>1, FrameAndRest
  <2>3. 5 \in 1 .. Len(f) + 1 /\ 8 \in 0 .. Len(f) /\ 5 <= 8 + 1
    BY <1>2, SMT
  <2>4. SubSeq(s, 5, 8) = SubSeq(f, 5, 8)
    BY <2>2, <2>3, Zenon
  <2>5. Len(f) = ValueBE(SubSeq(s, 5, 8))
    BY <1>1, <2>4, Zenon
  <2>6. ~(Len(s) < M3ua!kCommonHeaderSize) /\ ~(Len(s) < Len(f))
    BY <1>2, <2>2, SMT
  <2>7. M3ua!next(s) = {[buf |-> Left(s, Len(f)), msg |-> <<m>>] :
                          m \in M3ua!decode(Taken(s, Len(f)))}
    BY <1>2, <2>5, <2>6, M3uaNextBranches, Zenon
  <2> QED
    BY <2>1, <2>2, <2>7, Zenon
<1>5. ASSUME NEW k \in 0 .. Len(f) - 1
      PROVE  M3ua!next(Taken(f, k)) = {[buf |-> Taken(f, k), msg |-> <<>>]}
  <2>0. k \in Nat /\ k \in 0 .. Len(f) /\ k < Len(f)
    BY <1>2, SMT
  <2>1. PICK t \in Seq(Octet) : t = Taken(f, k) /\ Len(t) = k
    BY <2>0, TakenAndLeft, Zenon
  <2>2. CASE k < 8
    <3>1. Len(t) < M3ua!kCommonHeaderSize
      BY <1>2, <2>1, <2>2, Zenon
    <3> QED
      BY <2>1, <3>1, M3uaNextBranches, Zenon
  <2>3. CASE ~(k < 8)
    <3>1. 5 \in 1 .. k + 1 /\ 8 \in 0 .. k /\ 5 <= 8 + 1
      BY <2>0, <2>3, SMT
    <3>2. SubSeq(t, 5, 8) = SubSeq(f, 5, 8)
      BY <2>0, <2>1, <3>1, PieceOfTaken, Zenon
    <3>3. Len(f) = ValueBE(SubSeq(t, 5, 8))
      BY <1>1, <3>2, Zenon
    <3>4. ~(Len(t) < M3ua!kCommonHeaderSize) /\ Len(t) < Len(f)
      BY <1>2, <2>0, <2>1, <2>3, SMT
    <3> QED
      BY <1>2, <2>1, <3>3, <3>4, M3uaNextBranches, Zenon
  <2> QED
    BY <2>2, <2>3
<1> QED
  BY <1>1, <1>3, <1>4, <1>5, Zenon

(* M3uaDecoder::next on any buffer.  It takes a piece off the front of the  *)
(* buffer and leaves the rest as it is.  When it returns a message, the     *)
(* piece is at least a header long and the message is what decode() makes   *)
(* of it; when it returns none, the piece is empty, or is the fewer than    *)
(* eight octets a length below the header's claims.  So the loop over       *)
(* next() that reads a segment ends.                                        *)
THEOREM M3uaProgress ==
  ASSUME NEW buf \in Seq(Octet), NEW r \in M3ua!next(buf)
  PROVE  \E f \in Seq(Octet) :
           /\ buf = f \o r.buf /\ r.buf \in Seq(Octet)
           /\ Len(buf) = Len(f) + Len(r.buf)
           /\ \/ r.msg = <<>> /\ Len(f) < M3ua!kCommonHeaderSize
                 /\ (Len(f) > 0 => Len(f) = ValueBE(SubSeq(buf, 5, 8)))
              \/ /\ Len(f) >= M3ua!kCommonHeaderSize
                 /\ \E m \in M3ua!decode(f) : r.msg = <<m>>
<1>0. Len(buf) \in Nat
  BY LenProperties
<1>1. PICK n : n = ValueBE(SubSeq(buf, 5, 8))
  BY Zenon
<1>2. M3ua!kCommonHeaderSize = 8
  BY SMT DEF M3ua!kCommonHeaderSize
<1>3. CASE \/ Len(buf) < M3ua!kCommonHeaderSize
           \/ /\ ~(Len(buf) < M3ua!kCommonHeaderSize)
              /\ ~(n > M3ua!kMaxM3uaMessageSize) /\ Len(buf) < n
  <2>1. M3ua!next(buf) = {[buf |-> buf, msg |-> <<>>]}
    BY <1>1, <1>3, M3uaNextBranches, Zenon
  <2>2. r.buf = buf /\ r.msg = <<>>
    BY <2>1
  <2>3. PICK e \in Seq(Octet) : e = <<>> /\ Len(e) = 0
    BY EmptySeq
  <2>4. buf = e \o buf /\ Len(buf) = Len(e) + Len(buf)
    BY <1>0, <2>3, ConcatEmptySeq
  <2>5. Len(e) < M3ua!kCommonHeaderSize /\ ~(Len(e) > 0)
    BY <1>2, <2>3, SMT
  <2> QED
    BY <2>2, <2>4, <2>5, Zenon
<1>4. CASE /\ ~(Len(buf) < M3ua!kCommonHeaderSize)
           /\ n > M3ua!kMaxM3uaMessageSize
  <2>1. M3ua!next(buf) = {}
    BY <1>1, <1>4, M3uaNextBranches, Zenon
  <2> QED
    BY <2>1
<1>5. CASE /\ ~(Len(buf) < M3ua!kCommonHeaderSize)
           /\ ~(n > M3ua!kMaxM3uaMessageSize) /\ ~(Len(buf) < n)
  <2>1. n \in Nat /\ n \in 0 .. Len(buf)
    <3>1. PICK p : IsPiece(p, buf, 5, 8)
      <4>1. /\ 5 \in Nat \ {0} /\ 8 \in Nat /\ 5 <= 8 + 1 /\ 8 <= Len(buf)
        BY <1>0, <1>2, <1>5, SMT
      <4> QED
        BY <4>1, Piece, Zenon
    <3>2. p \in Seq(Octet) /\ p = SubSeq(buf, 5, 8) /\ Len(p) = 4
      BY <3>1 DEF IsPiece
    <3>3. n \in Nat
      BY <1>1, <3>2, LengthOfFour, Zenon
    <3> QED
      BY <1>0, <1>5, <3>3, SMT
  <2>2. PICK t \in Seq(Octet), u \in Seq(Octet) :
          /\ t = Taken(buf, n) /\ Len(t) = n /\ u = Left(buf, n)
          /\ Len(u) = Len(buf) - n /\ buf = t \o u
    BY <2>1, TakenAndLeft, Zenon
  <2>3. Len(buf) = Len(t) + Len(u)
    BY <1>0, <2>1, <2>2, SMT
  <2>4. CASE n < M3ua!kCommonHeaderSize
    <3>1. M3ua!next(buf) = {[buf |-> u, msg |-> <<>>]}
      BY <1>1, <1>5, <2>2, <2>4, M3uaNextBranches, Zenon
    <3>2. r.buf = u /\ r.msg = <<>>
      BY <3>1
    <3> QED
      BY <1>1, <2>2, <2>3, <2>4, <3>2, Zenon
  <2>5. CASE ~(n < M3ua!kCommonHeaderSize)
    <3>0. M3ua!next(buf) = {[buf |-> Left(buf, n), msg |-> <<m>>] :
                              m \in M3ua!decode(Taken(buf, n))}
      <4>1. (/\ ~(Len(buf) < M3ua!kCommonHeaderSize)
             /\ ~(n > M3ua!kMaxM3uaMessageSize) /\ ~(Len(buf) < n)
             /\ ~(n < M3ua!kCommonHeaderSize)) =>
              M3ua!next(buf) = {[buf |-> Left(buf, n), msg |-> <<m>>] :
                                  m \in M3ua!decode(Taken(buf, n))}
        BY <1>1, M3uaNextBranches
      <4> QED
        BY <1>5, <2>5, <4>1, Zenon
    <3>1. M3ua!next(buf) = {[buf |-> u, msg |-> <<m>>] : m \in M3ua!decode(t)}
      <4>1. u = Left(buf, n) /\ t = Taken(buf, n)
        BY <2>2, Zenon
      <4> QED
        BY <3>0, <4>1, Zenon
    <3>2. PICK m \in M3ua!decode(t) : r = [buf |-> u, msg |-> <<m>>]
      BY <3>1, Zenon
    <3>3. r.buf = u /\ r.msg = <<m>>
      BY <3>2
    <3>4. Len(t) >= M3ua!kCommonHeaderSize
      BY <1>2, <2>1, <2>2, <2>5, SMT
    <3> QED
      BY <2>2, <2>3, <3>3, <3>4, Zenon
  <2> QED
    BY <2>4, <2>5
<1> QED
  BY <1>3, <1>4, <1>5, Zenon

LEMMA Joined ==
  ASSUME NEW p \in Seq(Octet), NEW q \in Seq(Octet)
  PROVE  \E s \in Seq(Octet) :
           /\ s = p \o q /\ Len(p) \in Nat /\ Len(q) \in Nat
           /\ Len(s) = Len(p) + Len(q)
           /\ \A i \in 1 .. Len(p) : s[i] = p[i]
           /\ \A i \in 1 .. Len(q) : s[Len(p) + i] = q[i]
           /\ Left(s, Len(p)) = q
<1>1. Len(p) \in Nat /\ Len(q) \in Nat
  BY LenProperties
<1>2. PICK s \in Seq(Octet) : s = p \o q
  BY FrameAndRest
<1>3. /\ Len(s) = Len(p) + Len(q)
      /\ \A i \in 1 .. Len(p) : s[i] = p[i]
      /\ \A i \in 1 .. Len(q) : s[Len(p) + i] = q[i]
  BY <1>1, <1>2, ConcatProperties
<1>4. Left(s, Len(p)) = q
  BY <1>2, FrameAndRest
<1> QED
  BY <1>1, <1>2, <1>3, <1>4

LEMMA Window ==
  ASSUME NEW s \in Seq(Octet), NEW q \in Seq(Octet), NEW m \in Nat,
         m + Len(q) <= Len(s), \A i \in 1 .. Len(q) : s[m + i] = q[i]
  PROVE  SubSeq(s, m + 1, m + Len(q)) = q
<1>1. Len(s) \in Nat /\ Len(q) \in Nat
  BY LenProperties
<1>2. PICK p : IsPiece(p, s, m + 1, m + Len(q))
  <2>1. m + 1 \in Nat \ {0} /\ m + Len(q) \in Nat /\ m + 1 <= m + Len(q) + 1
    BY <1>1
  <2> QED
    BY <2>1, Piece
<1>3. p \in Seq(Octet) /\ Len(p) = Len(q)
  BY <1>1, <1>2 DEF IsPiece
<1>4. ASSUME NEW i \in 1 .. Len(p) PROVE p[i] = q[i]
  <2>1. p[i] = s[(m + 1) + i - 1] /\ (m + 1) + i - 1 = m + i
    BY <1>2 DEF IsPiece
  <2>2. s[m + i] = q[i]
    BY <1>3
  <2> QED
    BY <2>1, <2>2
<1>5. p = q
  BY <1>3, <1>4, SeqEqual
<1> QED
  BY <1>2, <1>5 DEF IsPiece

IsFive(s, a, b, c, d, e) ==
    /\ s \in Seq(Octet) /\ s = <<a>> \o <<b>> \o <<c, d, e>> /\ Len(s) = 5
    /\ s[1] = a /\ s[2] = b /\ s[3] = c /\ s[4] = d /\ s[5] = e

LEMMA Five ==
  ASSUME NEW a \in Octet, NEW b \in Octet, NEW c \in Octet, NEW d \in Octet,
         NEW e \in Octet
  PROVE  \E s : IsFive(s, a, b, c, d, e)
<1>1. /\ <<a>> \in Seq(Octet) /\ <<b>> \in Seq(Octet) /\ <<a, b>> \in Seq(Octet)
      /\ <<c, d, e>> \in Seq(Octet) /\ <<a, b, c, d, e>> \in Seq(Octet)
  OBVIOUS
<1>2. PICK r, t, u, v, s : /\ r = <<a>> /\ t = <<b>> /\ u = <<a, b>>
                           /\ v = <<c, d, e>> /\ s = <<a, b, c, d, e>>
  OBVIOUS
<1>3. /\ r \in Seq(Octet) /\ Len(r) = 1 /\ r[1] = a
      /\ t \in Seq(Octet) /\ Len(t) = 1 /\ t[1] = b
      /\ u \in Seq(Octet) /\ Len(u) = 2 /\ u[1] = a /\ u[2] = b
  BY <1>1, <1>2
<1>4. /\ v \in Seq(Octet) /\ Len(v) = 3 /\ v[1] = c /\ v[2] = d /\ v[3] = e
      /\ s \in Seq(Octet) /\ Len(s) = 5
      /\ s[1] = a /\ s[2] = b /\ s[3] = c /\ s[4] = d /\ s[5] = e
  BY <1>1, <1>2
<1>5. r \o t = u
  <2>1. PICK w \in Seq(Octet) :
           /\ w = r \o t /\ Len(r) \in Nat /\ Len(t) \in Nat
           /\ Len(w) = Len(r) + Len(t)
           /\ \A i \in 1 .. Len(r) : w[i] = r[i]
           /\ \A i \in 1 .. Len(t) : w[Len(r) + i] = t[i]
           /\ Left(w, Len(r)) = t
    BY <1>3, Joined
  <2>2. Len(w) = 2 /\ w[1] = a /\ w[1 + 1] = b
    BY <1>3, <2>1
  <2>3. \A i \in 1 .. 2 : i = 1 \/ i = 2
    OBVIOUS
  <2>4. \A i \in 1 .. 2 : w[i] = u[i]
    BY <1>3, <2>2, <2>3
  <2>5. w = u
    BY <1>3, <2>2, <2>4, SeqEqual
  <2> QED
    BY <2>1, <2>5
<1>6. u \o v = s
  <2>1. PICK w \in Seq(Octet) :
           /\ w = u \o v /\ Len(u) \in Nat /\ Len(v) \in Nat
           /\ Len(w) = Len(u) + Len(v)
           /\ \A i \in 1 .. Len(u) : w[i] = u[i]
           /\ \A i \in 1 .. Len(v) : w[Len(u) + i] = v[i]
           /\ Left(w, Len(u)) = v
    BY <1>3, <1>4, Joined
  <2>2. Len(w) = 5 /\ w[1] = a /\ w[2] = b
    BY <1>3, <1>4, <2>1
  <2>3. w[2 + 1] = c /\ w[2 + 2] = d /\ w[2 + 3] = e
    BY <1>3, <1>4, <2>1
  <2>4. \A i \in 1 .. 5 : w[i] = s[i]
    <3>1. w[3] = c /\ w[4] = d /\ w[5] = e
      BY <2>3
    <3>2. \A i \in 1 .. 5 : i = 1 \/ i = 2 \/ i = 3 \/ i = 4 \/ i = 5
      OBVIOUS
    <3> QED
      BY <1>4, <2>2, <3>1, <3>2
  <2>5. w = s
    BY <1>4, <2>2, <2>4, SeqEqual
  <2> QED
    BY <2>1, <2>5
<1>7. s = <<a>> \o <<b>> \o <<c, d, e>>
  BY <1>2, <1>5, <1>6, Zenon
<1> QED
  BY <1>4, <1>7, Zenon DEF IsFive

-----------------------------------------------------------------------------
(* SCCP addresses: a global title survives the wire digit for digit.        *)

Digits == 0 .. 9

LEMMA SccpOctets ==
  /\ \A a, b : Sccp!bitOr(a, b) = bitOr(a, b)
  /\ \A a, b : Sccp!bitAnd(a, b) = bitAnd(a, b)
  /\ \A s, n : Sccp!Left(s, n) = Left(s, n)
<1>1. \A a, b : Sccp!bitOr(a, b) = bitOr(a, b)
  BY Zenon DEF Sccp!bitOr, bitOr
<1>2. \A a, b : Sccp!bitAnd(a, b) = bitAnd(a, b)
  BY Zenon DEF Sccp!bitAnd, bitAnd
<1>3. \A s, n : Sccp!Left(s, n) = Left(s, n)
  BY Zenon DEF Sccp!Left, Left
<1> QED
  BY <1>1, <1>2, <1>3

LEMMA OrOfHalves ==
  ASSUME NEW hi \in 0 .. 15, NEW lo \in 0 .. 15
  PROVE  bitOr(hi * 16, lo) = hi * 16 + lo
<1>1. PICK a \in 0 .. 1, b \in 0 .. 1, c \in 0 .. 1, d \in 0 .. 1 :
        hi = a + 2 * b + 4 * c + 8 * d
  OBVIOUS
<1>2. PICK e \in 0 .. 1, f \in 0 .. 1, g \in 0 .. 1, h \in 0 .. 1 :
        lo = e + 2 * f + 4 * g + 8 * h
  OBVIOUS
<1> QED
  BY <1>1, <1>2 DEF bitOr

LEMMA Halves ==
  ASSUME NEW hi \in 0 .. 15, NEW lo \in 0 .. 15
  PROVE  /\ hi * 16 + lo \in Octet
         /\ (hi * 16 + lo) % 16 = lo /\ (hi * 16 + lo) \div 16 = hi
<1>1. hi \in Int /\ lo \in Int /\ 0 <= hi /\ hi <= 15 /\ 0 <= lo /\ lo <= 15
  OBVIOUS
<1>2. PICK n \in Int : n = hi * 16 + lo
  BY <1>1
<1>3. n \in Octet
  BY <1>1, <1>2 DEF Octet
<1>4. n % 16 = lo /\ n \div 16 = hi
  BY <1>1, <1>2
<1> QED
  BY <1>2, <1>3, <1>4

LEMMA Pairs ==
  ASSUME NEW n \in Nat, NEW k, k = (n + 1) \div 2
  PROVE  /\ k \in Nat
         /\ n % 2 = 1 => 2 * k - 1 = n /\ k # 0
         /\ n % 2 # 1 => 2 * k = n
         /\ \A i \in 1 .. k : 2 * i - 1 \in 1 .. n
         /\ \A i \in 1 .. n : i % 2 = 1 =>
              /\ (i + 1) \div 2 \in 1 .. k
              /\ 2 * ((i + 1) \div 2) - 1 = i /\ 2 * ((i + 1) \div 2) = i + 1
         /\ \A i \in 1 .. n : i % 2 # 1 =>
              /\ i \div 2 \in 1 .. k /\ i - 1 \in 1 .. n
              /\ 2 * (i \div 2) = i /\ 2 * (i \div 2) - 1 = i - 1
<1>1. k \in Nat /\ (n + 1 = 2 * k \/ n + 1 = 2 * k + 1)
  OBVIOUS
<1>2. ASSUME NEW i \in 1 .. n, i % 2 = 1
      PROVE  /\ (i + 1) \div 2 \in 1 .. k
             /\ 2 * ((i + 1) \div 2) - 1 = i /\ 2 * ((i + 1) \div 2) = i + 1
  <2>1. PICK j \in Int : i = 2 * j - 1
    BY <1>2
  <2>2. (i + 1) \div 2 = j
    BY <2>1
  <2> QED
    BY <1>1, <2>1, <2>2
<1>3. ASSUME NEW i \in 1 .. n, i % 2 # 1
      PROVE  /\ i \div 2 \in 1 .. k /\ i - 1 \in 1 .. n
             /\ 2 * (i \div 2) = i /\ 2 * (i \div 2) - 1 = i - 1
  <2>1. PICK j \in Int : i = 2 * j
    BY <1>3
  <2>2. i \div 2 = j
    BY <2>1
  <2> QED
    BY <1>1, <2>1, <2>2
<1>4. n % 2 = 1 => 2 * k - 1 = n /\ k # 0
  BY <1>1
<1>5. n % 2 # 1 => 2 * k = n
  BY <1>1
<1> QED
  BY <1>1, <1>2, <1>3, <1>4, <1>5

(* The octets of digits: two halves each, filler behind an odd number.      *)
Half(digits, i) == IF i <= Len(digits) THEN digits[i] ELSE 15

LEMMA Packed ==
  ASSUME NEW digits \in Seq(Digits)
  PROVE  \E p \in Seq(Octet) :
           /\ p = Sccp!packBcd(digits)
           /\ Len(digits) \in Nat /\ Len(p) = (Len(digits) + 1) \div 2
           /\ \A i \in 1 .. Len(p) :
                p[i] = Half(digits, 2 * i) * 16 + Half(digits, 2 * i - 1)
<1> DEFINE n == Len(digits)
           k == (n + 1) \div 2
           v(i) == Half(digits, 2 * i) * 16 + Half(digits, 2 * i - 1)
<1>0. n \in Nat /\ \A i \in 1 .. n : digits[i] \in Digits
  BY LenProperties, ElementOfSeq
<1>1. k \in Nat /\ \A i \in 1 .. k : 2 * i - 1 \in 1 .. n
  BY <1>0, Pairs
<1>2. ASSUME NEW i \in 1 .. k
      PROVE  LET lo == digits[2 * i - 1] % 256
                 hi == IF 2 * i <= Len(digits) THEN digits[2 * i] % 16 ELSE 15
             IN  bitOr(hi * 16, lo) = v(i) /\ v(i) \in Octet
  <2>1. digits[2 * i - 1] \in Digits /\ Half(digits, 2 * i - 1) = digits[2 * i - 1]
    BY <1>0, <1>1 DEF Half
  <2>2. digits[2 * i - 1] % 256 = digits[2 * i - 1]
    BY <2>1 DEF Digits
  <2> DEFINE hi == IF 2 * i <= Len(digits) THEN digits[2 * i] % 16 ELSE 15
  <2>3. hi \in 0 .. 15 /\ hi = Half(digits, 2 * i)
    <3>1. CASE 2 * i <= n
      <4>1. digits[2 * i] \in Digits
        BY <1>0, <1>1, <3>1
      <4> QED
        BY <3>1, <4>1 DEF Half, Digits
    <3>2. CASE ~(2 * i <= n)
      BY <3>2 DEF Half
    <3> QED
      BY <3>1, <3>2
  <2> HIDE DEF hi
  <2>4. digits[2 * i - 1] \in 0 .. 15
    BY <2>1 DEF Digits
  <2>5. bitOr(hi * 16, digits[2 * i - 1]) = hi * 16 + digits[2 * i - 1]
    BY <2>3, <2>4, OrOfHalves
  <2>6. hi * 16 + digits[2 * i - 1] \in Octet
    BY <2>3, <2>4, Halves
  <2> QED
    BY <2>1, <2>2, <2>3, <2>5, <2>6 DEF hi
<1> DEFINE p == [i \in 1 .. k |-> v(i)]
<1>3. p = Sccp!packBcd(digits)
  BY <1>2, SccpOctets DEF Sccp!packBcd
<1>4. p \in Seq(Octet) /\ Len(p) = k /\ \A i \in 1 .. k : p[i] = v(i)
  <2> HIDE DEF v
  <2>1. \A i \in 1 .. k : v(i) \in Octet
    BY <1>2
  <2>2. p \in [1 .. k -> Octet]
    BY <2>1
  <2>3. p \in Seq(Octet)
    BY <1>1, <2>2, SeqDef
  <2> QED
    BY <1>1, <2>2, <2>3, LenProperties
<1> QED
  BY <1>0, <1>3, <1>4

LEMMA Unpacked ==
  ASSUME NEW digits \in Seq(Digits)
  PROVE  Sccp!unpackBcd(Sccp!packBcd(digits), Len(digits) % 2 = 1) = digits
<1>1. PICK p \in Seq(Octet) :
           /\ p = Sccp!packBcd(digits)
           /\ Len(digits) \in Nat /\ Len(p) = (Len(digits) + 1) \div 2
           /\ \A i \in 1 .. Len(p) :
                p[i] = Half(digits, 2 * i) * 16 + Half(digits, 2 * i - 1)
  BY Packed
<1> DEFINE n == Len(digits)
<1>2. \A i \in 1 .. n : digits[i] \in Digits
  BY ElementOfSeq
<1>3. 2 * Len(p) - (IF n % 2 = 1 /\ p # <<>> THEN 1 ELSE 0) = n
  <2>1. CASE n % 2 = 1
    <3>1. Len(p) # 0 /\ 2 * Len(p) - 1 = n
      BY <1>1, <2>1, Pairs
    <3>2. p # <<>>
      BY <3>1, EmptySeq
    <3> QED
      BY <2>1, <3>1, <3>2
  <2>2. CASE n % 2 # 1
    <3>1. 2 * Len(p) = n
      BY <1>1, <2>2, Pairs
    <3> QED
      BY <1>1, <2>2, <3>1
  <2> QED
    BY <2>1, <2>2
<1>4. ASSUME NEW i \in 1 .. n
      PROVE  (IF i % 2 = 1 THEN p[(i + 1) \div 2] % 16 ELSE p[i \div 2] \div 16)
               = digits[i]
  <2>1. digits[i] \in 0 .. 9
    BY <1>2 DEF Digits
  <2>2. CASE i % 2 = 1
    <3> DEFINE j == (i + 1) \div 2
    <3>1. j \in 1 .. Len(p) /\ 2 * j - 1 = i /\ 2 * j = i + 1
      BY <1>1, <2>2, Pairs
    <3>2. p[j] = Half(digits, i + 1) * 16 + Half(digits, i)
      BY <1>1, <3>1
    <3>3. Half(digits, i) = digits[i]
      BY <1>1 DEF Half
    <3>4. Half(digits, i + 1) \in 0 .. 15
      BY <1>1, <1>2 DEF Half, Digits
    <3>5. (Half(digits, i + 1) * 16 + digits[i]) % 16 = digits[i]
      <4>1. digits[i] \in 0 .. 15
        BY <2>1
      <4> QED
        BY <3>4, <4>1, Halves
    <3> QED
      BY <2>2, <3>2, <3>3, <3>5
  <2>3. CASE i % 2 # 1
    <3> DEFINE j == i \div 2
    <3>1. j \in 1 .. Len(p) /\ 2 * j = i /\ 2 * j - 1 = i - 1 /\ i - 1 \in 1 .. n
      BY <1>1, <2>3, Pairs
    <3>2. p[j] = Half(digits, i) * 16 + Half(digits, i - 1)
      BY <1>1, <3>1
    <3>3. Half(digits, i) = digits[i] /\ Half(digits, i - 1) = digits[i - 1]
      BY <1>1, <3>1 DEF Half
    <3>4. digits[i - 1] \in 0 .. 9
      BY <1>2, <3>1 DEF Digits
    <3>5. (digits[i] * 16 + digits[i - 1]) \div 16 = digits[i]
      <4>1. digits[i] \in 0 .. 15 /\ digits[i - 1] \in 0 .. 15
        BY <2>1, <3>4
      <4> QED
        BY <4>1, Halves
    <3> QED
      BY <2>3, <3>2, <3>3, <3>5
  <2> QED
    BY <2>2, <2>3
<1>5. digits = [i \in 1 .. n |-> digits[i]]
  BY LenProperties
<1>6. Sccp!unpackBcd(p, n % 2 = 1) =
        [i \in 1 .. n |-> IF i % 2 = 1 THEN p[(i + 1) \div 2] % 16
                          ELSE p[i \div 2] \div 16]
  BY <1>3 DEF Sccp!unpackBcd
<1>7. Sccp!unpackBcd(p, n % 2 = 1) = [i \in 1 .. n |-> digits[i]]
  BY <1>4, <1>6
<1> QED
  BY <1>1, <1>5, <1>7

OddOf(digits) == Len(digits) % 2 = 1

LEMMA GtAddress ==
  ASSUME NEW digits, NEW ssn
  PROVE  Sccp!makeGtAddress(digits, ssn) =
           [routeByGt |-> TRUE, digits |-> digits, tt |-> 0, np |-> 16, nai |-> 4,
            ssn |-> <<ssn>>, pc |-> <<>>]
<1>1. PICK t, e, f : t = TRUE /\ e = <<>> /\ f = <<ssn>>
  OBVIOUS
<1>2. PICK a : a = [routeByGt |-> t, digits |-> e, tt |-> 0, np |-> 16, nai |-> 4,
                    ssn |-> e, pc |-> e]
  OBVIOUS
<1>3. a = Sccp!SccpAddress
  BY <1>1, <1>2, Zenon DEF Sccp!SccpAddress, Sccp!kTtInternational,
     Sccp!kNpIsdnTelephony, Sccp!kNaiInternational
<1>4. PICK b : b = [a EXCEPT !.digits = digits]
  OBVIOUS
<1>5. b = [routeByGt |-> t, digits |-> digits, tt |-> 0, np |-> 16, nai |-> 4,
           ssn |-> e, pc |-> e]
  BY <1>2, <1>4, SMT
<1>6. [b EXCEPT !.ssn = f] =
        [routeByGt |-> t, digits |-> digits, tt |-> 0, np |-> 16, nai |-> 4,
         ssn |-> f, pc |-> e]
  BY <1>5, SMT
<1>7. Sccp!makeGtAddress(digits, ssn) = [b EXCEPT !.ssn = f]
  BY <1>1, <1>3, <1>4, Zenon DEF Sccp!makeGtAddress
<1> QED
  BY <1>1, <1>6, <1>7, Zenon

LEMMA AddressBits ==
  /\ bitOr(64, 8) = 72 /\ bitOr(16, 1) = 17 /\ bitOr(16, 2) = 18
  /\ bitOr(4, 0) = 4 /\ bitOr(4, 128) = 132
  /\ bitAnd(72, 112) = 64 /\ bitAnd(72, 8) = 8 /\ bitAnd(72, 128) = 0
  /\ bitAnd(17, 240) = 16 /\ bitAnd(18, 240) = 16
  /\ bitAnd(4, 127) = 4 /\ bitAnd(132, 127) = 4
BY DEF bitOr, bitAnd

LEMMA AddressOctets ==
  ASSUME NEW digits \in Seq(Digits), NEW ssn \in Octet
  PROVE  \E s \in Seq(Octet) :
           /\ s = Sccp!encodeAddress(Sccp!makeGtAddress(digits, ssn))
           /\ Len(digits) \in Nat
           /\ Len(s) = 5 + ((Len(digits) + 1) \div 2)
           /\ s[1] = 72 /\ s[2] = ssn /\ s[3] = 0
           /\ s[4] = (IF OddOf(digits) THEN 17 ELSE 18)
           /\ s[5] = (IF OddOf(digits) THEN 132 ELSE 4)
           /\ Left(s, 5) = Sccp!packBcd(digits)
<1>0. PICK a : a = Sccp!makeGtAddress(digits, ssn)
  OBVIOUS
<1>a. PICK es \in Octet, fl \in Octet :
        /\ es = (IF OddOf(digits) THEN 17 ELSE 18)
        /\ fl = (IF OddOf(digits) THEN 132 ELSE 4)
  <2>1. /\ (IF OddOf(digits) THEN 17 ELSE 18) \in Octet
        /\ (IF OddOf(digits) THEN 132 ELSE 4) \in Octet
    BY DEF Octet
  <2> QED
    BY <2>1, Zenon
<1>1. /\ a.routeByGt /\ a.digits = digits /\ a.ssn = <<ssn>>
      /\ a.tt = 0 /\ a.np = 16 /\ a.nai = 4
  BY <1>0, GtAddress
<1>2. PICK p \in Seq(Octet) :
           /\ p = Sccp!packBcd(digits)
           /\ Len(digits) \in Nat /\ Len(p) = (Len(digits) + 1) \div 2
           /\ \A i \in 1 .. Len(p) :
                p[i] = Half(digits, 2 * i) * 16 + Half(digits, 2 * i - 1)
  BY Packed
<1>3. PICK h \in Seq(Octet) :
        /\ h = <<72>> \o <<ssn>> \o <<0, es, fl>>
        /\ Len(h) = 5
        /\ h[1] = 72 /\ h[2] = ssn /\ h[3] = 0 /\ h[4] = es /\ h[5] = fl
  <2>1. 72 \in Octet /\ 0 \in Octet
    BY DEF Octet
  <2>2. PICK x \in Octet : x = 72
    BY <2>1, Zenon
  <2>3. PICK z \in Octet : z = 0
    BY <2>1, Zenon
  <2>4. PICK h : IsFive(h, x, ssn, z, es, fl)
    BY Five, Zenon
  <2> QED
    BY <2>2, <2>3, <2>4, Zenon DEF IsFive
<1>4. Sccp!oddFlag(digits) = (IF OddOf(digits) THEN 128 ELSE 0)
  BY DEF Sccp!oddFlag, OddOf
<1>5. /\ Sccp!bitOr(a.np, IF Sccp!oddFlag(a.digits) = 0 THEN Sccp!kEsBcdEven
                          ELSE Sccp!kEsBcdOdd) = es
      /\ Sccp!bitOr(a.nai, Sccp!oddFlag(a.digits)) = fl
  BY <1>a, <1>1, <1>4, SccpOctets, AddressBits DEF Sccp!kEsBcdEven, Sccp!kEsBcdOdd
<1>6. a.ssn # <<>>
  BY <1>1
<1>7. Sccp!bitOr(Sccp!kGtiTtNpEsNai, IF a.ssn = <<>> THEN 0 ELSE Sccp!kAiSsnPresent)
        = 72
  BY <1>6, SccpOctets, AddressBits DEF Sccp!kGtiTtNpEsNai, Sccp!kAiSsnPresent
<1>8. Sccp!encodeAddress(a) = <<72>> \o <<ssn>> \o <<0, es, fl>> \o p
  <2>1. Sccp!encodeAddress(a) =
          <<Sccp!bitOr(Sccp!kGtiTtNpEsNai,
                       IF a.ssn = <<>> THEN 0 ELSE Sccp!kAiSsnPresent)>> \o a.ssn
          \o <<a.tt, Sccp!bitOr(a.np, IF Sccp!oddFlag(a.digits) = 0
                                       THEN Sccp!kEsBcdEven ELSE Sccp!kEsBcdOdd),
               Sccp!bitOr(a.nai, Sccp!oddFlag(a.digits))>>
          \o Sccp!packBcd(a.digits)
    BY <1>1, Zenon DEF Sccp!encodeAddress
  <2> QED
    BY <1>1, <1>2, <1>5, <1>7, <2>1
<1>10. Sccp!encodeAddress(a) = h \o p
  BY <1>3, <1>8, Zenon
<1>12. PICK s \in Seq(Octet) :
           /\ s = h \o p /\ Len(h) \in Nat /\ Len(p) \in Nat
           /\ Len(s) = Len(h) + Len(p)
           /\ \A i \in 1 .. Len(h) : s[i] = h[i]
           /\ \A i \in 1 .. Len(p) : s[Len(h) + i] = p[i]
           /\ Left(s, Len(h)) = p
  BY Joined
<1>13. Len(s) = 5 + Len(p) /\ Left(s, 5) = p /\ \A i \in 1 .. 5 : s[i] = h[i]
  BY <1>3, <1>12
<1>14. s[1] = 72 /\ s[2] = ssn /\ s[3] = 0 /\ s[4] = es /\ s[5] = fl
  BY <1>3, <1>13
<1> QED
  BY <1>0, <1>a, <1>2, <1>10, <1>12, <1>13, <1>14

(* A global title comes back from the wire digit for digit, whatever its    *)
(* length: decodeAddress reads what encodeAddress writes, the parity of the *)
(* number of digits included.                                               *)
THEOREM AddressRoundTrip ==
  ASSUME NEW digits \in Seq(Digits), NEW ssn \in Octet
  PROVE  Sccp!decodeAddress(Sccp!encodeAddress(Sccp!makeGtAddress(digits, ssn)))
           = {Sccp!makeGtAddress(digits, ssn)}
<1>1. PICK s \in Seq(Octet) :
           /\ s = Sccp!encodeAddress(Sccp!makeGtAddress(digits, ssn))
           /\ Len(digits) \in Nat
           /\ Len(s) = 5 + ((Len(digits) + 1) \div 2)
           /\ s[1] = 72 /\ s[2] = ssn /\ s[3] = 0
           /\ s[4] = (IF OddOf(digits) THEN 17 ELSE 18)
           /\ s[5] = (IF OddOf(digits) THEN 132 ELSE 4)
           /\ Left(s, 5) = Sccp!packBcd(digits)
  BY AddressOctets
<1>2. Len(s) \in Nat /\ Len(s) >= 5
  BY <1>1, Pairs
<1>3. PICK g : IsPiece(g, s, 3, Len(s))
  BY <1>2, Piece
<1>4. /\ g \in Seq(Octet) /\ g = Left(s, 2) /\ Len(g) = Len(s) - 2
      /\ g[1] = s[3] /\ g[2] = s[4] /\ g[3] = s[5]
  <2>1. /\ g \in Seq(Octet) /\ g = SubSeq(s, 3, Len(s)) /\ Len(g) = Len(s) - 2
        /\ \A i \in 1 .. Len(g) : g[i] = s[3 + i - 1]
    BY <1>2, <1>3 DEF IsPiece
  <2>2. 1 \in 1 .. Len(g) /\ 2 \in 1 .. Len(g) /\ 3 \in 1 .. Len(g)
    BY <1>2, <2>1
  <2> QED
    BY <1>2, <2>1, <2>2 DEF Left
<1>5. Left(g, 3) = Sccp!packBcd(digits)
  <2>1. PICK q : IsPiece(q, g, 4, Len(g))
    BY <1>2, <1>4, Piece
  <2>2. PICK r : IsPiece(r, s, 6, Len(s))
    BY <1>2, Piece
  <2>3. q \in Seq(Octet) /\ r \in Seq(Octet) /\ Len(q) = Len(r)
        /\ Len(r) = Len(s) - 5
    BY <1>2, <1>4, <2>1, <2>2 DEF IsPiece
  <2>4. ASSUME NEW i \in 1 .. Len(q) PROVE q[i] = r[i]
    <3>1. q[i] = g[4 + i - 1] /\ r[i] = s[6 + i - 1]
      BY <2>1, <2>2, <2>3, <2>4 DEF IsPiece
    <3>2. 4 + i - 1 \in 1 .. Len(g) /\ 3 + (4 + i - 1) - 1 = 6 + i - 1
      BY <1>2, <1>4, <2>3, <2>4
    <3>3. g[4 + i - 1] = s[3 + (4 + i - 1) - 1]
      BY <1>3, <3>2 DEF IsPiece
    <3> QED
      BY <3>1, <3>2, <3>3
  <2>5. q = r
    BY <2>3, <2>4, SeqEqual
  <2>6. q = Left(g, 3) /\ r = Left(s, 5)
    BY <2>1, <2>2 DEF IsPiece, Left
  <2> QED
    BY <1>1, <2>5, <2>6
<1>6. SubSeq(s, 2, 2) = <<ssn>>
  <2>1. PICK q : IsPiece(q, s, 2, 2)
    BY <1>2, Piece
  <2>2. q \in Seq(Octet) /\ Len(q) = 1 /\ q[1] = s[2]
    BY <2>1 DEF IsPiece
  <2>3. q = <<ssn>>
    BY <1>1, <2>2
  <2> QED
    BY <2>1, <2>3 DEF IsPiece
<1>7. s # <<>>
  BY <1>2
<1>8. /\ Sccp!bitAnd(72, 112) = 64 /\ Sccp!bitAnd(72, Sccp!kAiSsnPresent) = 8
      /\ Sccp!bitAnd(72, Sccp!kAiRoutBySsn) = 0
      /\ Sccp!bitAnd(g[2], 240) = 16 /\ Sccp!bitAnd(g[3], 127) = 4
  BY <1>1, <1>4, SccpOctets, AddressBits DEF Sccp!kAiSsnPresent, Sccp!kAiRoutBySsn
<1>9. PICK odd : odd = (g[3] >= 128)
  OBVIOUS
<1>10. odd = (Len(digits) % 2 = 1)
  BY <1>1, <1>4, <1>9 DEF OddOf
<1>11. Sccp!unpackBcd(Sccp!Left(g, 3), odd) = digits
  BY <1>5, <1>10, SccpOctets, Unpacked
<1>12. PICK t, e, f : t = TRUE /\ e = <<>> /\ f = <<ssn>>
  OBVIOUS
<1>13. PICK b : b = [Sccp!SccpAddress EXCEPT !.routeByGt = t, !.ssn = f]
  OBVIOUS
<1>14. Sccp!decodeAddress(s) =
        {[b EXCEPT !.tt = g[1], !.np = 16, !.nai = 4, !.digits = digits]}
  <2>1. Sccp!Left(s, 2) = g
    BY <1>4, SccpOctets
  <2>2. ~(Len(g) < 3) /\ ~(Len(s) < 1 + 1) /\ (64 = Sccp!kGtiTtNpEsNai) /\ 1 + 1 = 2
        /\ 8 # 0
    BY <1>2, <1>4 DEF Sccp!kGtiTtNpEsNai
  <2>3. s[1] = 72
    BY <1>1
  <2>4. (Sccp!bitAnd(s[1], Sccp!kAiRoutBySsn) = 0) = t
    BY <1>8, <1>12, <2>3
  <2>5. Sccp!decodeIndicator(s, 1) = b
    <3>1. SubSeq(s, 2, 1 + 1) = f
      BY <1>6, <1>12, <2>2
    <3> QED
      BY <1>13, <2>4, <3>1, Zenon DEF Sccp!decodeIndicator
  <2>6. Sccp!decodeTitle(b, g) =
          {[b EXCEPT !.tt = g[1], !.np = 16, !.nai = 4, !.digits = digits]}
    <3>1. Sccp!decodeTitle(b, g) =
            {[b EXCEPT !.tt = g[1], !.np = Sccp!bitAnd(g[2], 240),
                       !.nai = Sccp!bitAnd(g[3], 127),
                       !.digits = Sccp!unpackBcd(Sccp!Left(g, 3), g[3] >= 128)]}
      BY <2>2, Zenon DEF Sccp!decodeTitle
    <3> QED
      BY <1>8, <1>9, <1>11, <3>1, Zenon
  <2>7. Sccp!decodeAddress(s) = Sccp!decodeTitle(b, g)
    <3>1. Sccp!Left(s, 1 + 1) = g
      BY <2>1, <2>2
    <3> QED
      BY <1>7, <1>8, <2>2, <2>3, <2>5, <3>1 DEF Sccp!decodeAddress
  <2> QED
    BY <2>6, <2>7, Zenon
<1>15. b = [routeByGt |-> t, digits |-> e, tt |-> 0, np |-> 16, nai |-> 4,
            ssn |-> f, pc |-> e]
  <2>1. PICK a : a = [routeByGt |-> t, digits |-> e, tt |-> 0, np |-> 16,
                      nai |-> 4, ssn |-> e, pc |-> e]
    OBVIOUS
  <2>2. a = Sccp!SccpAddress
    BY <1>12, <2>1, Zenon DEF Sccp!SccpAddress, Sccp!kTtInternational,
       Sccp!kNpIsdnTelephony, Sccp!kNaiInternational
  <2>3. [a EXCEPT !.routeByGt = t] = a
    BY <2>1, SMT
  <2>4. [a EXCEPT !.ssn = f] =
          [routeByGt |-> t, digits |-> e, tt |-> 0, np |-> 16, nai |-> 4,
           ssn |-> f, pc |-> e]
    BY <2>1, SMT
  <2> QED
    BY <1>13, <2>2, <2>3, <2>4, Zenon
<1>16. PICK z \in Octet : z = g[1] /\ z = 0
  BY <1>1, <1>4 DEF Octet
<1>17. /\ [b EXCEPT !.tt = z] = b /\ [b EXCEPT !.np = 16] = b
       /\ [b EXCEPT !.nai = 4] = b
       /\ [b EXCEPT !.digits = digits] =
             [routeByGt |-> t, digits |-> digits, tt |-> 0, np |-> 16, nai |-> 4,
              ssn |-> f, pc |-> e]
  BY <1>15, <1>16, SMT
<1>18. [b EXCEPT !.tt = g[1], !.np = 16, !.nai = 4, !.digits = digits]
         = Sccp!makeGtAddress(digits, ssn)
  BY <1>12, <1>16, <1>17, GtAddress, Zenon
<1> QED
  BY <1>1, <1>14, <1>18, Zenon

-----------------------------------------------------------------------------
(* SCCP unitdata: three parts behind their pointers.                        *)

(* q is in s from octet n + 1 on.                                           *)
Holds(s, n, q) ==
    /\ n + Len(q) <= Len(s)
    /\ \A i \in 1 .. Len(q) : s[n + i] = q[i]

IsJoin(s, p, q) ==
    /\ s \in Seq(Octet) /\ s = p \o q
    /\ Len(p) \in Nat /\ Len(q) \in Nat /\ Len(s) = Len(p) + Len(q)
    /\ Holds(s, Len(p), q)
    /\ \A i \in 1 .. Len(p) : s[i] = p[i]

LEMMA Join ==
  ASSUME NEW p \in Seq(Octet), NEW q \in Seq(Octet)
  PROVE  \E s : IsJoin(s, p, q)
<1>1. PICK s \in Seq(Octet) :
           /\ s = p \o q /\ Len(p) \in Nat /\ Len(q) \in Nat
           /\ Len(s) = Len(p) + Len(q)
           /\ \A i \in 1 .. Len(p) : s[i] = p[i]
           /\ \A i \in 1 .. Len(q) : s[Len(p) + i] = q[i]
           /\ Left(s, Len(p)) = q
  BY Joined
<1>2. Holds(s, Len(p), q)
  BY <1>1 DEF Holds
<1> QED
  BY <1>1, <1>2, Zenon DEF IsJoin

LEMMA JoinHolds ==
  ASSUME NEW p \in Seq(Octet), NEW q, NEW s, IsJoin(s, p, q),
         NEW n \in Nat, NEW r \in Seq(Octet), Holds(p, n, r)
  PROVE  Holds(s, n, r)
<1>1. Len(r) \in Nat /\ Len(p) \in Nat /\ Len(q) \in Nat
      /\ Len(s) = Len(p) + Len(q) /\ \A i \in 1 .. Len(p) : s[i] = p[i]
  BY LenProperties DEF IsJoin
<1>2. n + Len(r) <= Len(p) /\ \A i \in 1 .. Len(r) : p[n + i] = r[i]
  BY DEF Holds
<1>3. ASSUME NEW i \in 1 .. Len(r) PROVE s[n + i] = r[i]
  <2>1. n + i \in 1 .. Len(p)
    BY <1>1, <1>2
  <2> QED
    BY <1>1, <1>2, <2>1
<1>4. n + Len(r) <= Len(s)
  BY <1>1, <1>2
<1> QED
  BY <1>3, <1>4 DEF Holds

(* A length and what it is the length of.                                   *)
Part(s) == <<Len(s) % 256>> \o s

LEMMA PartOctets ==
  ASSUME NEW s \in Seq(Octet)
  PROVE  /\ Part(s) \in Seq(Octet) /\ Len(s) \in Nat /\ Len(Part(s)) = Len(s) + 1
         /\ Part(s)[1] = Len(s) % 256 /\ Part(s)[1] \in Octet
         /\ Holds(Part(s), 1, s)
<1>1. Len(s) \in Nat
  BY LenProperties
<1>2. PICK x \in Octet : x = Len(s) % 256
  BY <1>1, SplitOctet
<1>3. PICK h : h = <<x>>
  OBVIOUS
<1>4. h \in Seq(Octet) /\ Len(h) = 1 /\ h[1] = x
  BY <1>3
<1>5. PICK p : IsJoin(p, h, s)
  BY <1>4, Join, Zenon
<1>6. p = Part(s)
  BY <1>2, <1>3, <1>5, Zenon DEF Part, IsJoin
<1>7. p[1] = x /\ Len(p) = Len(s) + 1 /\ Holds(p, 1, s) /\ p \in Seq(Octet)
  BY <1>1, <1>4, <1>5 DEF IsJoin
<1> QED
  BY <1>1, <1>2, <1>6, <1>7

(* What a pointer at octet k leads to.                                      *)
PartAt(raw, k, s) == Sccp!udtPart(raw, k) = {Taken(s, Len(s) % 256)}

LEMMA PartRead ==
  ASSUME NEW raw \in Seq(Octet), NEW s \in Seq(Octet), NEW n \in Nat,
         Holds(raw, n, Part(s)), NEW k, k + raw[k] = n + 1
  PROVE  PartAt(raw, k, s)
<1>1. /\ Part(s) \in Seq(Octet) /\ Len(s) \in Nat /\ Len(Part(s)) = Len(s) + 1
      /\ Part(s)[1] = Len(s) % 256 /\ Part(s)[1] \in Octet
      /\ Holds(Part(s), 1, s)
  BY PartOctets
<1>2. PICK q : q = Part(s)
  OBVIOUS
<1>3. PICK x \in Octet : x = Len(s) % 256
  BY <1>1
<1>4. /\ q \in Seq(Octet) /\ Len(q) = Len(s) + 1 /\ q[1] = x
      /\ n + Len(q) <= Len(raw) /\ \A i \in 1 .. Len(q) : raw[n + i] = q[i]
      /\ \A i \in 1 .. Len(s) : q[1 + i] = s[i]
  BY <1>1, <1>2, <1>3 DEF Holds
<1>5. Len(raw) \in Nat /\ x \in Nat /\ x <= Len(s)
  <2>1. Len(raw) \in Nat
    BY LenProperties
  <2> QED
    BY <1>1, <1>3, <2>1 DEF Octet
<1>6. raw[n + 1] = x
  BY <1>1, <1>4
<1>7. PICK t : IsPiece(t, s, 1, x)
  BY <1>1, <1>5, Piece
<1>8. t \in Seq(Octet) /\ Len(t) = x /\ t = Taken(s, x)
      /\ \A i \in 1 .. x : t[i] = s[i]
  BY <1>5, <1>7 DEF IsPiece, Taken
<1>9. ASSUME NEW i \in 1 .. Len(t) PROVE raw[(n + 1) + i] = t[i]
  <2>0. Len(t) <= Len(s) /\ Len(q) = Len(s) + 1 /\ i \in Nat /\ 1 <= i /\ i <= Len(t)
    BY <1>4, <1>5, <1>8
  <2>1. i \in 1 .. Len(s) /\ 1 + i \in 1 .. Len(q) /\ n + (1 + i) = (n + 1) + i
    BY <1>1, <2>0
  <2>2. raw[n + (1 + i)] = q[1 + i] /\ q[1 + i] = s[i] /\ t[i] = s[i]
    BY <1>4, <1>8, <2>1
  <2> QED
    BY <2>1, <2>2
<1>10. (n + 1) + Len(t) <= Len(raw) /\ n + 1 \in Nat
  BY <1>1, <1>4, <1>5, <1>8
<1>11. SubSeq(raw, (n + 1) + 1, (n + 1) + Len(t)) = t
  BY <1>8, <1>9, <1>10, Window
<1>12. PICK at \in Nat : at = n + 1 /\ at = k + raw[k] /\ raw[at] = x
  BY <1>6, <1>10
<1>13. ~(at > Len(raw) \/ at + raw[at] > Len(raw))
       /\ SubSeq(raw, at + 1, at + raw[at]) = t
  BY <1>5, <1>8, <1>10, <1>11, <1>12
<1>14. Sccp!udtPart(raw, k) = {t}
  BY <1>12, <1>13, Zenon DEF Sccp!udtPart
<1> QED
  BY <1>3, <1>8, <1>14, Zenon DEF PartAt

LEMMA SmallOctet ==
  ASSUME NEW x \in Int, 0 <= x, x <= 255
  PROVE  x % 256 = x /\ x \in Octet
BY DEF Octet

(* A unitdata message in octets: its parts stand where its pointers say.    *)
IsUdt(raw, udt, called, calling, data) ==
    /\ raw \in Seq(Octet) /\ raw = Sccp!encodeUdt(udt)
    /\ Len(raw) = 8 + Len(called) + Len(calling) + Len(data)
    /\ raw[1] = 9 /\ raw[2] = udt.protocolClass /\ raw[3] = 3
    /\ raw[4] = 3 + Len(called) /\ raw[5] = 3 + Len(called) + Len(calling)
    /\ Holds(raw, 5, Part(called))
    /\ Holds(raw, 6 + Len(called), Part(calling))
    /\ Holds(raw, 7 + Len(called) + Len(calling), Part(data))

LEMMA UdtParts ==
  ASSUME NEW raw, ~(Len(raw) < 5 \/ raw[1] # Sccp!kMsgUdt), NEW A, NEW B, NEW C,
         A = Sccp!Then(Sccp!udtPart(raw, 3), Sccp!decodeAddress),
         B = Sccp!Then(Sccp!udtPart(raw, 4), Sccp!decodeAddress),
         C = Sccp!udtPart(raw, 5)
  PROVE  Sccp!decodeUdt(raw) =
           {[protocolClass |-> raw[2], calledParty |-> x, callingParty |-> y,
             data |-> z] : x \in A, y \in B, z \in C}
BY SMT DEF Sccp!decodeUdt

LEMMA UdtOctets ==
  ASSUME NEW udt, NEW called \in Seq(Octet), NEW calling \in Seq(Octet),
         NEW data \in Seq(Octet), udt.protocolClass \in Octet,
         called = Sccp!encodeAddress(udt.calledParty),
         calling = Sccp!encodeAddress(udt.callingParty), data = udt.data,
         3 + Len(called) + Len(calling) <= 255
  PROVE  \E raw : IsUdt(raw, udt, called, calling, data)
<1>1. /\ Part(called) \in Seq(Octet) /\ Len(called) \in Nat
      /\ Len(Part(called)) = Len(called) + 1
  BY PartOctets
<1>2. /\ Part(calling) \in Seq(Octet) /\ Len(calling) \in Nat
      /\ Len(Part(calling)) = Len(calling) + 1
  BY PartOctets
<1>3. /\ Part(data) \in Seq(Octet) /\ Len(data) \in Nat
      /\ Len(Part(data)) = Len(data) + 1
  BY PartOctets
<1>4. PICK b \in Octet, d \in Octet, e \in Octet :
        /\ b = udt.protocolClass
        /\ d = 3 + Len(called) /\ e = 3 + Len(called) + Len(calling)
        /\ (3 + Len(called)) % 256 = d
        /\ (3 + Len(called) + Len(calling)) % 256 = e
  <2>1. PICK u \in Int, v \in Int :
          u = 3 + Len(called) /\ v = 3 + Len(called) + Len(calling)
    BY <1>1, <1>2
  <2>2. 0 <= u /\ u <= 255 /\ 0 <= v /\ v <= 255
    BY <1>1, <1>2, <2>1
  <2>3. u \in Octet /\ v \in Octet /\ u % 256 = u /\ v % 256 = v
    BY <2>2, SmallOctet
  <2> QED
    BY <2>1, <2>3, Zenon
<1>5. PICK a \in Octet, c \in Octet : a = 9 /\ c = 3
  BY DEF Octet
<1>6. PICK h : h = <<a, b, c, d, e>>
  OBVIOUS
<1>7. /\ h \in Seq(Octet) /\ Len(h) = 5
      /\ h[1] = a /\ h[2] = b /\ h[3] = c /\ h[4] = d /\ h[5] = e
  <2>1. <<a, b, c, d, e>> \in Seq(Octet)
    OBVIOUS
  <2> QED
    BY <1>6, <2>1
<1>8. PICK r : IsJoin(r, h, Part(called))
  BY <1>1, <1>7, Join, Zenon
<1>9. r \in Seq(Octet) /\ Len(r) = 6 + Len(called)
  BY <1>1, <1>7, <1>8 DEF IsJoin
<1>10. PICK t : IsJoin(t, r, Part(calling))
  BY <1>2, <1>9, Join, Zenon
<1>11. t \in Seq(Octet) /\ Len(t) = 7 + Len(called) + Len(calling)
  BY <1>1, <1>2, <1>9, <1>10 DEF IsJoin
<1>12. PICK raw : IsJoin(raw, t, Part(data))
  BY <1>3, <1>11, Join, Zenon
<1>13. raw \in Seq(Octet) /\ Len(raw) = 8 + Len(called) + Len(calling) + Len(data)
  <2>1. raw \in Seq(Octet) /\ Len(raw) = Len(t) + Len(Part(data))
    BY <1>12, Zenon DEF IsJoin
  <2>2. PICK a1 \in Nat, a2 \in Nat, a3 \in Nat :
          a1 = Len(called) /\ a2 = Len(calling) /\ a3 = Len(data)
    BY <1>1, <1>2, <1>3, Zenon
  <2>3. Len(raw) = (7 + a1 + a2) + (a3 + 1)
    BY <1>3, <1>11, <2>1, <2>2, Zenon
  <2>4. (7 + a1 + a2) + (a3 + 1) = 8 + a1 + a2 + a3
    OBVIOUS
  <2> QED
    BY <2>1, <2>2, <2>3, <2>4, Zenon
<1>14. \A i \in 1 .. 5 : raw[i] = h[i]
  <2>1. ASSUME NEW i \in 1 .. 5 PROVE i \in 1 .. Len(h) /\ i \in 1 .. Len(r) /\ i \in 1 .. Len(t)
    BY <1>1, <1>2, <1>7, <1>9, <1>11
  <2> QED
    BY <1>8, <1>10, <1>12, <2>1, SMTT(20) DEF IsJoin
<1>15. /\ raw[1] = a /\ raw[2] = b /\ raw[3] = c /\ raw[4] = d /\ raw[5] = e
  BY <1>7, <1>14
<1>16. Holds(raw, 5, Part(called))
  <2>1. Holds(r, 5, Part(called))
    BY <1>7, <1>8, Zenon DEF IsJoin
  <2>2. 5 \in Nat
    OBVIOUS
  <2>3. Holds(t, 5, Part(called))
    BY <1>1, <1>9, <1>10, <2>1, <2>2, JoinHolds, Zenon
  <2> QED
    BY <1>1, <1>11, <1>12, <2>2, <2>3, JoinHolds, Zenon
<1>17. Holds(raw, 6 + Len(called), Part(calling))
  <2>1. Holds(t, 6 + Len(called), Part(calling))
    BY <1>9, <1>10, Zenon DEF IsJoin
  <2>2. 6 + Len(called) \in Nat
    BY <1>1
  <2> QED
    BY <1>2, <1>11, <1>12, <2>1, <2>2, JoinHolds, Zenon
<1>18. Holds(raw, 7 + Len(called) + Len(calling), Part(data))
  BY <1>11, <1>12, Zenon DEF IsJoin
<1>19. raw = Sccp!encodeUdt(udt)
  <2>1. Sccp!kMsgUdt = a
    BY <1>5 DEF Sccp!kMsgUdt
  <2>2. raw = h \o Part(called) \o Part(calling) \o Part(data)
    BY <1>8, <1>10, <1>12, Zenon DEF IsJoin
  <2>3. Sccp!encodeUdt(udt) =
          <<Sccp!kMsgUdt, udt.protocolClass, 3, (3 + Len(called)) % 256,
            (3 + Len(called) + Len(calling)) % 256>>
          \o Part(called) \o Part(calling) \o Part(data)
    BY ZenonT(40) DEF Sccp!encodeUdt, Part
  <2> QED
    BY <1>4, <1>5, <1>6, <2>1, <2>2, <2>3, ZenonT(40)
<1> QED
  BY <1>4, <1>5, <1>13, <1>15, <1>16, <1>17, <1>18, <1>19, Zenon DEF IsUdt

(* SCCP unitdata under the titles of any two numbers: both addresses come   *)
(* back digit for digit, and so does the data up to 255 octets.  Of longer  *)
(* data the receiver sees the first Len % 256 octets, as the length octet   *)
(* wraps; the addresses are unharmed.                                       *)
THEOREM UdtRoundTrip ==
  ASSUME NEW pc \in Octet, NEW calledGt \in Seq(Digits),
         NEW callingGt \in Seq(Digits), NEW calledSsn \in Octet,
         NEW callingSsn \in Octet, NEW data \in Seq(Octet),
         (Len(calledGt) + 1) \div 2 + ((Len(callingGt) + 1) \div 2) <= 242
  PROVE  LET called  == Sccp!makeGtAddress(calledGt, calledSsn)
             calling == Sccp!makeGtAddress(callingGt, callingSsn)
         IN  Sccp!decodeUdt(Sccp!encodeUdt(
               [protocolClass |-> pc, calledParty |-> called,
                callingParty |-> calling, data |-> data])) =
               {[protocolClass |-> pc, calledParty |-> called,
                 callingParty |-> calling,
                 data |-> Taken(data, Len(data) % 256)]}
<1>1. PICK called, calling :
        /\ called = Sccp!makeGtAddress(calledGt, calledSsn)
        /\ calling = Sccp!makeGtAddress(callingGt, callingSsn)
  OBVIOUS
<1>2. PICK ca \in Seq(Octet) :
        ca = Sccp!encodeAddress(called) /\ Len(ca) = 5 + ((Len(calledGt) + 1) \div 2)
  BY <1>1, AddressOctets
<1>3. PICK cg \in Seq(Octet) :
        cg = Sccp!encodeAddress(calling) /\ Len(cg) = 5 + ((Len(callingGt) + 1) \div 2)
  BY <1>1, AddressOctets
<1>4. Len(ca) \in Nat /\ Len(cg) \in Nat /\ 3 + Len(ca) + Len(cg) <= 255
  <2>1. Len(ca) \in Nat /\ Len(cg) \in Nat
    BY LenProperties
  <2>2. (Len(calledGt) + 1) \div 2 \in Nat /\ (Len(callingGt) + 1) \div 2 \in Nat
    <3>1. Len(calledGt) \in Nat /\ Len(callingGt) \in Nat
      BY LenProperties
    <3> QED
      BY <3>1, Pairs
  <2> QED
    BY <1>2, <1>3, <2>1, <2>2
<1>5. PICK udt : udt = [protocolClass |-> pc, calledParty |-> called,
                        callingParty |-> calling, data |-> data]
  OBVIOUS
<1>6. /\ udt.protocolClass = pc /\ udt.calledParty = called
      /\ udt.callingParty = calling /\ udt.data = data
  BY <1>5
<1>0. Len(data) \in Nat
  BY LenProperties
<1>7a. PICK raw : IsUdt(raw, udt, ca, cg, data)
  BY <1>2, <1>3, <1>4, <1>6, UdtOctets, Zenon
<1>7. /\ raw \in Seq(Octet) /\ raw = Sccp!encodeUdt(udt)
      /\ Len(raw) = 8 + Len(ca) + Len(cg) + Len(data)
      /\ raw[1] = 9 /\ raw[2] = udt.protocolClass /\ raw[3] = 3
      /\ raw[4] = 3 + Len(ca) /\ raw[5] = 3 + Len(ca) + Len(cg)
      /\ Holds(raw, 5, Part(ca))
      /\ Holds(raw, 6 + Len(ca), Part(cg))
      /\ Holds(raw, 7 + Len(ca) + Len(cg), Part(data))
  BY <1>7a, Zenon DEF IsUdt
<1>8. Sccp!udtPart(raw, 3) = {ca}
  <2>1. 3 + raw[3] = 5 + 1 /\ 5 \in Nat
    BY <1>7
  <2>2a. PartAt(raw, 3, ca)
    BY <1>7, <2>1, PartRead, Zenon
  <2>2. Sccp!udtPart(raw, 3) = {Taken(ca, Len(ca) % 256)}
    BY <2>2a, Zenon DEF PartAt
  <2>3. Len(ca) % 256 = Len(ca)
    <3>1. Len(ca) \in Int /\ 0 <= Len(ca) /\ Len(ca) <= 255
      BY <1>4
    <3> QED
      BY <3>1, SmallOctet
  <2>4. Taken(ca, Len(ca)) = ca
    BY SubSeqFull DEF Taken
  <2> QED
    BY <2>2, <2>3, <2>4
<1>9. Sccp!udtPart(raw, 4) = {cg}
  <2>1. 4 + raw[4] = (6 + Len(ca)) + 1 /\ 6 + Len(ca) \in Nat
    BY <1>4, <1>7
  <2>2a. PartAt(raw, 4, cg)
    BY <1>7, <2>1, PartRead, Zenon
  <2>2. Sccp!udtPart(raw, 4) = {Taken(cg, Len(cg) % 256)}
    BY <2>2a, Zenon DEF PartAt
  <2>3. Len(cg) % 256 = Len(cg)
    <3>1. Len(cg) \in Int /\ 0 <= Len(cg) /\ Len(cg) <= 255
      BY <1>4
    <3> QED
      BY <3>1, SmallOctet
  <2>4. Taken(cg, Len(cg)) = cg
    BY SubSeqFull DEF Taken
  <2> QED
    BY <2>2, <2>3, <2>4
<1>10. Sccp!udtPart(raw, 5) = {Taken(data, Len(data) % 256)}
  <2>1. /\ 5 + raw[5] = (7 + Len(ca) + Len(cg)) + 1
        /\ 7 + Len(ca) + Len(cg) \in Nat
    BY <1>4, <1>7
  <2>2. PartAt(raw, 5, data)
    BY <1>7, <2>1, PartRead, Zenon
  <2> QED
    BY <2>2, Zenon DEF PartAt
<1>11. Sccp!decodeAddress(ca) = {called} /\ Sccp!decodeAddress(cg) = {calling}
  BY <1>1, <1>2, <1>3, AddressRoundTrip
<1>12. /\ Sccp!Then({ca}, Sccp!decodeAddress) = {called}
       /\ Sccp!Then({cg}, Sccp!decodeAddress) = {calling}
  BY <1>11, Zenon DEF Sccp!Then
<1>13. ~(Len(raw) < 5 \/ raw[1] # Sccp!kMsgUdt)
  BY <1>7 DEF Sccp!kMsgUdt
<1>14. PICK d : d = Taken(data, Len(data) % 256)
  OBVIOUS
<1>15. PICK A, B, C :
         /\ A = Sccp!Then(Sccp!udtPart(raw, 3), Sccp!decodeAddress)
         /\ B = Sccp!Then(Sccp!udtPart(raw, 4), Sccp!decodeAddress)
         /\ C = Sccp!udtPart(raw, 5)
  OBVIOUS
<1>17. A = {called} /\ B = {calling} /\ C = {d}
  BY <1>8, <1>9, <1>10, <1>12, <1>14, <1>15, Zenon
<1>18. Sccp!decodeUdt(raw) =
         {[protocolClass |-> raw[2], calledParty |-> x, callingParty |-> y,
           data |-> z] : x \in A, y \in B, z \in C}
  BY <1>13, <1>15, UdtParts
<1>16. Sccp!decodeUdt(raw) =
         {[protocolClass |-> pc, calledParty |-> called,
           callingParty |-> calling, data |-> d]}
  BY <1>6, <1>7, <1>17, <1>18, SMT
<1> QED
  BY <1>1, <1>5, <1>7, <1>14, <1>16, Zenon

-----------------------------------------------------------------------------
(* M3UA messages: elements of a tag, a length, a value and padding.         *)

LEMMA FlattenOne ==
  ASSUME NEW x, NEW s, s = [i \in 1 .. 1 |-> x]
  PROVE  FlattenSeq(s) = x
<1> DEFINE F(f) == [i \in 1 .. Len(s) |-> IF i = 1 THEN s[i] ELSE f[i - 1] \o s[i]]
           g == [i \in 1 .. Len(s) |-> x]
           h == CHOOSE f : f = F(f)
<1>1. Len(s) = 1 /\ s[1] = x
  OBVIOUS
<1>2. g = F(g)
  BY <1>1
<1> HIDE DEF g
<1>3. h = F(h)
  BY <1>2, Zenon
<1>4. FlattenSeq(s) = h[Len(s)]
  BY <1>1 DEF FlattenSeq
<1> HIDE DEF h
<1>5. h[1] = x
  BY <1>1, <1>3
<1> QED
  BY <1>1, <1>4, <1>5

LEMMA FlattenNone ==
  ASSUME NEW s, Len(s) = 0
  PROVE  FlattenSeq(s) = s
BY Zenon DEF FlattenSeq

LEMMA M3uaFlatten ==
  ASSUME NEW s
  PROVE  M3ua!FlattenSeq(s) = FlattenSeq(s)
BY Zenon DEF FlattenSeq, M3ua!FlattenSeq

Pad(n) == (4 - (n % 4)) % 4

LEMMA PadOf ==
  ASSUME NEW n \in Nat
  PROVE  /\ Pad(n) \in 0 .. 3 /\ M3ua!padding(n) = Pad(n)
         /\ Pad(4 + n) = Pad(n) /\ (n + Pad(n)) % 4 = 0
<1>1. n % 4 = 0 \/ n % 4 = 1 \/ n % 4 = 2 \/ n % 4 = 3
  OBVIOUS
<1>2. (4 + n) % 4 = n % 4
  OBVIOUS
<1>3. Pad(n) \in 0 .. 3 /\ Pad(4 + n) = Pad(n)
  BY <1>1, <1>2 DEF Pad
<1>4. M3ua!padding(n) = Pad(n)
  BY Zenon DEF M3ua!padding, Pad
<1>5. (n + Pad(n)) % 4 = 0
  BY <1>1 DEF Pad
<1> QED
  BY <1>3, <1>4, <1>5

(* w is the element of tag and v.                                           *)
IsTlv(w, tag, v) ==
    /\ w \in Seq(Octet) /\ w = M3ua!writeTlv(tag, v)
    /\ Len(v) \in Nat /\ Len(w) = (4 + Len(v)) + Pad(4 + Len(v))
    /\ ValueBE(SubSeq(w, 1, 2)) = tag /\ ValueBE(SubSeq(w, 3, 4)) = 4 + Len(v)
    /\ SubSeq(w, 5, 4 + Len(v)) = v

LEMMA Tlv ==
  ASSUME NEW tag \in Nat, tag < 256 * 256, NEW v \in Seq(Octet),
         4 + Len(v) < 256 * 256
  PROVE  \E w : IsTlv(w, tag, v)
<1>1. Len(v) \in Nat /\ 4 + Len(v) \in Nat
  BY LenProperties
<1>2. PICK t \in Seq(Octet) : t = BE(2, tag) /\ Len(t) = 2 /\ ValueBE(t) = tag
  BY WrittenTwo, Zenon
<1>3. PICK l \in Seq(Octet) :
        l = BE(2, 4 + Len(v)) /\ Len(l) = 2 /\ ValueBE(l) = 4 + Len(v)
  BY <1>1, WrittenTwo, Zenon
<1>4. PICK k \in 0 .. 3 :
        k = Pad(Len(v)) /\ k = M3ua!padding(Len(v)) /\ k = Pad(4 + Len(v))
  BY <1>1, PadOf, Zenon
<1>5. PICK z \in Seq(Octet) : z = [i \in 1 .. k |-> 0] /\ Len(z) = k
  <2> DEFINE q == [i \in 1 .. k |-> 0]
  <2>1. q \in [1 .. k -> Octet] /\ k \in Nat
    BY DEF Octet
  <2> HIDE DEF q
  <2>2. q \in Seq(Octet) /\ Len(q) = k
    BY <2>1, SeqDef, LenProperties
  <2> QED
    BY <2>2 DEF q
<1>a. Len(t) = 2 /\ Len(l) = 2 /\ Len(z) = k /\ k \in Nat
  <2>1. k \in Nat
    OBVIOUS
  <2> QED
    BY <1>2, <1>3, <1>5, <2>1, Zenon
<1>6. PICK h : IsJoin(h, t, l)
  BY Join, Zenon
<1>7. h \in Seq(Octet) /\ Len(h) = 4 /\ Holds(h, 2, l) /\ \A i \in 1 .. 2 : h[i] = t[i]
  BY <1>2, <1>3, <1>6 DEF IsJoin
<1>8. PICK u : IsJoin(u, h, v)
  BY <1>7, Join, Zenon
<1>9. /\ u \in Seq(Octet) /\ Len(u) = 4 + Len(v) /\ Holds(u, 4, v)
      /\ \A i \in 1 .. 4 : u[i] = h[i]
  BY <1>1, <1>7, <1>8 DEF IsJoin
<1>10. PICK w : IsJoin(w, u, z)
  BY <1>9, Join, Zenon
<1>11. /\ w \in Seq(Octet) /\ Len(w) = (4 + Len(v)) + k
       /\ \A i \in 1 .. 4 : w[i] = u[i]
  BY <1>1, <1>a, <1>9, <1>10 DEF IsJoin
<1>12. Holds(w, 4, v)
  <2>1. 4 \in Nat
    OBVIOUS
  <2> QED
    BY <1>9, <1>10, <2>1, JoinHolds, Zenon
<1>13. Holds(w, 2, l)
  <2>1. l[1] = h[3] /\ l[2] = h[4]
    <3>1. \A i \in 1 .. 2 : h[2 + i] = l[i]
      BY <1>3, <1>7 DEF Holds
    <3>2. h[2 + 1] = l[1] /\ h[2 + 2] = l[2]
      BY <3>1
    <3>3. 2 + 1 = 3 /\ 2 + 2 = 4
      OBVIOUS
    <3> QED
      BY <3>2, <3>3
  <2>2. w[2 + 1] = l[1] /\ w[2 + 2] = l[2]
    BY <1>9, <1>11, <2>1
  <2>3. \A i \in 1 .. 2 : i = 1 \/ i = 2
    OBVIOUS
  <2>4. \A i \in 1 .. 2 : w[2 + i] = l[i]
    BY <2>2, <2>3
  <2>5. 2 + Len(l) <= Len(w)
    BY <1>1, <1>a, <1>11
  <2> QED
    BY <1>3, <2>4, <2>5 DEF Holds
<1>14. SubSeq(w, 1, 2) = t
  <2>1. \A i \in 1 .. 2 : w[0 + i] = t[i]
    BY <1>7, <1>9, <1>11
  <2>2. 0 + Len(t) <= Len(w) /\ \A i \in 1 .. Len(t) : w[0 + i] = t[i]
    BY <1>1, <1>a, <1>11, <2>1
  <2>3. SubSeq(w, 0 + 1, 0 + Len(t)) = t
    BY <1>11, <2>2, Window
  <2> QED
    BY <1>2, <2>3
<1>15. SubSeq(w, 3, 4) = l
  <2>1. SubSeq(w, 2 + 1, 2 + Len(l)) = l
    BY <1>11, <1>13, Window DEF Holds
  <2>2. 2 + 1 = 3 /\ 2 + Len(l) = 4
    BY <1>a
  <2> QED
    BY <2>1, <2>2, Zenon
<1>16. SubSeq(w, 5, 4 + Len(v)) = v
  <2>1. SubSeq(w, 4 + 1, 4 + Len(v)) = v
    BY <1>11, <1>12, Window DEF Holds
  <2>2. 4 + 1 = 5
    OBVIOUS
  <2> QED
    BY <2>1, <2>2, Zenon
<1>17. w = M3ua!writeTlv(tag, v)
  <2>1. w = t \o l \o v \o z
    BY <1>6, <1>8, <1>10, Zenon DEF IsJoin
  <2>2. M3ua!BE(2, tag) = t /\ M3ua!BE(2, 4 + Len(v)) = l
    BY <1>2, <1>3, M3uaOctets, Zenon
  <2> QED
    BY <1>4, <1>5, <2>1, <2>2, Zenon DEF M3ua!writeTlv
<1> QED
  BY <1>1, <1>2, <1>3, <1>4, <1>11, <1>14, <1>15, <1>16, <1>17, Zenon DEF IsTlv

IsTurn(a, s, m, len, end) ==
    M3ua!decodeNext(a) =
      {[msg |-> x, rest |-> M3ua!Left(s, end)] :
         x \in M3ua!decodeTlv(m, M3ua!ValueBE(M3ua!Taken(s, 2)),
                              SubSeq(s, 5, len))}

LEMMA TlvTurn ==
  ASSUME NEW a, NEW s, s = a.rest, NEW m, m = a.msg, NEW len, NEW end,
         len = M3ua!ValueBE(SubSeq(s, 3, 4)), end = len + M3ua!padding(len),
         ~(Len(s) < 4), ~(len < 4 \/ len > Len(s)), end <= Len(s)
  PROVE  IsTurn(a, s, m, len, end)
<1>1. M3ua!decodeNext(a) =
           {[msg |-> x, rest |-> M3ua!Left(s, IF end <= Len(s) THEN end
                                                ELSE len)] :
              x \in M3ua!decodeTlv(m, M3ua!ValueBE(M3ua!Taken(s, 2)),
                                   SubSeq(s, 5, len))}
  BY Zenon DEF M3ua!decodeNext
<1>2. (IF end <= Len(s) THEN end ELSE len) = end
  BY Zenon
<1> QED
  BY <1>1, <1>2, Zenon DEF IsTurn

(* The turn from a takes the element off what is left, down to r.           *)
ReadsTlv(a, m, tag, v, r) ==
    M3ua!decodeNext(a) =
      {[msg |-> x, rest |-> r] : x \in M3ua!decodeTlv(m, tag, v)}

(* An element is read as it was written, whatever stands behind it.         *)
LEMMA TlvRead ==
  ASSUME NEW tag, NEW v \in Seq(Octet), NEW w, IsTlv(w, tag, v),
         NEW r \in Seq(Octet), NEW m, NEW a, a.msg = m, a.rest = w \o r
  PROVE  ReadsTlv(a, m, tag, v, r)
<1>1. /\ w \in Seq(Octet) /\ Len(v) \in Nat
      /\ Len(w) = (4 + Len(v)) + Pad(4 + Len(v))
      /\ ValueBE(SubSeq(w, 1, 2)) = tag /\ ValueBE(SubSeq(w, 3, 4)) = 4 + Len(v)
      /\ SubSeq(w, 5, 4 + Len(v)) = v
  BY Zenon DEF IsTlv
<1>2. PICK s : s = w \o r
  OBVIOUS
<1>3. /\ s \in Seq(Octet) /\ Len(s) = Len(w) + Len(r)
      /\ Len(w) \in Nat /\ Len(r) \in Nat /\ Left(s, Len(w)) = r
      /\ \A j \in 1 .. Len(w) + 1, n \in 0 .. Len(w) :
           j <= n + 1 => SubSeq(s, j, n) = SubSeq(w, j, n)
  <2>1. w \in Seq(Octet)
    BY <1>1, Zenon
  <2> QED
    BY <1>2, <2>1, FrameAndRest
<1>4. PICK len \in Nat : len = 4 + Len(v)
  BY <1>1
<1>5. PICK k \in Nat : k = Pad(len) /\ k = M3ua!padding(len)
  <2>1. Pad(len) \in 0 .. 3 /\ M3ua!padding(len) = Pad(len)
    BY PadOf, Zenon
  <2>2. Pad(len) \in Nat
    BY <2>1
  <2> QED
    BY <2>1, <2>2, Zenon
<1>6. Len(w) = len + k /\ 4 <= len /\ len <= Len(w) /\ len <= Len(s)
      /\ Len(w) <= Len(s) /\ 4 <= Len(s)
  <2>1. Len(w) = len + k
    BY <1>1, <1>4, <1>5, Zenon
  <2>2. 4 <= len
    BY <1>1, <1>4
  <2> QED
    BY <1>3, <2>1, <2>2
<1>7. /\ 1 \in 1 .. Len(w) + 1 /\ 3 \in 1 .. Len(w) + 1 /\ 5 \in 1 .. Len(w) + 1
      /\ 2 \in 0 .. Len(w) /\ 4 \in 0 .. Len(w) /\ len \in 0 .. Len(w)
      /\ 1 <= 2 + 1 /\ 3 <= 4 + 1 /\ 5 <= len + 1
  BY <1>3, <1>6
<1>8. /\ SubSeq(s, 1, 2) = SubSeq(w, 1, 2) /\ SubSeq(s, 3, 4) = SubSeq(w, 3, 4)
      /\ SubSeq(s, 5, len) = SubSeq(w, 5, len)
  BY <1>3, <1>7, Zenon
<1>9. a.rest = s /\ a.msg = m
  BY <1>2
<1>10. /\ M3ua!ValueBE(SubSeq(s, 3, 4)) = len
       /\ M3ua!ValueBE(M3ua!Taken(s, 2)) = tag
       /\ SubSeq(s, 5, len) = v
       /\ M3ua!Left(s, len + k) = r
  BY <1>1, <1>3, <1>4, <1>6, <1>8, M3uaOctets, Zenon DEF Taken
<1>11. /\ ~(Len(s) < 4) /\ ~(len < 4 \/ len > Len(s)) /\ len + k <= Len(s)
  BY <1>3, <1>6
<1>12. PICK end : end = len + k
  OBVIOUS
<1>13. M3ua!decodeNext(a) =
         {[msg |-> x, rest |-> M3ua!Left(s, end)] :
            x \in M3ua!decodeTlv(m, M3ua!ValueBE(M3ua!Taken(s, 2)),
                                  SubSeq(s, 5, len))}
  <2>1. /\ s = a.rest /\ m = a.msg /\ len = M3ua!ValueBE(SubSeq(s, 3, 4))
        /\ end = len + M3ua!padding(len)
        /\ ~(Len(s) < 4) /\ ~(len < 4 \/ len > Len(s)) /\ end <= Len(s)
    BY <1>5, <1>9, <1>10, <1>11, <1>12, Zenon
  <2>2. IsTurn(a, s, m, len, end)
    BY <2>1, TlvTurn, Zenon
  <2> QED
    BY <2>2, Zenon DEF IsTurn
<1> QED
  BY <1>10, <1>12, <1>13, Zenon DEF ReadsTlv

(* At the end of the body there is nothing more to read.                    *)
LEMMA TlvEnd ==
  ASSUME NEW m, NEW a, a = [msg |-> m, rest |-> <<>>]
  PROVE  M3ua!decodeNext(a) = {a}
<1>1. Len(a.rest) < 4
  OBVIOUS
<1> QED
  BY <1>1, Zenon DEF M3ua!decodeNext

(* The constructed record of a message.                                     *)
Msg(class, type, rc, pd, hb) ==
    [msgClass |-> class, msgType |-> type, routingContext |-> rc,
     protocolData |-> pd, heartbeatData |-> hb]

LEMMA MsgExcept ==
  ASSUME NEW class, NEW type, NEW rc, NEW pd, NEW hb, NEW m,
         m = Msg(class, type, rc, pd, hb), NEW x
  PROVE  /\ [m EXCEPT !.routingContext = x] = Msg(class, type, x, pd, hb)
         /\ [m EXCEPT !.protocolData = x] = Msg(class, type, rc, x, hb)
         /\ [m EXCEPT !.heartbeatData = x] = Msg(class, type, rc, pd, x)
         /\ m.msgClass = class /\ m.msgType = type /\ m.routingContext = rc
         /\ m.protocolData = pd /\ m.heartbeatData = hb
<1>1. [m EXCEPT !.routingContext = x] = Msg(class, type, x, pd, hb)
  BY SMT DEF Msg
<1>2. [m EXCEPT !.protocolData = x] = Msg(class, type, rc, x, hb)
  BY SMT DEF Msg
<1>3. [m EXCEPT !.heartbeatData = x] = Msg(class, type, rc, pd, x)
  BY SMT DEF Msg
<1>4. /\ m.msgClass = class /\ m.msgType = type /\ m.routingContext = rc
      /\ m.protocolData = pd /\ m.heartbeatData = hb
  BY SMT DEF Msg
<1> QED
  BY <1>1, <1>2, <1>3, <1>4

LEMMA DataMessage ==
  ASSUME NEW pd, NEW rc
  PROVE  M3ua!makeData(pd, rc) = Msg(1, 1, rc, <<pd>>, <<>>)
<1>1. PICK e, c, f : e = <<>> /\ c = 1 /\ f = <<pd>>
  OBVIOUS
<1>2. PICK m : m = Msg(c, c, e, e, e)
  OBVIOUS
<1>3. m = M3ua!Message(M3ua!kClassTransf, M3ua!kTypeData)
  BY <1>1, <1>2, Zenon DEF M3ua!Message, M3ua!kClassTransf, M3ua!kTypeData, Msg
<1>4. PICK n : n = [m EXCEPT !.protocolData = f]
  OBVIOUS
<1>5. n = Msg(c, c, e, f, e)
  BY <1>2, <1>4, SMT DEF Msg
<1>6. [n EXCEPT !.routingContext = rc] = Msg(c, c, rc, f, e)
  BY <1>5, SMT DEF Msg
<1>7. M3ua!makeData(pd, rc) = [n EXCEPT !.routingContext = rc]
  BY <1>1, <1>3, <1>4, Zenon DEF M3ua!makeData
<1> QED
  BY <1>1, <1>6, <1>7, Zenon

LEMMA OctetsFun ==
  ASSUME NEW k \in Nat, NEW q \in [1 .. k -> Octet]
  PROVE  q \in Seq(Octet) /\ Len(q) = k
BY SeqDef, LenProperties

(* Written octets, for a number of any size.                                *)
LEMMA Quotient ==
  ASSUME NEW n \in Nat, NEW p \in Nat, p = 1 \/ p = 256 \/ p = 256 * 256
           \/ p = 256 * (256 * 256)
  PROVE  (n \div p) % 256 \in Octet
<1>1. n \div p \in Nat
  OBVIOUS
<1>2. PICK q \in Nat : q = n \div p
  BY <1>1
<1>3. q % 256 \in Octet
  BY SplitOctet
<1> QED
  BY <1>2, <1>3

LEMMA OctetsOfTwo ==
  ASSUME NEW n \in Nat
  PROVE  BE(2, n) \in Seq(Octet) /\ Len(BE(2, n)) = 2
<1>1. ASSUME NEW i \in 1 .. 2 PROVE (n \div 256 ^ (2 - i)) % 256 \in Octet
  <2>1. PICK p : p = 256 ^ (2 - i)
    OBVIOUS
  <2>2. p \in Nat /\ (p = 1 \/ p = 256)
    <3>1. i = 1 \/ i = 2
      OBVIOUS
    <3>2. CASE i = 1
      BY <2>1, <3>2
    <3>3. CASE i = 2
      BY <2>1, <3>3
    <3> QED
      BY <3>1, <3>2, <3>3
  <2>3. (n \div p) % 256 \in Octet
    BY <2>2, Quotient
  <2> QED
    BY <2>1, <2>3, Zenon
<1>2. PICK q : q = BE(2, n)
  OBVIOUS
<1>3. q \in [1 .. 2 -> Octet] /\ 2 \in Nat
  <2>1. q \in [1 .. 2 -> Octet]
    BY <1>1, <1>2, Zenon DEF BE
  <2> QED
    BY <2>1
<1>4. q \in Seq(Octet) /\ Len(q) = 2
  BY <1>3, OctetsFun, Zenon
<1> QED
  BY <1>2, <1>4, Zenon

LEMMA OctetsOfFour ==
  ASSUME NEW n \in Nat
  PROVE  BE(4, n) \in Seq(Octet) /\ Len(BE(4, n)) = 4
<1>1. ASSUME NEW i \in 1 .. 4 PROVE (n \div 256 ^ (4 - i)) % 256 \in Octet
  <2>1. PICK p : p = 256 ^ (4 - i)
    OBVIOUS
  <2>2. p \in Nat /\ (p = 1 \/ p = 256 \/ p = 256 * 256 \/ p = 256 * (256 * 256))
    <3>1. i = 1 \/ i = 2 \/ i = 3 \/ i = 4
      OBVIOUS
    <3>2. CASE i = 1
      BY <2>1, <3>2
    <3>3. CASE i = 2
      BY <2>1, <3>3
    <3>4. CASE i = 3
      BY <2>1, <3>4
    <3>5. CASE i = 4
      BY <2>1, <3>5
    <3> QED
      BY <3>1, <3>2, <3>3, <3>4, <3>5
  <2>3. (n \div p) % 256 \in Octet
    BY <2>2, Quotient
  <2> QED
    BY <2>1, <2>3, Zenon
<1>2. PICK q : q = BE(4, n)
  OBVIOUS
<1>3. q \in [1 .. 4 -> Octet] /\ 4 \in Nat
  <2>1. q \in [1 .. 4 -> Octet]
    BY <1>1, <1>2, Zenon DEF BE
  <2> QED
    BY <2>1
<1>4. q \in Seq(Octet) /\ Len(q) = 4
  BY <1>3, OctetsFun, Zenon
<1> QED
  BY <1>2, <1>4, Zenon

(* The size of an element, also where its length does not fit two octets.   *)
LEMMA TlvSize ==
  ASSUME NEW tag \in Nat, NEW v \in Seq(Octet)
  PROVE  /\ M3ua!writeTlv(tag, v) \in Seq(Octet) /\ Len(v) \in Nat
         /\ Len(M3ua!writeTlv(tag, v)) = (4 + Len(v)) + Pad(Len(v))
         /\ Pad(Len(v)) \in 0 .. 3
<1>1. Len(v) \in Nat /\ 4 + Len(v) \in Nat
  BY LenProperties
<1>2. PICK t \in Seq(Octet) : t = M3ua!BE(2, tag) /\ Len(t) = 2
  BY OctetsOfTwo, M3uaOctets, Zenon
<1>3. PICK l \in Seq(Octet) : l = M3ua!BE(2, 4 + Len(v)) /\ Len(l) = 2
  BY <1>1, OctetsOfTwo, M3uaOctets, Zenon
<1>4. PICK k \in 0 .. 3 : k = Pad(Len(v)) /\ k = M3ua!padding(Len(v))
  BY <1>1, PadOf, Zenon
<1>5. PICK z \in Seq(Octet) : z = [i \in 1 .. k |-> 0] /\ Len(z) = k
  <2> DEFINE q == [i \in 1 .. k |-> 0]
  <2>1. q \in [1 .. k -> Octet] /\ k \in Nat
    BY DEF Octet
  <2> HIDE DEF q
  <2>2. q \in Seq(Octet) /\ Len(q) = k
    BY <2>1, SeqDef, LenProperties
  <2> QED
    BY <2>2 DEF q
<1>6. PICK h \in Seq(Octet) : h = t \o l /\ Len(h) = Len(t) + Len(l)
  BY FrameAndRest
<1>7. PICK u \in Seq(Octet) : u = h \o v /\ Len(u) = Len(h) + Len(v)
  BY FrameAndRest
<1>8. PICK w \in Seq(Octet) : w = u \o z /\ Len(w) = Len(u) + Len(z)
  BY FrameAndRest
<1>9. w = M3ua!writeTlv(tag, v)
  BY <1>2, <1>3, <1>4, <1>5, <1>6, <1>7, <1>8, Zenon DEF M3ua!writeTlv
<1>10. Len(t) = 2 /\ Len(l) = 2 /\ Len(z) = k
  BY <1>2, <1>3, <1>5, Zenon
<1>11. Len(w) = (4 + Len(v)) + k
  <2>1. Len(h) = Len(t) + Len(l) /\ Len(u) = Len(h) + Len(v) /\ Len(w) = Len(u) + Len(z)
    BY <1>6, <1>7, <1>8, Zenon
  <2> QED
    BY <1>1, <1>10, <2>1
<1> QED
  BY <1>1, <1>4, <1>9, <1>11, Zenon

-----------------------------------------------------------------------------
(* M3UA DATA.                                                               *)

UInt32 == {n \in Nat : n < 256 * (256 * (256 * 256))}

ProtocolData ==
    [opc : UInt32, dpc : UInt32, si : Octet, ni : Octet, mp : Octet,
     sls : Octet, userData : Seq(Octet)]

RoutingContexts == {<<>>} \cup {<<n>> : n \in UInt32}

(* The value of the Protocol Data element, and the two elements.            *)
PdOctets(pd) ==
    M3ua!BE(4, pd.opc) \o M3ua!BE(4, pd.dpc)
      \o <<pd.si, pd.ni, pd.mp, pd.sls>> \o pd.userData

PdTlv(pd) == M3ua!writeTlv(528, PdOctets(pd))

RcTlv(rc) == IF rc = <<>> THEN <<>> ELSE M3ua!writeTlv(6, M3ua!BE(4, rc[1]))

(* v is pd's value: its fields are where decodeTlv looks for them.          *)
IsPd(v, pd) ==
    /\ v \in Seq(Octet) /\ v = PdOctets(pd)
    /\ Len(pd.userData) \in Nat /\ Len(v) = 12 + Len(pd.userData)
    /\ ValueBE(SubSeq(v, 1, 4)) = pd.opc /\ ValueBE(SubSeq(v, 5, 8)) = pd.dpc
    /\ v[9] = pd.si /\ v[10] = pd.ni /\ v[11] = pd.mp /\ v[12] = pd.sls
    /\ Left(v, 12) = pd.userData

LEMMA PdValue ==
  ASSUME NEW pd \in ProtocolData
  PROVE  \E v : IsPd(v, pd)
<1>0. /\ pd.opc \in UInt32 /\ pd.dpc \in UInt32 /\ pd.userData \in Seq(Octet)
      /\ pd.si \in Octet /\ pd.ni \in Octet /\ pd.mp \in Octet /\ pd.sls \in Octet
  BY DEF ProtocolData
<1>1. PICK o \in Seq(Octet) : o = M3ua!BE(4, pd.opc) /\ Len(o) = 4 /\ ValueBE(o) = pd.opc
  <2>1. pd.opc \in Nat /\ pd.opc < 256 * (256 * (256 * 256))
    BY <1>0, Zenon DEF UInt32
  <2> QED
    BY <2>1, WrittenFour, M3uaOctets, Zenon
<1>2. PICK d \in Seq(Octet) : d = M3ua!BE(4, pd.dpc) /\ Len(d) = 4 /\ ValueBE(d) = pd.dpc
  <2>1. pd.dpc \in Nat /\ pd.dpc < 256 * (256 * (256 * 256))
    BY <1>0, Zenon DEF UInt32
  <2> QED
    BY <2>1, WrittenFour, M3uaOctets, Zenon
<1>3. PICK a \in Octet, b \in Octet, c \in Octet, e \in Octet :
        a = pd.si /\ b = pd.ni /\ c = pd.mp /\ e = pd.sls
  BY <1>0, Zenon
<1>4. PICK f : f = <<a, b, c, e>>
  OBVIOUS
<1>5. f \in Seq(Octet) /\ Len(f) = 4
      /\ f[1] = a /\ f[2] = b /\ f[3] = c /\ f[4] = e
  <2>1. <<a, b, c, e>> \in Seq(Octet)
    OBVIOUS
  <2> QED
    BY <1>4, <2>1
<1>6. PICK u \in Seq(Octet) : u = pd.userData
  BY <1>0, Zenon
<1>7. PICK g : IsJoin(g, o, d)
  BY Join, Zenon
<1>8. g \in Seq(Octet) /\ Len(g) = 8 /\ Holds(g, 4, d) /\ Holds(g, 0, o)
  <2>1. Len(o) = 4 /\ Len(d) = 4
    BY <1>1, <1>2, Zenon
  <2>2. /\ g \in Seq(Octet) /\ Len(g) = Len(o) + Len(d) /\ Holds(g, Len(o), d)
        /\ \A i \in 1 .. Len(o) : g[i] = o[i]
    BY <1>7, Zenon DEF IsJoin
  <2>3. Len(g) = 8
    BY <2>1, <2>2
  <2>4. Holds(g, 4, d)
    BY <2>1, <2>2, Zenon
  <2>5. Holds(g, 0, o)
    <3>1. \A i \in 1 .. Len(o) : g[0 + i] = o[i]
      BY <2>1, <2>2
    <3>2. 0 + Len(o) <= Len(g)
      BY <2>1, <2>3
    <3> QED
      BY <3>1, <3>2, Zenon DEF Holds
  <2> QED
    BY <2>2, <2>3, <2>4, <2>5
<1>9. PICK h : IsJoin(h, g, f)
  BY <1>5, <1>8, Join, Zenon
<1>10. h \in Seq(Octet) /\ Len(h) = 12 /\ Holds(h, 8, f)
  <2>1. h \in Seq(Octet) /\ Len(h) = Len(g) + Len(f) /\ Holds(h, Len(g), f)
    BY <1>9, Zenon DEF IsJoin
  <2>2. Len(g) = 8 /\ Len(f) = 4
    BY <1>5, <1>8, Zenon
  <2>3. Len(h) = 12
    BY <2>1, <2>2
  <2> QED
    BY <2>1, <2>2, <2>3, Zenon
<1>11. PICK v : IsJoin(v, h, u)
  BY <1>10, Join, Zenon
<1>12. v \in Seq(Octet) /\ Len(u) \in Nat /\ Len(v) = 12 + Len(u) /\ Holds(v, 12, u)
  <2>1. /\ v \in Seq(Octet) /\ Len(u) \in Nat /\ Len(v) = Len(h) + Len(u)
        /\ Holds(v, Len(h), u)
    BY <1>11, Zenon DEF IsJoin
  <2> QED
    BY <1>10, <2>1, Zenon
<1>13. 0 \in Nat /\ 4 \in Nat /\ 8 \in Nat /\ 12 \in Nat
  OBVIOUS
<1>14. Holds(v, 0, o) /\ Holds(v, 4, d)
  <2>1. Holds(h, 0, o) /\ Holds(h, 4, d)
    BY <1>8, <1>9, <1>13, JoinHolds, Zenon
  <2> QED
    BY <1>10, <1>11, <1>13, <2>1, JoinHolds, Zenon
<1>15. Holds(v, 8, f)
  BY <1>5, <1>10, <1>11, <1>13, JoinHolds, Zenon
<1>16. SubSeq(v, 1, 4) = o
  <2>1. SubSeq(v, 0 + 1, 0 + Len(o)) = o
    BY <1>12, <1>14, Window DEF Holds
  <2>2. 0 + 1 = 1 /\ 0 + Len(o) = 4
    BY <1>1
  <2> QED
    BY <2>1, <2>2, Zenon
<1>17. SubSeq(v, 5, 8) = d
  <2>1. SubSeq(v, 4 + 1, 4 + Len(d)) = d
    BY <1>12, <1>14, Window DEF Holds
  <2>2. 4 + 1 = 5 /\ 4 + Len(d) = 8
    <3>1. Len(d) = 4
      BY <1>2, Zenon
    <3> QED
      BY <3>1
  <2> QED
    BY <2>1, <2>2, Zenon
<1>18. v[9] = a /\ v[10] = b /\ v[11] = c /\ v[12] = e
  <2>1. /\ 1 \in 1 .. Len(f) /\ 2 \in 1 .. Len(f) /\ 3 \in 1 .. Len(f)
        /\ 4 \in 1 .. Len(f)
        /\ 8 + 1 = 9 /\ 8 + 2 = 10 /\ 8 + 3 = 11 /\ 8 + 4 = 12
    BY <1>5
  <2>2. \A i \in 1 .. Len(f) : v[8 + i] = f[i]
    BY <1>15, Zenon DEF Holds
  <2>3. v[8 + 1] = f[1] /\ v[8 + 2] = f[2] /\ v[8 + 3] = f[3] /\ v[8 + 4] = f[4]
    BY <2>1, <2>2, Zenon
  <2> QED
    BY <1>5, <2>1, <2>3, Zenon
<1>19. Left(v, 12) = u
  <2>1. SubSeq(v, 12 + 1, 12 + Len(u)) = u
    BY <1>12, Window DEF Holds
  <2> QED
    BY <1>12, <2>1, Zenon DEF Left
<1>20. v = PdOctets(pd)
  <2>1. v = o \o d \o f \o u
    BY <1>7, <1>9, <1>11, Zenon DEF IsJoin
  <2> QED
    BY <1>1, <1>2, <1>3, <1>4, <1>6, <2>1, Zenon DEF PdOctets
<1> QED
  BY <1>1, <1>2, <1>3, <1>6, <1>12, <1>16, <1>17, <1>18, <1>19, <1>20, Zenon DEF IsPd

(* What decodeTlv makes of the two elements.                                *)
LEMMA PdDecoded ==
  ASSUME NEW pd \in ProtocolData, NEW v, IsPd(v, pd), NEW m
  PROVE  M3ua!decodeTlv(m, 528, v) = {[m EXCEPT !.protocolData = <<pd>>]}
<1>1. /\ M3ua!kTagProtocolData = 528 /\ M3ua!kTagProtocolData # M3ua!kTagRoutingCtx
      /\ M3ua!kTagProtocolData # M3ua!kTagHeartbeatData
  BY DEF M3ua!kTagProtocolData, M3ua!kTagRoutingCtx, M3ua!kTagHeartbeatData
<1>2. ~(Len(v) < 12)
  <2>1. Len(v) = 12 + Len(pd.userData) /\ Len(pd.userData) \in Nat
    BY Zenon DEF IsPd
  <2> QED
    BY <2>1
<1>3. M3ua!decodeTlv(m, 528, v) =
        {[m EXCEPT !.protocolData =
                    <<[opc |-> M3ua!ValueBE(SubSeq(v, 1, 4)),
                       dpc |-> M3ua!ValueBE(SubSeq(v, 5, 8)),
                       si |-> v[9], ni |-> v[10], mp |-> v[11], sls |-> v[12],
                       userData |-> M3ua!Left(v, 12)]>>]}
  BY <1>1, <1>2, Zenon DEF M3ua!decodeTlv
<1>4. pd = [opc |-> pd.opc, dpc |-> pd.dpc, si |-> pd.si, ni |-> pd.ni,
            mp |-> pd.mp, sls |-> pd.sls, userData |-> pd.userData]
  BY DEF ProtocolData
<1>5. [opc |-> M3ua!ValueBE(SubSeq(v, 1, 4)),
       dpc |-> M3ua!ValueBE(SubSeq(v, 5, 8)),
       si |-> v[9], ni |-> v[10], mp |-> v[11], sls |-> v[12],
       userData |-> M3ua!Left(v, 12)] = pd
  BY <1>4, M3uaOctets, Zenon DEF IsPd
<1> QED
  BY <1>3, <1>5, Zenon

LEMMA RcDecoded ==
  ASSUME NEW n \in UInt32, NEW m
  PROVE  /\ M3ua!decodeTlv(m, 6, M3ua!BE(4, n)) =
              {[m EXCEPT !.routingContext = <<n>>]}
         /\ M3ua!BE(4, n) \in Seq(Octet) /\ Len(M3ua!BE(4, n)) = 4
<1>1. PICK v \in Seq(Octet) : v = M3ua!BE(4, n) /\ Len(v) = 4 /\ ValueBE(v) = n
  <2>1. n \in Nat /\ n < 256 * (256 * (256 * 256))
    BY Zenon DEF UInt32
  <2> QED
    BY <2>1, WrittenFour, M3uaOctets, Zenon
<1>2. M3ua!Taken(v, 4) = v
  <2>1. SubSeq(v, 1, Len(v)) = v
    BY SubSeqFull
  <2> QED
    BY <1>1, <2>1, M3uaOctets, Zenon DEF Taken
<1>3. /\ M3ua!kTagRoutingCtx = 6 /\ M3ua!kTagRoutingCtx # M3ua!kTagHeartbeatData
      /\ M3ua!kTagRoutingCtx # M3ua!kTagProtocolData
  BY DEF M3ua!kTagProtocolData, M3ua!kTagRoutingCtx, M3ua!kTagHeartbeatData
<1>4. ~(Len(v) < 4)
  <2>1. Len(v) = 4
    BY <1>1, Zenon
  <2> QED
    BY <2>1
<1>5. M3ua!ValueBE(M3ua!Taken(v, 4)) = n
  BY <1>1, <1>2, M3uaOctets, Zenon
<1>6. M3ua!decodeTlv(m, 6, v) = {[m EXCEPT !.routingContext =
                                     <<M3ua!ValueBE(M3ua!Taken(v, 4))>>]}
  BY <1>3, <1>4, Zenon DEF M3ua!decodeTlv
<1> QED
  BY <1>1, <1>5, <1>6, Zenon

(* The octets of a DATA message.                                            *)
LEMMA DataOctets ==
  ASSUME NEW pd \in ProtocolData, NEW rc \in RoutingContexts
  PROVE  /\ M3ua!encode(M3ua!makeData(pd, rc)) = M3ua!frame(1, 1, RcTlv(rc) \o PdTlv(pd))
         /\ RcTlv(rc) \in Seq(Octet) /\ PdTlv(pd) \in Seq(Octet)
         /\ RcTlv(rc) \o PdTlv(pd) \in Seq(Octet)
         /\ Len(RcTlv(rc) \o PdTlv(pd)) = Len(RcTlv(rc)) + Len(PdTlv(pd))
         /\ Len(pd.userData) \in Nat /\ Len(RcTlv(rc)) \in {0, 8}
         /\ Len(PdTlv(pd)) \in (16 + Len(pd.userData)) .. (19 + Len(pd.userData))
<1>1. PICK v : IsPd(v, pd)
  BY PdValue, Zenon
<1>2. v \in Seq(Octet) /\ v = PdOctets(pd) /\ Len(v) = 12 + Len(pd.userData)
      /\ Len(pd.userData) \in Nat
  BY <1>1, Zenon DEF IsPd
<1>3. /\ PdTlv(pd) \in Seq(Octet) /\ Len(PdTlv(pd)) = (4 + Len(v)) + Pad(Len(v))
      /\ Pad(Len(v)) \in 0 .. 3
  <2>1. 528 \in Nat
    OBVIOUS
  <2> QED
    BY <1>2, <2>1, TlvSize, ZenonT(40) DEF PdTlv
<1>4. Len(PdTlv(pd)) \in (16 + Len(pd.userData)) .. (19 + Len(pd.userData))
  BY <1>2, <1>3
<1>5. rc = <<>> \/ \E n \in UInt32 : rc = <<n>>
  BY DEF RoutingContexts
<1>6. /\ RcTlv(rc) \in Seq(Octet) /\ Len(RcTlv(rc)) \in {0, 8}
      /\ RcTlv(rc) = M3ua!FlattenSeq([i \in DOMAIN rc |->
                        M3ua!writeTlv(M3ua!kTagRoutingCtx, M3ua!BE(4, rc[i]))])
  <2>1. CASE rc = <<>>
    <3>1. RcTlv(rc) = <<>>
      BY <2>1, Zenon DEF RcTlv
    <3>2. PICK f : f = [i \in DOMAIN rc |->
                        M3ua!writeTlv(M3ua!kTagRoutingCtx, M3ua!BE(4, rc[i]))]
      OBVIOUS
    <3>3. f = <<>> /\ Len(f) = 0
      BY <2>1, <3>2
    <3>4. M3ua!FlattenSeq(f) = <<>>
      BY <3>3, FlattenNone, M3uaFlatten
    <3>5. <<>> \in Seq(Octet) /\ Len(<<>>) = 0
      OBVIOUS
    <3> QED
      BY <3>1, <3>2, <3>4, <3>5
  <2>2. CASE \E n \in UInt32 : rc = <<n>>
    <3>1. PICK n \in UInt32 : rc = <<n>>
      BY <2>2
    <3>2. M3ua!BE(4, n) \in Seq(Octet) /\ Len(M3ua!BE(4, n)) = 4
      BY RcDecoded
    <3>3. PICK w : w = M3ua!writeTlv(6, M3ua!BE(4, n))
      OBVIOUS
    <3>4. w \in Seq(Octet) /\ Len(w) = (4 + 4) + Pad(4)
      <4>1. 6 \in Nat
        OBVIOUS
      <4>2. PICK q \in Seq(Octet) : q = M3ua!BE(4, n) /\ Len(q) = 4
        BY <3>2, Zenon
      <4>3. /\ M3ua!writeTlv(6, q) \in Seq(Octet)
            /\ Len(M3ua!writeTlv(6, q)) = (4 + Len(q)) + Pad(Len(q))
        BY <4>1, TlvSize, Zenon
      <4> QED
        BY <3>3, <4>2, <4>3, Zenon
    <3>5. Len(w) = 8
      BY <3>4 DEF Pad
    <3>6. rc # <<>> /\ rc[1] = n /\ DOMAIN rc = 1 .. 1
      BY <3>1
    <3>7. RcTlv(rc) = w
      BY <3>3, <3>6, Zenon DEF RcTlv
    <3>8. PICK f : f = [i \in DOMAIN rc |->
                        M3ua!writeTlv(M3ua!kTagRoutingCtx, M3ua!BE(4, rc[i]))]
      OBVIOUS
    <3>9. f = [i \in 1 .. 1 |-> w]
      <4>1. \A i \in 1 .. 1 : i = 1
        OBVIOUS
      <4>2. M3ua!kTagRoutingCtx = 6
        BY DEF M3ua!kTagRoutingCtx
      <4> QED
        BY <3>3, <3>6, <3>8, <4>1, <4>2, Zenon
    <3>10. M3ua!FlattenSeq(f) = w
      BY <3>9, FlattenOne, M3uaFlatten, Zenon
    <3> QED
      BY <3>4, <3>5, <3>7, <3>8, <3>10
  <2> QED
    BY <1>5, <2>1, <2>2
<1>7. PICK m : m = M3ua!makeData(pd, rc)
  OBVIOUS
<1>8. /\ m.msgClass = 1 /\ m.msgType = 1 /\ m.routingContext = rc
      /\ m.protocolData = <<pd>> /\ m.heartbeatData = <<>>
  <2>1. PICK c, e, f : c = 1 /\ e = <<>> /\ f = <<pd>>
    OBVIOUS
  <2>2. m = Msg(c, c, rc, f, e)
    BY <1>7, <2>1, DataMessage, Zenon
  <2>3. /\ m.msgClass = c /\ m.msgType = c /\ m.routingContext = rc
        /\ m.protocolData = f /\ m.heartbeatData = e
    BY <2>2 DEF Msg
  <2> QED
    BY <2>1, <2>3, Zenon
<1>9. PdTlv(pd) = M3ua!FlattenSeq([i \in DOMAIN <<pd>> |->
         M3ua!writeTlv(M3ua!kTagProtocolData, PdOctets(<<pd>>[i]))])
  <2>1. PICK q : q = <<pd>>
    OBVIOUS
  <2>2. DOMAIN q = 1 .. 1 /\ q[1] = pd
    BY <2>1
  <2>3. PICK f : f = [i \in DOMAIN q |->
                        M3ua!writeTlv(M3ua!kTagProtocolData, PdOctets(q[i]))]
    OBVIOUS
  <2>4. f = [i \in 1 .. 1 |-> PdTlv(pd)]
    <3>1. \A i \in 1 .. 1 : i = 1
      OBVIOUS
    <3>2. M3ua!kTagProtocolData = 528
      BY DEF M3ua!kTagProtocolData
    <3> QED
      BY <2>2, <2>3, <3>1, <3>2, Zenon DEF PdTlv
  <2>5. M3ua!FlattenSeq(f) = PdTlv(pd)
    BY <2>4, FlattenOne, M3uaFlatten, Zenon
  <2> QED
    BY <2>1, <2>3, <2>5, Zenon
<1>10. M3ua!encode(m) =
         M3ua!frame(m.msgClass, m.msgType,
           M3ua!FlattenSeq([i \in DOMAIN m.routingContext |->
              M3ua!writeTlv(M3ua!kTagRoutingCtx, M3ua!BE(4, m.routingContext[i]))])
           \o <<>>
           \o M3ua!FlattenSeq([i \in DOMAIN m.protocolData |->
                M3ua!writeTlv(M3ua!kTagProtocolData, PdOctets(m.protocolData[i]))]))
  BY <1>8, Zenon DEF M3ua!encode, M3ua!Each, PdOctets
<1>11. M3ua!encode(m) = M3ua!frame(1, 1, RcTlv(rc) \o <<>> \o PdTlv(pd))
  BY <1>6, <1>8, <1>9, <1>10, Zenon
<1>12. RcTlv(rc) \o <<>> = RcTlv(rc)
  BY <1>6, ConcatEmptySeq
<1>13. /\ RcTlv(rc) \o PdTlv(pd) \in Seq(Octet)
       /\ Len(RcTlv(rc) \o PdTlv(pd)) = Len(RcTlv(rc)) + Len(PdTlv(pd))
  BY <1>3, <1>6, FrameAndRest
<1> QED
  BY <1>2, <1>3, <1>4, <1>6, <1>7, <1>11, <1>12, <1>13, Zenon

(* The loop over the elements of a body.                                    *)
DecodeTurn(a, i) == M3ua!decodeNext(a)

NoPromise(a) == TRUE

Tlvs == INSTANCE Iteration WITH Body <- DecodeTurn, Good <- NoPromise

LEMMA TlvLoop ==
  ASSUME NEW m, NEW s
  PROVE  M3ua!decodeTlvs(m, s) =
           {a.msg : a \in Tlvs!Loop([i \in 1 .. Len(s) \div 4 |-> i],
                                    [msg |-> m, rest |-> s], DecodeTurn)}
BY Zenon DEF M3ua!decodeTlvs, M3ua!While, M3ua!Loop, M3ua!Then, Tlvs!Loop,
             Tlvs!Then, DecodeTurn

(* The state of the loop: the message so far and what is left of the body.  *)
At(m, s) == [msg |-> m, rest |-> s]

(* A turn of the loop from a to b.                                          *)
Leads(a, b) == M3ua!decodeNext(a) = {b}

(* Each of the n turns leads from one state of g to the next.               *)
IsPath(g, n) == \A i \in 0 .. n - 1 : Leads(g[i], g[i + 1])

(* The elements of s make x of m.                                           *)
Makes(m, s, x) == M3ua!decodeTlvs(m, s) = {x}

(* The loop, when every turn reads an element and the last leaves nothing.  *)
LEMMA TlvsPath ==
  ASSUME NEW m, NEW s, NEW x, NEW n \in Nat, n = Len(s) \div 4, NEW g,
         g[0] = At(m, s), g[n] = At(x, <<>>),
         IsPath(g, n)
  PROVE  Makes(m, s, x)
<1>1. PICK t : t = [i \in 1 .. n |-> i]
  OBVIOUS
<1>2. Len(t) = n /\ Len(t) \in Nat
  BY <1>1
<1>3. \A i \in 0 .. Len(t) - 1 : DecodeTurn(g[i], t[i + 1]) = {g[i + 1]}
  BY <1>2, Zenon DEF DecodeTurn, IsPath, Leads
<1>4. Tlvs!Loop(t, g[0], DecodeTurn) = {g[Len(t)]}
  BY <1>2, <1>3, Tlvs!LoopPath, Zenon
<1>5. Tlvs!Loop([i \in 1 .. Len(s) \div 4 |-> i], [msg |-> m, rest |-> s], DecodeTurn)
        = {g[n]}
  BY <1>1, <1>2, <1>4, Zenon DEF At
<1>6. M3ua!decodeTlvs(m, s) = {a.msg : a \in {g[n]}}
  BY <1>5, TlvLoop, Zenon
<1>7. g[n].msg = x
  BY DEF At
<1> QED
  BY <1>6, <1>7, Zenon DEF Makes

(* Every turn behind the last element finds nothing to do.                  *)
LEMMA OneElement ==
  ASSUME NEW m, NEW s \in Seq(Octet), NEW x, Len(s) >= 4,
         Leads(At(m, s), At(x, <<>>))
  PROVE  Makes(m, s, x)
<1>1. PICK n \in Nat : n = Len(s) \div 4 /\ n >= 1
  <2>1. Len(s) \in Nat
    BY LenProperties
  <2> QED
    BY <2>1
<1>2. PICK a, b : a = At(m, s) /\ b = At(x, <<>>)
  OBVIOUS
<1>3. PICK g : g = [i \in 0 .. n |-> IF i = 0 THEN a ELSE b]
  OBVIOUS
<1>4. g[0] = a /\ g[n] = b /\ \A i \in 0 .. n - 1 : g[i + 1] = b
  BY <1>1, <1>3
<1>5. Leads(a, b) /\ Leads(b, b)
  BY <1>2, TlvEnd, Zenon DEF At, Leads
<1>6. \A i \in 0 .. n - 1 : g[i] = a \/ g[i] = b
  BY <1>3
<1>7. IsPath(g, n)
  BY <1>4, <1>5, <1>6, Zenon DEF IsPath
<1>8. g[0] = At(m, s) /\ g[n] = At(x, <<>>)
  BY <1>2, <1>4, Zenon
<1>9. n = Len(s) \div 4
  BY <1>1
<1> QED
  BY <1>7, <1>8, <1>9, TlvsPath, Zenon

LEMMA TwoElements ==
  ASSUME NEW m, NEW s \in Seq(Octet), NEW y, NEW r, NEW x, Len(s) >= 8,
         Leads(At(m, s), At(y, r)),
         Leads(At(y, r), At(x, <<>>))
  PROVE  Makes(m, s, x)
<1>1. PICK n \in Nat : n = Len(s) \div 4 /\ n >= 2
  <2>1. Len(s) \in Nat
    BY LenProperties
  <2> QED
    BY <2>1
<1>2. PICK a, b, c : /\ a = At(m, s) /\ b = At(x, <<>>)
                     /\ c = At(y, r)
  OBVIOUS
<1>3. PICK g : g = [i \in 0 .. n |-> IF i = 0 THEN a ELSE IF i = 1 THEN c ELSE b]
  OBVIOUS
<1>4. /\ g[0] = a /\ g[1] = c /\ g[n] = b /\ g[0 + 1] = c
      /\ \A i \in 1 .. n - 1 : g[i + 1] = b
  BY <1>1, <1>3
<1>5. /\ Leads(a, c) /\ Leads(c, b)
      /\ Leads(b, b)
  BY <1>2, TlvEnd, Zenon DEF At, Leads
<1>6. \A i \in 0 .. n - 1 : i = 0 \/ (i \in 1 .. n - 1 /\ (g[i] = c \/ g[i] = b))
  BY <1>3
<1>7. IsPath(g, n)
  BY <1>4, <1>5, <1>6, Zenon DEF IsPath
<1>8. g[0] = At(m, s) /\ g[n] = At(x, <<>>)
  BY <1>2, <1>4, Zenon
<1>9. n = Len(s) \div 4
  BY <1>1
<1> QED
  BY <1>7, <1>8, <1>9, TlvsPath, Zenon

(* The size of a frame, also where its length does not fit four octets.     *)
LEMMA FrameLength ==
  ASSUME NEW class \in Octet, NEW type \in Octet, NEW body \in Seq(Octet)
  PROVE  /\ M3ua!frame(class, type, body) \in Seq(Octet)
         /\ Len(M3ua!frame(class, type, body)) = 8 + Len(body)
<1>1. Len(body) \in Nat /\ 8 + Len(body) \in Nat
  BY LenProperties
<1>2. PICK h \in Seq(Octet) : h = <<M3ua!kVersion, 0, class, type>> /\ Len(h) = 4
  <2>1. PICK h : h = <<1, 0, class, type>>
    OBVIOUS
  <2>2. h \in Seq(Octet) /\ Len(h) = 4
    <3>1. 1 \in Octet /\ 0 \in Octet
      BY DEF Octet
    <3>2. <<1, 0, class, type>> \in Seq(Octet)
      BY <3>1
    <3> QED
      BY <2>1, <3>2
  <2>3. M3ua!kVersion = 1
    BY DEF M3ua!kVersion
  <2> QED
    BY <2>1, <2>2, <2>3, Zenon
<1>3. PICK l \in Seq(Octet) : l = M3ua!BE(4, 8 + Len(body)) /\ Len(l) = 4
  BY <1>1, OctetsOfFour, M3uaOctets, Zenon
<1>4. PICK a \in Seq(Octet) : a = h \o l /\ Len(a) = Len(h) + Len(l)
  BY FrameAndRest
<1>5. PICK f \in Seq(Octet) : f = a \o body /\ Len(f) = Len(a) + Len(body)
  BY FrameAndRest
<1>6. f = M3ua!frame(class, type, body)
  <2>1. M3ua!kCommonHeaderSize = 8
    BY DEF M3ua!kCommonHeaderSize
  <2> QED
    BY <1>2, <1>3, <1>4, <1>5, <2>1, Zenon DEF M3ua!frame
<1>7. Len(f) = 8 + Len(body)
  <2>1. Len(h) = 4 /\ Len(l) = 4 /\ Len(a) = Len(h) + Len(l)
        /\ Len(f) = Len(a) + Len(body)
    BY <1>2, <1>3, <1>4, <1>5, Zenon
  <2> QED
    BY <1>1, <2>1
<1> QED
  BY <1>6, <1>7, Zenon

(* An element that decodeTlv makes x of takes the loop one turn further.    *)
LEMMA ElementTurn ==
  ASSUME NEW tag, NEW v \in Seq(Octet), NEW w, IsTlv(w, tag, v),
         NEW r \in Seq(Octet), NEW m, NEW x, M3ua!decodeTlv(m, tag, v) = {x}
  PROVE  Leads(At(m, w \o r), At(x, r))
<1>1. PICK a : a = At(m, w \o r)
  OBVIOUS
<1>2. a.msg = m /\ a.rest = w \o r
  BY <1>1 DEF At
<1>3. ReadsTlv(a, m, tag, v, r)
  BY <1>2, TlvRead, Zenon
<1> QED
  BY <1>1, <1>3, Zenon DEF At, ReadsTlv, Leads

(* The element of the protocol data sets that field.                        *)
LEMMA PdTurn ==
  ASSUME NEW pd \in ProtocolData, 8 + Len(PdTlv(pd)) <= 64 * 1024, NEW m
  PROVE  Leads(At(m, PdTlv(pd)), At([m EXCEPT !.protocolData = <<pd>>], <<>>))
<1>1. PICK v : IsPd(v, pd)
  BY PdValue, Zenon
<1>2. v \in Seq(Octet) /\ v = PdOctets(pd) /\ 528 \in Nat
  <2>1. 528 \in Nat
    OBVIOUS
  <2> QED
    BY <1>1, <2>1, Zenon DEF IsPd
<1>3. /\ Len(PdTlv(pd)) = (4 + Len(v)) + Pad(Len(v))
      /\ Pad(Len(v)) \in 0 .. 3 /\ Len(v) \in Nat
  BY <1>2, TlvSize, ZenonT(40) DEF PdTlv
<1>4. 4 + Len(v) < 256 * 256 /\ 528 < 256 * 256
  BY <1>3
<1>5. PICK w : IsTlv(w, 528, v)
  BY <1>2, <1>4, Tlv, ZenonT(40)
<1>6. w = PdTlv(pd) /\ w \in Seq(Octet)
  BY <1>2, <1>5, Zenon DEF IsTlv, PdTlv
<1>7. PICK x : x = [m EXCEPT !.protocolData = <<pd>>]
  OBVIOUS
<1>8. M3ua!decodeTlv(m, 528, v) = {x}
  BY <1>1, <1>7, PdDecoded, ZenonT(40)
<1>9. PICK e \in Seq(Octet) : e = <<>>
  <2>1. <<>> \in Seq(Octet)
    OBVIOUS
  <2> QED
    BY <2>1, Zenon
<1>10. Leads(At(m, w \o e), At(x, e))
  BY <1>2, <1>5, <1>8, ElementTurn, ZenonT(40)
<1>11. w \o e = w
  BY <1>6, <1>9, ConcatEmptySeq
<1> QED
  BY <1>6, <1>7, <1>9, <1>10, <1>11, Zenon

(* The element of a routing context sets that field.                        *)
LEMMA RcTurn ==
  ASSUME NEW n \in UInt32, NEW r \in Seq(Octet), NEW m
  PROVE  Leads(At(m, RcTlv(<<n>>) \o r),
               At([m EXCEPT !.routingContext = <<n>>], r))
<1>1. PICK v \in Seq(Octet) : v = M3ua!BE(4, n) /\ Len(v) = 4
  BY RcDecoded
<1>2. 4 + Len(v) < 256 * 256 /\ 6 < 256 * 256 /\ 6 \in Nat
  <2>1. Len(v) = 4
    BY <1>1, Zenon
  <2> QED
    BY <2>1
<1>3. PICK w : IsTlv(w, 6, v)
  BY <1>2, Tlv, Zenon
<1>4. PICK q : q = <<n>>
  OBVIOUS
<1>5. q # <<>> /\ q[1] = n
  BY <1>4
<1>6. w = RcTlv(q)
  BY <1>1, <1>3, <1>5, Zenon DEF IsTlv, RcTlv
<1>7. PICK x : x = [m EXCEPT !.routingContext = q]
  OBVIOUS
<1>8. M3ua!decodeTlv(m, 6, v) = {x}
  BY <1>1, <1>4, <1>7, RcDecoded, Zenon
<1>9. Leads(At(m, w \o r), At(x, r))
  BY <1>3, <1>8, ElementTurn, Zenon
<1> QED
  BY <1>4, <1>6, <1>7, <1>9, Zenon

LEMMA DataBody ==
  ASSUME NEW pd \in ProtocolData, NEW rc \in RoutingContexts,
         8 + Len(RcTlv(rc) \o PdTlv(pd)) <= 64 * 1024
  PROVE  Makes(M3ua!Message(1, 1), RcTlv(rc) \o PdTlv(pd), M3ua!makeData(pd, rc))
<1>1. /\ RcTlv(rc) \in Seq(Octet) /\ PdTlv(pd) \in Seq(Octet)
      /\ RcTlv(rc) \o PdTlv(pd) \in Seq(Octet)
      /\ Len(RcTlv(rc) \o PdTlv(pd)) = Len(RcTlv(rc)) + Len(PdTlv(pd))
      /\ Len(pd.userData) \in Nat /\ Len(RcTlv(rc)) \in {0, 8}
      /\ Len(PdTlv(pd)) \in (16 + Len(pd.userData)) .. (19 + Len(pd.userData))
  BY DataOctets
<1>2. /\ 8 + Len(PdTlv(pd)) <= 64 * 1024 /\ Len(PdTlv(pd)) >= 4
      /\ Len(RcTlv(rc) \o PdTlv(pd)) >= 8
  BY <1>1
<1>3. PICK e, c, f : e = <<>> /\ c = 1 /\ f = <<pd>>
  OBVIOUS
<1>4. PICK m : m = Msg(c, c, e, e, e)
  OBVIOUS
<1>5. m = M3ua!Message(1, 1)
  BY <1>3, <1>4, Zenon DEF M3ua!Message, Msg
<1>6. PICK p \in Seq(Octet) : p = PdTlv(pd)
  BY <1>1, Zenon
<1>7. rc = <<>> \/ \E n \in UInt32 : rc = <<n>>
  BY DEF RoutingContexts
<1>8. PICK d : d = M3ua!makeData(pd, rc) /\ d = Msg(c, c, rc, f, e)
  BY <1>3, DataMessage, Zenon
<1>9. CASE rc = <<>>
  <2>1. RcTlv(rc) \o PdTlv(pd) = p
    <3>1. RcTlv(rc) = <<>>
      BY <1>9, Zenon DEF RcTlv
    <3> QED
      BY <1>6, <3>1, ConcatEmptySeq
  <2>2. [m EXCEPT !.protocolData = f] = d
    BY <1>3, <1>4, <1>8, <1>9, SMT DEF Msg
  <2>3. Leads(At(m, p), At(d, <<>>))
    BY <1>2, <1>3, <1>6, <2>2, PdTurn, Zenon
  <2>4. Len(p) >= 4
    BY <1>2, <1>6, Zenon
  <2>5. Makes(m, p, d)
    BY <2>3, <2>4, OneElement, Zenon
  <2> QED
    BY <1>5, <1>8, <2>1, <2>5, Zenon
<1>10. CASE \E n \in UInt32 : rc = <<n>>
  <2>1. PICK n \in UInt32 : rc = <<n>>
    BY <1>10
  <2>2. PICK y : y = [m EXCEPT !.routingContext = rc]
    OBVIOUS
  <2>3. y = Msg(c, c, rc, e, e)
    BY <1>4, <2>2, SMT DEF Msg
  <2>4. [y EXCEPT !.protocolData = f] = d
    BY <1>8, <2>3, SMT DEF Msg
  <2>5. PICK s \in Seq(Octet) : s = RcTlv(rc) \o p
    BY <1>1, <1>6, Zenon
  <2>6. Leads(At(m, s), At(y, p))
    BY <2>1, <2>2, <2>5, RcTurn, Zenon
  <2>7. Leads(At(y, p), At(d, <<>>))
    BY <1>2, <1>3, <1>6, <2>4, PdTurn, Zenon
  <2>8. Len(s) >= 8
    BY <1>2, <1>6, <2>5, Zenon
  <2>9. Makes(m, s, d)
    BY <2>6, <2>7, <2>8, TwoElements, Zenon
  <2> QED
    BY <1>5, <1>6, <1>8, <2>5, <2>9, Zenon
<1> QED
  BY <1>7, <1>9, <1>10

(* What M3uaReassembles says of a whole frame.                              *)
IsRead(class, type, body, rest) ==
    M3ua!next(M3ua!frame(class, type, body) \o rest) =
      {[buf |-> rest, msg |-> <<m>>] :
         m \in M3ua!decodeTlvs(M3ua!Message(class, type), body)}

LEMMA FrameRead ==
  ASSUME NEW class \in Octet, NEW type \in Octet, NEW body \in Seq(Octet),
         NEW rest \in Seq(Octet),
         M3ua!kCommonHeaderSize + Len(body) <= M3ua!kMaxM3uaMessageSize
  PROVE  IsRead(class, type, body, rest)
<1>1. M3ua!next(M3ua!frame(class, type, body) \o rest) =
              {[buf |-> rest, msg |-> <<m>>] :
                 m \in M3ua!decodeTlvs(M3ua!Message(class, type), body)}
  BY M3uaReassembles, SMTT(30)
<1> QED
  BY <1>1, Zenon DEF IsRead

(* M3uaCodec's DATA message against its own stream decoder.  Whatever is    *)
(* behind it in the stream, a message of up to 64 KiB is read back with     *)
(* each of its fields, routing context and user data included, and leaves   *)
(* exactly what is behind it; the decoder throws for a longer one, although *)
(* encode() writes it without complaint.                                    *)
THEOREM DataRoundTrip ==
  ASSUME NEW pd \in ProtocolData, NEW rc \in RoutingContexts,
         NEW rest \in Seq(Octet)
  PROVE  LET raw == M3ua!encode(M3ua!makeData(pd, rc))
         IN  /\ Len(raw) <= M3ua!kMaxM3uaMessageSize =>
                  M3ua!next(raw \o rest) =
                    {[buf |-> rest, msg |-> <<M3ua!makeData(pd, rc)>>]}
             /\ (/\ Len(raw) > M3ua!kMaxM3uaMessageSize
                 /\ Len(raw) < 256 * (256 * (256 * 256))) =>
                  M3ua!next(raw \o rest) = {}
<1>0. PICK c : c = 1
  OBVIOUS
<1>1. PICK body \in Seq(Octet) :
        /\ body = RcTlv(rc) \o PdTlv(pd)
        /\ M3ua!encode(M3ua!makeData(pd, rc)) = M3ua!frame(c, c, body)
  BY <1>0, DataOctets
<1>2. c \in Octet /\ Len(body) \in Nat
  <2>1. Len(body) \in Nat
    BY LenProperties
  <2> QED
    BY <1>0, <2>1 DEF Octet
<1>3. PICK raw : raw = M3ua!encode(M3ua!makeData(pd, rc))
  OBVIOUS
<1>4. Len(raw) = 8 + Len(body)
  BY <1>1, <1>2, <1>3, FrameLength
<1>5. ASSUME Len(raw) <= M3ua!kMaxM3uaMessageSize
      PROVE  M3ua!next(raw \o rest) =
               {[buf |-> rest, msg |-> <<M3ua!makeData(pd, rc)>>]}
  <2>1. /\ 8 + Len(body) <= 64 * 1024
        /\ M3ua!kCommonHeaderSize + Len(body) <= M3ua!kMaxM3uaMessageSize
    BY <1>2, <1>4, <1>5 DEF M3ua!kMaxM3uaMessageSize, M3ua!kCommonHeaderSize
  <2>2. IsRead(c, c, body, rest)
    BY <1>2, <2>1, FrameRead, Zenon
  <2>3. Makes(M3ua!Message(c, c), body, M3ua!makeData(pd, rc))
    BY <1>0, <1>1, <2>1, DataBody, Zenon
  <2> QED
    BY <1>1, <1>3, <2>2, <2>3, Zenon DEF Makes, IsRead
<1>6. ASSUME Len(raw) > M3ua!kMaxM3uaMessageSize,
             Len(raw) < 256 * (256 * (256 * 256))
      PROVE  M3ua!next(raw \o rest) = {}
  <2>1. 8 + Len(body) < 256 * (256 * (256 * 256))
    BY <1>2, <1>4, <1>6
  <2>2. PICK f \in Seq(Octet) : 
           /\ f = M3ua!frame(c, c, body)
           /\ Len(f) = 8 + Len(body)
           /\ ValueBE(SubSeq(f, 5, 8)) = Len(f)
    BY <1>2, <2>1, M3uaFrame, ZenonT(40)
  <2>3. PICK s \in Seq(Octet) : s = f \o rest
    BY ConcatProperties
  <2>4. /\ Len(s) = Len(f) + Len(rest) /\ Len(rest) \in Nat
        /\ \A m \in 1 .. Len(f) + 1, k \in 0 .. Len(f) :
             m <= k + 1 => SubSeq(s, m, k) = SubSeq(f, m, k)
    BY <2>3, FrameAndRest
  <2>5. /\ 5 \in 1 .. Len(f) + 1 /\ 8 \in 0 .. Len(f) /\ 5 <= 8 + 1
        /\ ~(Len(s) < M3ua!kCommonHeaderSize)
    <3>1. Len(f) = 8 + Len(body)
      BY <2>2, Zenon
    <3> QED
      BY <1>2, <2>4, <3>1 DEF M3ua!kCommonHeaderSize
  <2>6. SubSeq(s, 5, 8) = SubSeq(f, 5, 8)
    BY <2>4, <2>5, Zenon
  <2>7. Len(f) = ValueBE(SubSeq(s, 5, 8)) /\ Len(f) > M3ua!kMaxM3uaMessageSize
    BY <1>1, <1>3, <1>6, <2>2, <2>6, Zenon
  <2>8. M3ua!next(s) = {}
    BY <2>5, <2>7, M3uaNextBranches, Zenon
  <2> QED
    BY <1>1, <1>3, <2>2, <2>3, <2>8, Zenon
<1> QED
  BY <1>3, <1>5, <1>6, Zenon

-----------------------------------------------------------------------------
(* What the operators on octets return, for arguments of any length.        *)

(* f has the concatenations of the first one, two, .. n parts of s.         *)
IsFlat(f, s, n) ==
    f = [i \in 1 .. n |-> IF i = 1 THEN s[i] ELSE f[i - 1] \o s[i]]

LEMMA FlatExists ==
  ASSUME NEW s
  PROVE  \A n \in Nat : \E f : IsFlat(f, s, n)
<1> DEFINE S == {n \in Nat : \E f : IsFlat(f, s, n)}
<1>1. 0 \in S
  <2> DEFINE f == [i \in 1 .. 0 |-> s[i]]
  <2>1. IsFlat(f, s, 0)
    BY DEF IsFlat
  <2> QED
    BY <2>1
<1>2. ASSUME NEW n \in S PROVE n + 1 \in S
  <2>0. n \in Nat
    OBVIOUS
  <2>1. PICK f : IsFlat(f, s, n)
    OBVIOUS
  <2> DEFINE g == [i \in 1 .. n + 1 |->
                     IF i <= n THEN f[i]
                     ELSE IF i = 1 THEN s[i] ELSE f[n] \o s[i]]
  <2>2. \A i \in 1 .. n : g[i] = f[i]
    BY <2>0
  <2>3. g[n + 1] = IF n + 1 = 1 THEN s[n + 1] ELSE f[n] \o s[n + 1]
    BY <2>0
  <2>4. \A i \in 1 .. n : f[i] = IF i = 1 THEN s[i] ELSE f[i - 1] \o s[i]
    BY <2>1 DEF IsFlat
  <2>5. g = [i \in 1 .. n + 1 |-> g[i]]
    OBVIOUS
  <2> HIDE DEF g
  <2>6. ASSUME NEW i \in 1 .. n + 1
        PROVE  g[i] = IF i = 1 THEN s[i] ELSE g[i - 1] \o s[i]
    <3>1. CASE i \in 1 .. n
      <4>1. CASE i = 1
        BY <2>2, <2>4, <3>1, <4>1
      <4>2. CASE i # 1
        <5>1. i - 1 \in 1 .. n
          BY <2>0, <3>1, <4>2
        <5> QED
          BY <2>2, <2>4, <3>1, <4>2, <5>1, Zenon
      <4> QED
        BY <4>1, <4>2
    <3>2. CASE i = n + 1
      <4>1. CASE n = 0
        BY <2>3, <3>2, <4>1
      <4>2. CASE n # 0
        <5>1. n \in 1 .. n /\ i - 1 = n /\ i # 1
          BY <2>0, <3>2, <4>2
        <5> QED
          BY <2>2, <2>3, <3>2, <5>1, Zenon
      <4> QED
        BY <4>1, <4>2
    <3> QED
      BY <2>0, <3>1, <3>2
  <2>7. IsFlat(g, s, n + 1)
    BY <2>5, <2>6, Zenon DEF IsFlat
  <2> QED
    BY <2>0, <2>7
<1> HIDE DEF S
<1>3. S = Nat
  <2>1. S \in SUBSET Nat
    BY DEF S
  <2> QED
    BY <1>1, <1>2, <2>1, Tlvs!SetInduction
<1> QED
  BY <1>3 DEF S

(* FlattenSeq, by the recursion that defines it.                            *)
IsFlatten(h, s) ==
    /\ FlattenSeq(s) = h[Len(s)] /\ h[1] = s[1]
    /\ \A i \in 1 .. Len(s) - 1 : h[i + 1] = h[i] \o s[i + 1]

LEMMA Flatten ==
  ASSUME NEW s, Len(s) \in Nat, Len(s) # 0
  PROVE  \E h : IsFlatten(h, s)
<1> DEFINE h == CHOOSE f : IsFlat(f, s, Len(s))
<1>1. IsFlat(h, s, Len(s))
  BY FlatExists, Zenon
<1>2. FlattenSeq(s) = h[Len(s)]
  BY Zenon DEF FlattenSeq, IsFlat
<1> HIDE DEF h
<1>3. \A i \in 1 .. Len(s) : h[i] = IF i = 1 THEN s[i] ELSE h[i - 1] \o s[i]
  BY <1>1 DEF IsFlat
<1>4. h[1] = s[1]
  <2>1. 1 \in 1 .. Len(s)
    OBVIOUS
  <2> QED
    BY <1>3, <2>1, Zenon
<1>5. ASSUME NEW i \in 1 .. Len(s) - 1
      PROVE  h[i + 1] = h[i] \o s[i + 1]
  <2>1. i + 1 \in 1 .. Len(s) /\ i + 1 # 1 /\ (i + 1) - 1 = i
    OBVIOUS
  <2> QED
    BY <1>3, <2>1
<1> QED
  BY <1>2, <1>4, <1>5, Zenon DEF IsFlatten

(* Parts of a kind make a sequence of that kind.                            *)
LEMMA FlattenType ==
  ASSUME NEW T, NEW s \in Seq(Seq(T))
  PROVE  FlattenSeq(s) \in Seq(T)
<1>0. Len(s) \in Nat /\ \A i \in 1 .. Len(s) : s[i] \in Seq(T)
  BY LenProperties, ElementOfSeq
<1>1. CASE Len(s) = 0
  <2>1. FlattenSeq(s) = s
    BY <1>1, FlattenNone
  <2>2. s = <<>>
    BY <1>1, EmptySeq
  <2> QED
    BY <2>1, <2>2
<1>2. CASE Len(s) # 0
  <2>1. PICK h : IsFlatten(h, s)
    BY <1>0, <1>2, Flatten, Zenon
  <2>2. /\ FlattenSeq(s) = h[Len(s)] /\ h[1] = s[1]
        /\ \A i \in 1 .. Len(s) - 1 : h[i + 1] = h[i] \o s[i + 1]
    BY <2>1, Zenon DEF IsFlatten
  <2> DEFINE S == {n \in Nat : n + 1 <= Len(s) => h[n + 1] \in Seq(T)}
  <2>3. 0 \in S
    BY <1>0, <1>2, <2>2
  <2>4. ASSUME NEW n \in S PROVE n + 1 \in S
    <3>1. ASSUME (n + 1) + 1 <= Len(s) PROVE h[(n + 1) + 1] \in Seq(T)
      <4>1. /\ n + 1 \in 1 .. Len(s) - 1 /\ n + 1 <= Len(s)
            /\ (n + 1) + 1 \in 1 .. Len(s)
        BY <1>0, <3>1
      <4>2. h[n + 1] \in Seq(T) /\ s[(n + 1) + 1] \in Seq(T)
        BY <1>0, <4>1
      <4>3. h[n + 1] \o s[(n + 1) + 1] \in Seq(T)
        BY <4>2, ConcatProperties
      <4> QED
        BY <2>2, <4>1, <4>3
    <3> QED
      BY <3>1
  <2> HIDE DEF S
  <2>5. S = Nat
    <3>1. S \in SUBSET Nat
      BY DEF S
    <3> QED
      BY <2>3, <2>4, <3>1, Tlvs!SetInduction
  <2>6. Len(s) - 1 \in S /\ (Len(s) - 1) + 1 = Len(s)
    BY <1>0, <1>2, <2>5
  <2> QED
    BY <2>2, <2>6 DEF S
<1> QED
  BY <1>1, <1>2

IsConcat(d, p, c, T) ==
    /\ d \in Seq(T) /\ Len(d) = Len(p) + Len(c)
    /\ \A i \in 1 .. Len(p) : d[i] = p[i]
    /\ \A i \in 1 .. Len(c) : d[Len(p) + i] = c[i]

LEMMA JoinedSeq ==
  ASSUME NEW T, NEW p \in Seq(T), NEW c \in Seq(T), NEW d, d = p \o c
  PROVE  IsConcat(d, p, c, T)
<1>1. Len(p) \in Nat /\ Len(c) \in Nat
  BY LenProperties
<1>2. d \in Seq(T)
  BY ConcatProperties
<1> QED
  BY <1>1, <1>2, ConcatProperties DEF IsConcat

(* Parts of one element each are the sequence of those elements.            *)
LEMMA FlattenSingles ==
  ASSUME NEW T, NEW q \in Seq(T), NEW s, s = [i \in 1 .. Len(q) |-> <<q[i]>>]
  PROVE  FlattenSeq(s) = q
<1>0. Len(q) \in Nat /\ Len(s) = Len(q) /\ \A i \in 1 .. Len(q) : s[i] = <<q[i]>>
  <2>1. Len(q) \in Nat
    BY LenProperties
  <2> QED
    BY <2>1
<1>a. \A i \in 1 .. Len(q) : q[i] \in T
  BY ElementOfSeq
<1>1. CASE Len(q) = 0
  <2>1. FlattenSeq(s) = s
    BY <1>0, <1>1, FlattenNone
  <2>2. q = <<>>
    BY <1>1, EmptySeq
  <2>3. s = <<>>
    BY <1>1
  <2> QED
    BY <2>1, <2>2, <2>3
<1>2. CASE Len(q) # 0
  <2>1. PICK h : IsFlatten(h, s)
    BY <1>0, <1>2, Flatten, Zenon
  <2>2. /\ FlattenSeq(s) = h[Len(q)] /\ h[1] = s[1]
        /\ \A i \in 1 .. Len(q) - 1 : h[i + 1] = h[i] \o s[i + 1]
    BY <1>0, <2>1, Zenon DEF IsFlatten
  <2> DEFINE Same(p, n) == /\ p \in Seq(T) /\ Len(p) = n
                           /\ \A i \in 1 .. n : p[i] = q[i]
             S == {n \in Nat : n + 1 <= Len(q) => Same(h[n + 1], n + 1)}
  <2>3. 0 \in S
    <3>1. PICK x \in T : x = q[1]
      BY <1>0, <1>a, <1>2
    <3>2. PICK p : p = <<x>>
      OBVIOUS
    <3>3. p \in Seq(T) /\ Len(p) = 1 /\ p[1] = x
      BY <3>2
    <3>4. h[1] = p
      BY <1>0, <1>2, <2>2, <3>1, <3>2
    <3>5. Same(h[1], 1)
      BY <3>1, <3>3, <3>4
    <3> QED
      BY <3>5
  <2>4. ASSUME NEW n \in S PROVE n + 1 \in S
    <3>1. ASSUME (n + 1) + 1 <= Len(q)
          PROVE  Same(h[(n + 1) + 1], (n + 1) + 1)
      <4>1. PICK k \in Nat : k = n + 1
        OBVIOUS
      <4>2. k \in 1 .. Len(q) - 1 /\ k + 1 \in 1 .. Len(q) /\ n + 1 <= Len(q)
        BY <1>0, <3>1, <4>1
      <4>3. PICK p : p = h[k] /\ Same(p, k)
        BY <4>1, <4>2
      <4>4. PICK x \in T : x = q[k + 1] /\ s[k + 1] = <<x>>
        BY <1>0, <1>a, <4>2
      <4>5. PICK c : c = <<x>>
        OBVIOUS
      <4>6. c \in Seq(T) /\ Len(c) = 1 /\ c[1] = x
        BY <4>5
      <4>7. h[k + 1] = p \o c
        BY <2>2, <4>2, <4>3, <4>4, <4>5
      <4>8. /\ p \o c \in Seq(T) /\ Len(p \o c) = k + 1
            /\ \A i \in 1 .. k : (p \o c)[i] = q[i]
            /\ (p \o c)[k + 1] = q[k + 1]
        <5>1. PICK d : d = p \o c
          OBVIOUS
        <5>2. /\ p \in Seq(T) /\ Len(p) = k /\ \A i \in 1 .. k : p[i] = q[i]
          BY <4>3
        <5>3. /\ d \in Seq(T) /\ Len(d) = Len(p) + Len(c)
              /\ \A i \in 1 .. Len(p) : d[i] = p[i]
              /\ \A i \in 1 .. Len(c) : d[Len(p) + i] = c[i]
          <6>1. p \in Seq(T) /\ c \in Seq(T) /\ d = p \o c
            BY <4>6, <5>1, <5>2, Zenon
          <6>2. IsConcat(d, p, c, T)
            BY <6>1, JoinedSeq, Zenon
          <6> QED
            BY <6>2, Zenon DEF IsConcat
        <5>4. Len(d) = k + 1
          BY <4>6, <5>2, <5>3
        <5>5. 1 \in 1 .. Len(c) /\ d[k + 1] = c[1]
          BY <4>6, <5>2, <5>3
        <5>6. \A i \in 1 .. k : d[i] = q[i]
          BY <5>2, <5>3
        <5> QED
          BY <4>4, <4>6, <5>1, <5>3, <5>4, <5>5, <5>6
      <4>9. Same(p \o c, k + 1)
        BY <4>8
      <4> QED
        BY <4>1, <4>7, <4>9
    <3> QED
      BY <3>1
  <2> HIDE DEF S
  <2>5. S = Nat
    <3>1. S \in SUBSET Nat
      BY DEF S
    <3> QED
      BY <2>3, <2>4, <3>1, Tlvs!SetInduction
  <2>6. Len(q) - 1 \in S /\ (Len(q) - 1) + 1 = Len(q)
    BY <1>0, <1>2, <2>5
  <2>7. Same(h[Len(q)], Len(q))
    BY <1>0, <2>6 DEF S
  <2>8. h[Len(q)] = q
    BY <2>7, SeqEqual
  <2> QED
    BY <2>2, <2>8
<1> QED
  BY <1>1, <1>2

-----------------------------------------------------------------------------
(* The value of any number of octets.                                       *)

IsValue(f, s, n) ==
    f = [i \in 0 .. n |-> IF i = 0 THEN 0 ELSE f[i - 1] * 256 + s[i]]

LEMMA ValueExists ==
  ASSUME NEW s
  PROVE  \A n \in Nat : \E f : IsValue(f, s, n)
<1> DEFINE S == {n \in Nat : \E f : IsValue(f, s, n)}
<1>1. 0 \in S
  <2> DEFINE f == [i \in 0 .. 0 |-> 0]
  <2>1. IsValue(f, s, 0)
    BY DEF IsValue
  <2> QED
    BY <2>1
<1>2. ASSUME NEW n \in S PROVE n + 1 \in S
  <2>0. n \in Nat
    OBVIOUS
  <2>1. PICK f : IsValue(f, s, n)
    OBVIOUS
  <2> DEFINE g == [i \in 0 .. n + 1 |-> IF i <= n THEN f[i] ELSE f[n] * 256 + s[i]]
  <2>2. \A i \in 0 .. n : g[i] = f[i]
    BY <2>0
  <2>3. g[n + 1] = f[n] * 256 + s[n + 1]
    BY <2>0
  <2>4. \A i \in 0 .. n : f[i] = IF i = 0 THEN 0 ELSE f[i - 1] * 256 + s[i]
    BY <2>1 DEF IsValue
  <2>5. g = [i \in 0 .. n + 1 |-> g[i]]
    OBVIOUS
  <2> HIDE DEF g
  <2>6. ASSUME NEW i \in 0 .. n + 1
        PROVE  g[i] = IF i = 0 THEN 0 ELSE g[i - 1] * 256 + s[i]
    <3>1. CASE i \in 0 .. n
      <4>1. CASE i = 0
        BY <2>2, <2>4, <3>1, <4>1
      <4>2. CASE i # 0
        <5>1. i - 1 \in 0 .. n
          BY <2>0, <3>1, <4>2
        <5> QED
          BY <2>2, <2>4, <3>1, <4>2, <5>1, Zenon
      <4> QED
        BY <4>1, <4>2
    <3>2. CASE i = n + 1
      <4>1. n \in 0 .. n /\ i - 1 = n /\ i # 0
        BY <2>0, <3>2
      <4> QED
        BY <2>2, <2>3, <3>2, <4>1, Zenon
    <3> QED
      BY <2>0, <3>1, <3>2
  <2>7. IsValue(g, s, n + 1)
    BY <2>5, <2>6, Zenon DEF IsValue
  <2> QED
    BY <2>0, <2>7
<1> HIDE DEF S
<1>3. S = Nat
  <2>1. S \in SUBSET Nat
    BY DEF S
  <2> QED
    BY <1>1, <1>2, <2>1, Tlvs!SetInduction
<1> QED
  BY <1>3 DEF S

LEMMA ValueNat ==
  ASSUME NEW s \in Seq(Octet)
  PROVE  ValueBE(s) \in Nat
<1>0. Len(s) \in Nat /\ \A i \in 1 .. Len(s) : s[i] \in Nat
  <2>1. Len(s) \in Nat /\ \A i \in 1 .. Len(s) : s[i] \in Octet
    BY LenProperties, ElementOfSeq
  <2>2. \A o \in Octet : o \in Nat
    BY DEF Octet
  <2> QED
    BY <2>1, <2>2, Zenon
<1> DEFINE h == CHOOSE f : IsValue(f, s, Len(s))
<1>1. IsValue(h, s, Len(s))
  BY <1>0, ValueExists, Zenon
<1>2. ValueBE(s) = h[Len(s)]
  BY Zenon DEF ValueBE, IsValue
<1> HIDE DEF h
<1>3. \A i \in 0 .. Len(s) : h[i] = IF i = 0 THEN 0 ELSE h[i - 1] * 256 + s[i]
  BY <1>1 DEF IsValue
<1> DEFINE S == {n \in Nat : n <= Len(s) => h[n] \in Nat}
<1>4. 0 \in S
  BY <1>0, <1>3
<1>5. ASSUME NEW n \in S PROVE n + 1 \in S
  <2>1. ASSUME n + 1 <= Len(s) PROVE h[n + 1] \in Nat
    <3>1. /\ n + 1 \in 0 .. Len(s) /\ n + 1 # 0 /\ (n + 1) - 1 = n
          /\ n <= Len(s) /\ n + 1 \in 1 .. Len(s)
      BY <1>0, <2>1
    <3>2. h[n] \in Nat /\ s[n + 1] \in Nat
      BY <1>0, <3>1
    <3>3. h[n + 1] = h[n] * 256 + s[n + 1]
      BY <1>3, <3>1
    <3> QED
      BY <3>2, <3>3
  <2> QED
    BY <2>1
<1> HIDE DEF S
<1>6. S = Nat
  <2>1. S \in SUBSET Nat
    BY DEF S
  <2> QED
    BY <1>4, <1>5, <2>1, Tlvs!SetInduction
<1> QED
  BY <1>0, <1>2, <1>6 DEF S

(* A number in any number of octets.                                        *)
LEMMA OctetsOf ==
  ASSUME NEW w \in Nat, NEW n \in Int
  PROVE  BE(w, n) \in Seq(Octet) /\ Len(BE(w, n)) = w
<1>1. ASSUME NEW i \in 1 .. w PROVE (n \div 256 ^ (w - i)) % 256 \in Octet
  <2>1. PICK k \in Nat : k = w - i
    OBVIOUS
  <2>2. (n \div 256 ^ k) % 256 \in Octet
    BY DEF Octet
  <2> QED
    BY <2>1, <2>2
<1>2. BE(w, n) \in [1 .. w -> Octet]
  BY <1>1, Zenon DEF BE
<1> QED
  BY <1>2, OctetsFun, Zenon

(* A value of at most one element.                                          *)
Option(S) == {<<>>} \cup {<<x>> : x \in S}

LEMMA OptionSeq ==
  ASSUME NEW S, NEW o \in Option(S)
  PROVE  o \in Seq(S) /\ (o = <<>> \/ (o[1] \in S /\ o = <<o[1]>>))
<1>1. CASE o = <<>>
  BY <1>1
<1>2. CASE \E x \in S : o = <<x>>
  <2>1. PICK x \in S : o = <<x>>
    BY <1>2
  <2>2. o[1] = x /\ <<x>> \in Seq(S)
    BY <2>1
  <2> QED
    BY <2>1, <2>2
<1> QED
  BY <1>1, <1>2 DEF Option

(* A UDT for two titles, its size, and what it is decoded to.               *)
Udt(pc, calledGt, calledSsn, callingGt, callingSsn, data) ==
    [protocolClass |-> pc,
     calledParty |-> Sccp!makeGtAddress(calledGt, calledSsn),
     callingParty |-> Sccp!makeGtAddress(callingGt, callingSsn),
     data |-> data]

IsSized(raw, data) ==
    /\ raw \in Seq(Octet) /\ Len(data) \in Nat /\ Len(raw) \in Nat
    /\ Len(raw) <= 260 + Len(data)

IsBack(pc, calledGt, calledSsn, callingGt, callingSsn, data) ==
    Sccp!decodeUdt(Sccp!encodeUdt(
        Udt(pc, calledGt, calledSsn, callingGt, callingSsn, data))) =
      {Udt(pc, calledGt, calledSsn, callingGt, callingSsn,
           Taken(data, Len(data) % 256))}

LEMMA UdtBack ==
  ASSUME NEW pc \in Octet, NEW calledGt \in Seq(Digits),
         NEW callingGt \in Seq(Digits), NEW calledSsn \in Octet,
         NEW callingSsn \in Octet, NEW data \in Seq(Octet),
         (Len(calledGt) + 1) \div 2 + ((Len(callingGt) + 1) \div 2) <= 242
  PROVE  IsBack(pc, calledGt, calledSsn, callingGt, callingSsn, data)
BY UdtRoundTrip, SMTT(30) DEF IsBack, Udt

LEMMA UdtSize ==
  ASSUME NEW pc \in Octet, NEW calledGt \in Seq(Digits),
         NEW callingGt \in Seq(Digits), NEW calledSsn \in Octet,
         NEW callingSsn \in Octet, NEW data \in Seq(Octet),
         (Len(calledGt) + 1) \div 2 + ((Len(callingGt) + 1) \div 2) <= 242
  PROVE  IsSized(Sccp!encodeUdt(Udt(pc, calledGt, calledSsn, callingGt,
                                    callingSsn, data)), data)
<1>1. PICK called, calling :
        /\ called = Sccp!makeGtAddress(calledGt, calledSsn)
        /\ calling = Sccp!makeGtAddress(callingGt, callingSsn)
  OBVIOUS
<1>2. PICK ca \in Seq(Octet) :
        ca = Sccp!encodeAddress(called) /\ Len(ca) = 5 + ((Len(calledGt) + 1) \div 2)
  BY <1>1, AddressOctets
<1>3. PICK cg \in Seq(Octet) :
        cg = Sccp!encodeAddress(calling) /\ Len(cg) = 5 + ((Len(callingGt) + 1) \div 2)
  BY <1>1, AddressOctets
<1>4. Len(ca) \in Nat /\ Len(cg) \in Nat /\ 3 + Len(ca) + Len(cg) <= 255
  <2>1. Len(ca) \in Nat /\ Len(cg) \in Nat
    BY LenProperties
  <2>2. (Len(calledGt) + 1) \div 2 \in Nat /\ (Len(callingGt) + 1) \div 2 \in Nat
    <3>1. Len(calledGt) \in Nat /\ Len(callingGt) \in Nat
      BY LenProperties
    <3> QED
      BY <3>1, Pairs
  <2> QED
    BY <1>2, <1>3, <2>1, <2>2
<1>a. PICK udt : udt = Udt(pc, calledGt, calledSsn, callingGt, callingSsn, data)
  OBVIOUS
<1>5. /\ udt.protocolClass = pc /\ udt.calledParty = called
      /\ udt.callingParty = calling /\ udt.data = data
  BY <1>1, <1>a DEF Udt
<1>6. PICK raw : IsUdt(raw, udt, ca, cg, data)
  BY <1>2, <1>3, <1>4, <1>5, UdtOctets, Zenon
<1>7. /\ raw \in Seq(Octet) /\ raw = Sccp!encodeUdt(udt)
      /\ Len(raw) = 8 + Len(ca) + Len(cg) + Len(data)
  BY <1>6, Zenon DEF IsUdt
<1>8. Len(data) \in Nat
  BY LenProperties
<1>9. Len(raw) \in Nat /\ Len(raw) <= 260 + Len(data)
  <2>1. PICK x \in Nat, y \in Nat, z \in Nat :
          x = Len(ca) /\ y = Len(cg) /\ z = Len(data)
    BY <1>4, <1>8, Zenon
  <2>a. 3 + x + y <= 255
    BY <1>4, <2>1, Zenon
  <2>2. Len(raw) = 8 + x + y + z
    BY <1>7, <2>1, Zenon
  <2>3. 8 + x + y + z \in Nat /\ 8 + x + y + z <= 260 + z
    BY <2>a
  <2> QED
    BY <2>1, <2>2, <2>3, Zenon
<1> QED
  BY <1>a, <1>7, <1>8, <1>9, Zenon DEF IsSized

=============================================================================
