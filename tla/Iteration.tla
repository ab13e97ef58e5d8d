----------------------------- MODULE Iteration -----------------------------
(***************************************************************************)
(* What the loops of the codecs compute, whatever their body: a module that *)
(* proves something of a loop instantiates this one with the loop's body    *)
(* and with what every turn is to keep.                                     *)
(***************************************************************************)
EXTENDS Octets, SequenceTheorems, WellFoundedInduction, TLAPS

CONSTANTS Body(_, _), Good(_)

(* A set of naturals that has 0 and each successor has them all: induction  *)
(* for a property that is written as a set.                                 *)
LEMMA SetInduction ==
  ASSUME NEW S \in SUBSET Nat, 0 \in S, \A n \in S : n + 1 \in S
  PROVE  S = Nat
<1> DEFINE T == Nat \ S
<1>1. SUFFICES ASSUME T # {} PROVE FALSE
  OBVIOUS
<1>2. PICK x \in T : \A y \in T : ~(<<y, x>> \in OpToRel(<, Nat))
  <2>1. T \subseteq Nat
    OBVIOUS
  <2> HIDE DEF T
  <2> QED
    BY <1>1, <2>1, NatLessThanWellFounded, WFMin
<1>3. \A y \in T : ~(y < x)
  BY <1>2 DEF OpToRel
<1>4. x \in Nat /\ x \notin S
  BY <1>2
<1>5. x # 0
  BY <1>4
<1>6. x - 1 \in Nat /\ x - 1 < x
  BY <1>4, <1>5
<1>7. x - 1 \in S
  BY <1>3, <1>6
<1>8. (x - 1) + 1 = x
  BY <1>4
<1> QED
  BY <1>4, <1>7, <1>8

(* The results of one turn from any of the states in A.                     *)
Turns(A, x) == UNION {Body(a, x) : a \in A}

(* f[i] has the states after i turns.                                       *)
IsRun(f, s, start, n) ==
    f = [i \in 0 .. n |-> IF i = 0 THEN {start} ELSE Turns(f[i - 1], s[i])]

LEMMA RunExists ==
  ASSUME NEW s, NEW start
  PROVE  \A n \in Nat : \E f : IsRun(f, s, start, n)
<1> DEFINE S == {n \in Nat : \E f : IsRun(f, s, start, n)}
<1>1. 0 \in S
  <2> DEFINE f == [i \in 0 .. 0 |-> {start}]
  <2>1. IsRun(f, s, start, 0)
    BY DEF IsRun
  <2> QED
    BY <2>1
<1>2. ASSUME NEW n \in S PROVE n + 1 \in S
  <2>0. n \in Nat
    OBVIOUS
  <2>1. PICK f : IsRun(f, s, start, n)
    OBVIOUS
  <2> DEFINE g == [i \in 0 .. n + 1 |->
                     IF i <= n THEN f[i] ELSE Turns(f[n], s[n + 1])]
  <2>2. \A i \in 0 .. n : g[i] = f[i]
    BY <2>0
  <2>3. g[n + 1] = Turns(f[n], s[n + 1])
    BY <2>0
  <2>4. \A i \in 0 .. n :
          f[i] = IF i = 0 THEN {start} ELSE Turns(f[i - 1], s[i])
    BY <2>1 DEF IsRun
  <2>5. g = [i \in 0 .. n + 1 |-> g[i]]
    OBVIOUS
  <2> HIDE DEF g
  <2>6. ASSUME NEW i \in 0 .. n + 1
        PROVE  g[i] = IF i = 0 THEN {start} ELSE Turns(g[i - 1], s[i])
    <3>1. CASE i = 0
      BY <2>0, <2>2, <2>4, <3>1
    <3>2. CASE i \in 1 .. n
      <4>1. i \in 0 .. n /\ i - 1 \in 0 .. n /\ i # 0
        BY <2>0, <3>2
      <4> QED
        BY <2>2, <2>4, <4>1
    <3>3. CASE i = n + 1
      <4>1. n \in 0 .. n /\ i # 0 /\ i - 1 = n
        BY <2>0, <3>3
      <4> QED
        BY <2>2, <2>3, <3>3, <4>1
    <3> QED
      BY <2>0, <3>1, <3>2, <3>3
  <2>7. IsRun(g, s, start, n + 1)
    BY <2>5, <2>6, Zenon DEF IsRun
  <2> QED
    BY <2>0, <2>7
<1> HIDE DEF S
<1>3. S = Nat
  <2>1. S \in SUBSET Nat
    BY DEF S
  <2> QED
    BY <1>1, <1>2, <2>1, SetInduction
<1> QED
  BY <1>3 DEF S

IsLoop(f, s, start) ==
    /\ Loop(s, start, Body) = f[Len(s)] /\ f[0] = {start}
    /\ \A i \in 0 .. Len(s) - 1 : f[i + 1] = Turns(f[i], s[i + 1])

LEMMA LoopRun ==
  ASSUME NEW s, Len(s) \in Nat, NEW start
  PROVE  \E f : IsLoop(f, s, start)
<1> DEFINE f == CHOOSE f : IsRun(f, s, start, Len(s))
<1>1. IsRun(f, s, start, Len(s))
  BY RunExists, Zenon
<1>2. Loop(s, start, Body) = f[Len(s)]
  BY Zenon DEF Loop, IsRun, Then, Turns
<1> HIDE DEF f
<1>3. \A i \in 0 .. Len(s) :
        f[i] = IF i = 0 THEN {start} ELSE Turns(f[i - 1], s[i])
  BY <1>1 DEF IsRun
<1>4. f[0] = {start}
  BY <1>3
<1>5. ASSUME NEW i \in 0 .. Len(s) - 1
      PROVE  f[i + 1] = Turns(f[i], s[i + 1])
  <2>1. i + 1 \in 0 .. Len(s) /\ i + 1 # 0 /\ (i + 1) - 1 = i
    OBVIOUS
  <2> QED
    BY <1>3, <2>1
<1> QED
  BY <1>2, <1>4, <1>5, Zenon DEF IsLoop

(* A loop of a decoder of which no turn throws yields exactly what its      *)
(* turns lead to, one after the other.                                      *)
LEMMA LoopPath ==
  ASSUME NEW s, Len(s) \in Nat, NEW g,
         \A i \in 0 .. Len(s) - 1 : Body(g[i], s[i + 1]) = {g[i + 1]}
  PROVE  Loop(s, g[0], Body) = {g[Len(s)]}
<1>0. PICK f : IsLoop(f, s, g[0])
  BY LoopRun, Zenon
<1>1. /\ Loop(s, g[0], Body) = f[Len(s)] /\ f[0] = {g[0]}
      /\ \A i \in 0 .. Len(s) - 1 : f[i + 1] = Turns(f[i], s[i + 1])
  BY <1>0, Zenon DEF IsLoop
<1> DEFINE S == {n \in Nat : n <= Len(s) => f[n] = {g[n]}}
<1>2. 0 \in S
  BY <1>1
<1>3. ASSUME NEW n \in S PROVE n + 1 \in S
  <2>1. ASSUME n + 1 <= Len(s) PROVE f[n + 1] = {g[n + 1]}
    <3>1. n \in 0 .. Len(s) - 1 /\ n <= Len(s)
      BY <2>1
    <3>2. f[n + 1] = Turns(f[n], s[n + 1]) /\ f[n] = {g[n]}
      BY <1>1, <3>1
    <3>3. Turns({g[n]}, s[n + 1]) = Body(g[n], s[n + 1])
      BY DEF Turns
    <3> QED
      BY <3>1, <3>2, <3>3
  <2> QED
    BY <2>1
<1> HIDE DEF S
<1>4. S = Nat
  <2>1. S \in SUBSET Nat
    BY DEF S
  <2> QED
    BY <1>2, <1>3, <2>1, SetInduction
<1>5. f[Len(s)] = {g[Len(s)]}
  BY <1>4 DEF S
<1> QED
  BY <1>1, <1>5

(* What every turn of a decoder's loop keeps, if it does not throw, the     *)
(* loop keeps.                                                              *)
LEMMA LoopKeeps ==
  ASSUME NEW s, Len(s) \in Nat, NEW start, Good(start),
         \A i \in 1 .. Len(s) :
           \A a : Good(a) => \A b \in Body(a, s[i]) : Good(b)
  PROVE  \A a \in Loop(s, start, Body) : Good(a)
<1>0. PICK f : IsLoop(f, s, start)
  BY LoopRun, Zenon
<1>1. /\ Loop(s, start, Body) = f[Len(s)] /\ f[0] = {start}
      /\ \A i \in 0 .. Len(s) - 1 : f[i + 1] = Turns(f[i], s[i + 1])
  BY <1>0, Zenon DEF IsLoop
<1> DEFINE S == {n \in Nat : n <= Len(s) => \A a \in f[n] : Good(a)}
<1>2. 0 \in S
  BY <1>1
<1>3. ASSUME NEW n \in S PROVE n + 1 \in S
  <2>1. ASSUME n + 1 <= Len(s), NEW b \in f[n + 1] PROVE Good(b)
    <3>1. n \in 0 .. Len(s) - 1 /\ n <= Len(s) /\ n + 1 \in 1 .. Len(s)
      BY <2>1
    <3>2. f[n + 1] = Turns(f[n], s[n + 1]) /\ \A a \in f[n] : Good(a)
      BY <1>1, <3>1
    <3>3. PICK a \in f[n] : b \in Body(a, s[n + 1])
      BY <2>1, <3>2 DEF Turns
    <3> QED
      BY <3>1, <3>2, <3>3
  <2> QED
    BY <2>1
<1> HIDE DEF S
<1>4. S = Nat
  <2>1. S \in SUBSET Nat
    BY DEF S
  <2> QED
    BY <1>2, <1>3, <2>1, SetInduction
<1>5. \A a \in f[Len(s)] : Good(a)
  BY <1>4 DEF S
<1> QED
  BY <1>1, <1>5
=============================================================================
