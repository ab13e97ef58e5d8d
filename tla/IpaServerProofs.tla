-------------------------- MODULE IpaServerProofs --------------------------
(***************************************************************************)
(* Proofs about module IpaServer.                                           *)
(***************************************************************************)
EXTENDS IpaServer, FiniteSetTheorems, SequenceTheorems, TLAPS

-----------------------------------------------------------------------------
(* Counting the handlers of one operation of one session in a queue.        *)

Indices(q, op, n) == {i \in DOMAIN q : q[i].op = op /\ q[i].id = n}

CountIn(q, op, n) == Cardinality(Indices(q, op, n))

(* The indices of a queue are finitely many, so their number is natural.    *)
LEMMA CountType ==
  ASSUME NEW S, NEW q \in Seq(S), NEW op, NEW n
  PROVE  /\ IsFiniteSet(Indices(q, op, n))
         /\ CountIn(q, op, n) \in Nat
         /\ CountIn(q, op, n) = 0 <=> Indices(q, op, n) = {}
<1>1. /\ DOMAIN q = 1 .. Len(q)
      /\ Len(q) \in Nat
  BY LenProperties
<1>2. IsFiniteSet(1 .. Len(q))
  BY <1>1, FS_Interval
<1>3. Indices(q, op, n) \in SUBSET (1 .. Len(q))
  BY <1>1 DEF Indices
<1>4. IsFiniteSet(Indices(q, op, n))
  BY <1>2, <1>3, FS_Subset
<1> QED
  BY <1>4, FS_CardinalityType, FS_EmptySet DEF CountIn

LEMMA CountEmpty ==
  ASSUME NEW op, NEW n
  PROVE  CountIn(<<>>, op, n) = 0
<1>1. Indices(<<>>, op, n) = {}
  BY DEF Indices
<1> QED
  BY <1>1, FS_EmptySet DEF CountIn

LEMMA CountSingle ==
  ASSUME NEW h, NEW op, NEW n
  PROVE  CountIn(<<h>>, op, n) = IF h.op = op /\ h.id = n THEN 1 ELSE 0
<1>1. Indices(<<h>>, op, n) = IF h.op = op /\ h.id = n THEN {1} ELSE {}
  BY DEF Indices
<1> QED
  BY <1>1, FS_EmptySet, FS_Singleton DEF CountIn

(* Behind a queue, the indices of another one are shifted by its length.    *)
LEMMA CountConcat ==
  ASSUME NEW S, NEW q \in Seq(S), NEW r \in Seq(S), NEW op, NEW n
  PROVE  CountIn(q \o r, op, n) = CountIn(q, op, n) + CountIn(r, op, n)
<1> DEFINE A == Indices(q, op, n)
           B == Indices(r, op, n)
           shifted == {Len(q) + i : i \in B}
           shift == [i \in B |-> Len(q) + i]
<1>1. /\ Len(q) \in Nat /\ Len(r) \in Nat
      /\ DOMAIN q = 1 .. Len(q) /\ DOMAIN r = 1 .. Len(r)
      /\ DOMAIN (q \o r) = 1 .. Len(q) + Len(r)
      /\ \A i \in 1 .. Len(q) + Len(r) :
           (q \o r)[i] = IF i <= Len(q) THEN q[i] ELSE r[i - Len(q)]
  BY LenProperties, ConcatProperties
<1>2. IsFiniteSet(A) /\ IsFiniteSet(B)
  BY CountType
<1>3. A \subseteq 1 .. Len(q) /\ B \subseteq 1 .. Len(r)
  BY <1>1 DEF Indices
<1>4. shift \in Bijection(B, shifted)
  BY <1>1, <1>3 DEF Bijection, Injection, Surjection, IsInjective
<1>5. IsFiniteSet(shifted) /\ Cardinality(shifted) = Cardinality(B)
  BY <1>2, <1>4, FS_Bijection DEF ExistsBijection
<1>6. Indices(q \o r, op, n) = A \cup shifted
  <2>1. ASSUME NEW i \in Indices(q \o r, op, n)
        PROVE  i \in A \cup shifted
    <3>1. i \in 1 .. Len(q) + Len(r) /\ (q \o r)[i].op = op /\ (q \o r)[i].id = n
      BY <1>1, <2>1 DEF Indices
    <3>2. CASE i <= Len(q)
      BY <1>1, <3>1, <3>2 DEF Indices
    <3>3. CASE ~(i <= Len(q))
      <4>1. i - Len(q) \in B /\ i = Len(q) + (i - Len(q))
        BY <1>1, <3>1, <3>3 DEF Indices
      <4> QED
        BY <4>1
    <3> QED
      BY <3>2, <3>3
  <2>2. ASSUME NEW i \in A
        PROVE  i \in Indices(q \o r, op, n)
    BY <1>1 DEF Indices
  <2>3. ASSUME NEW j \in B
        PROVE  Len(q) + j \in Indices(q \o r, op, n)
    <3>1. j \in 1 .. Len(r) /\ r[j].op = op /\ r[j].id = n
      BY <1>1 DEF Indices
    <3>2. Len(q) + j \in 1 .. Len(q) + Len(r) /\ (q \o r)[Len(q) + j] = r[j]
      BY <1>1, <3>1
    <3> QED
      BY <1>1, <3>1, <3>2 DEF Indices
  <2> QED
    BY <2>1, <2>2, <2>3
<1>7. A \cap shifted = {}
  BY <1>1, <1>3
<1>8. Cardinality(A \cup shifted) = Cardinality(A) + Cardinality(shifted) - 0
  BY <1>2, <1>5, <1>7, FS_Union, FS_EmptySet
<1> QED
  BY <1>2, <1>5, <1>6, <1>8, FS_CardinalityType DEF CountIn

LEMMA CountAppend ==
  ASSUME NEW S, NEW q \in Seq(S), NEW h \in S, NEW op, NEW n
  PROVE  CountIn(Append(q, h), op, n)
           = CountIn(q, op, n) + (IF h.op = op /\ h.id = n THEN 1 ELSE 0)
<1> <<h>> \in Seq(S)
  OBVIOUS
<1>1. PICK r \in Seq(S) : r = <<h>>
  BY Zenon
<1>2. Append(q, h) = q \o r
  BY <1>1
<1>3. CountIn(q \o r, op, n) = CountIn(q, op, n) + CountIn(r, op, n)
  BY CountConcat
<1> QED
  BY <1>1, <1>2, <1>3, CountSingle

LEMMA CountTail ==
  ASSUME NEW S, NEW q \in Seq(S), q # <<>>, NEW op, NEW n
  PROVE  /\ Head(q) \in S /\ Tail(q) \in Seq(S)
         /\ CountIn(Tail(q), op, n) = CountIn(q, op, n)
              - (IF Head(q).op = op /\ Head(q).id = n THEN 1 ELSE 0)
<1>1. /\ Head(q) \in S
      /\ <<Head(q)>> \in Seq(S)
      /\ Tail(q) \in Seq(S)
  OBVIOUS
<1>2. PICK r \in Seq(S) : r = <<Head(q)>>
  BY <1>1, Zenon
<1>3. PICK t \in Seq(S) : t = Tail(q)
  BY <1>1, Zenon
<1>4. q = r \o t
  BY <1>2, <1>3
<1>5. CountIn(r \o t, op, n) = CountIn(r, op, n) + CountIn(t, op, n)
  BY CountConcat
<1>6. CountIn(r, op, n)
        = IF Head(q).op = op /\ Head(q).id = n THEN 1 ELSE 0
  BY <1>2, CountSingle
<1>7. CountIn(t, op, n) \in Nat
  BY CountType
<1>8. /\ CountIn(q, op, n) = CountIn(r, op, n) + CountIn(t, op, n)
      /\ CountIn(Tail(q), op, n) = CountIn(t, op, n)
  BY <1>3, <1>4, <1>5, Zenon
<1>9. CountIn(t, op, n) = CountIn(q, op, n)
        - (IF Head(q).op = op /\ Head(q).id = n THEN 1 ELSE 0)
  BY <1>6, <1>7, <1>8
<1> QED
  BY <1>1, <1>8, <1>9, Zenon

(* A sequence of a set of handlers has each of them once.                   *)
LEMMA CountInOrder ==
  ASSUME NEW T, IsFiniteSet(T), NEW s \in SetToSeqs(T), NEW op, NEW n,
         \A g, h \in T : g.op = op /\ g.id = n /\ h.op = op /\ h.id = n
                           => g = h
  PROVE  /\ s \in Seq(T)
         /\ \A h \in T : h.op = op /\ h.id = n => CountIn(s, op, n) = 1
         /\ (\A h \in T : ~(h.op = op /\ h.id = n)) => CountIn(s, op, n) = 0
<1> DEFINE D == 1 .. Cardinality(T)
<1>1. Cardinality(T) \in Nat
  BY FS_CardinalityType
<1>2. s \in [D -> T] /\ \A i, j \in D : i # j => s[i] # s[j]
  BY DEF SetToSeqs
<1>3. s \in Seq(T) /\ DOMAIN s = D
  BY <1>1, <1>2
<1>4. s \in Surjection(D, T)
  <2>1. s \in Injection(D, T)
    BY <1>2 DEF Injection, IsInjective
  <2>2. Cardinality(D) = Cardinality(T)
    BY <1>1, FS_Interval
  <2> QED
    BY <2>1, <2>2, FS_Injection
<1>5. \A h \in T : \E i \in D : s[i] = h
  BY <1>4 DEF Surjection
<1>6. CASE \E h \in T : h.op = op /\ h.id = n
  <2>1. PICK h \in T : h.op = op /\ h.id = n
    BY <1>6
  <2>2. PICK i \in D : s[i] = h
    BY <1>5
  <2>3. Indices(s, op, n) = {i}
    BY <1>2, <1>3, <2>1, <2>2 DEF Indices
  <2> QED
    BY <1>3, <1>6, <2>3, FS_Singleton DEF CountIn
<1>7. CASE ~\E h \in T : h.op = op /\ h.id = n
  <2>1. Indices(s, op, n) = {}
    BY <1>2, <1>3, <1>7 DEF Indices
  <2> QED
    BY <1>3, <1>7, <2>1, FS_EmptySet DEF CountIn
<1> QED
  BY <1>6, <1>7

-----------------------------------------------------------------------------
(* The inductive invariant.                                                 *)

(* A handler of a session names one that was accepted, and the function     *)
(* sendGsup posts one that has identified itself.                           *)
GoodHandler(h, sessions) ==
    /\ h \in HandlerType
    /\ h.id \in IF h.op \in {"accept", "send"} THEN 0 .. Len(sessions)
                                              ELSE 1 .. Len(sessions)
    /\ h.op = "enqueue" => sessions[h.id].handshaken

GoodQueue(q, sessions) ==
    /\ q \in Seq(HandlerType)
    /\ \A i \in DOMAIN q : GoodHandler(q[i], sessions)

(* What holds of each session: at most one write in flight, GSUP only after *)
(* the handshake, and, while it is in allSessions_, that it has not stopped,*)
(* that it is watched, and that it is routed to exactly when it is ready.   *)
SessionInv(n) ==
    /\ CountIn(ready, "write", n) + (IF session[n].sending THEN 1 ELSE 0)
         <= (IF session[n].writing_ /\ session[n].writeQueue_ # <<>>
               THEN 1 ELSE 0)
    /\ session[n].state_ = "Ready" => session[n].handshaken
    /\ ~session[n].handshaken =>
         /\ n \notin dispatched
         /\ \A i \in DOMAIN session[n].writeQueue_ :
              session[n].writeQueue_[i] = "Ccm"
    /\ n \in allSessions_ =>
         /\ session[n].state_ # "Stopped"
         /\ (IF session[n].reading THEN 1 ELSE 0)
              + CountIn(ready, "read", n) = 1
    /\ n \in sessions_ <=> n \in allSessions_ /\ session[n].state_ = "Ready"

Types ==
    /\ acceptor_ \in {"accepting", "idle", "closed"}
    /\ session \in Seq(IpaSession)
    /\ allSessions_ \subseteq ClientId
    /\ sessions_ \subseteq ClientId
    /\ process \in {"running", "terminated"}
    /\ dispatched \subseteq ClientId

IInv ==
    /\ Types
    /\ GoodQueue(ready, session)
    /\ \A n \in ClientId : SessionInv(n)

(* The invariant implies every property of the run.                         *)
LEMMA IInvImplies ==
  IInv => /\ TypeOK /\ RoutesToReady /\ IdentifiedFirst
          /\ OneWriteInFlight /\ Watched
<1> SUFFICES ASSUME IInv
             PROVE  /\ TypeOK /\ RoutesToReady /\ IdentifiedFirst
                    /\ OneWriteInFlight /\ Watched
  OBVIOUS
<1>1. \A op, n : InQueue(op, n) = CountIn(ready, op, n)
  BY DEF InQueue, CountIn, Indices
<1>2. TypeOK
  BY DEF IInv, Types, GoodQueue, GoodHandler, TypeOK, ClientId
<1>3. RoutesToReady
  BY DEF IInv, Types, SessionInv, RoutesToReady
<1>4. IdentifiedFirst
  BY DEF IInv, SessionInv, IdentifiedFirst
<1>5. OneWriteInFlight
  BY <1>1 DEF IInv, SessionInv, OneWriteInFlight
<1>6. Watched
  BY <1>1 DEF IInv, Types, SessionInv, Watched
<1> QED
  BY <1>2, <1>3, <1>4, <1>5, <1>6

LEMMA IInvInit == Init => IInv
  BY DEF Init, IInv, Types, GoodQueue, ClientId

-----------------------------------------------------------------------------
(* Queues of good handlers.                                                 *)

LEMMA GoodEmpty == \A sessions : GoodQueue(<<>>, sessions)
  BY DEF GoodQueue

LEMMA GoodSingle ==
  ASSUME NEW sessions, NEW h, GoodHandler(h, sessions)
  PROVE  GoodQueue(<<h>>, sessions)
  BY DEF GoodQueue, GoodHandler

LEMMA GoodTail ==
  ASSUME NEW sessions, NEW q, GoodQueue(q, sessions), q # <<>>
  PROVE  GoodHandler(Head(q), sessions) /\ GoodQueue(Tail(q), sessions)
<1>1. /\ q \in Seq(HandlerType) /\ Tail(q) \in Seq(HandlerType)
      /\ DOMAIN q = 1 .. Len(q) /\ DOMAIN Tail(q) = 1 .. Len(q) - 1
      /\ Len(q) \in Nat /\ Len(q) > 0
      /\ Head(q) = q[1] /\ \A i \in 1 .. Len(q) - 1 : Tail(q)[i] = q[i + 1]
  BY DEF GoodQueue
<1> QED
  BY <1>1 DEF GoodQueue

LEMMA GoodConcat ==
  ASSUME NEW sessions, NEW q, NEW r, GoodQueue(q, sessions),
         GoodQueue(r, sessions)
  PROVE  GoodQueue(q \o r, sessions)
<1>1. q \in Seq(HandlerType) /\ r \in Seq(HandlerType)
  BY DEF GoodQueue
<1>2. /\ Len(q) \in Nat /\ Len(r) \in Nat
      /\ DOMAIN q = 1 .. Len(q) /\ DOMAIN r = 1 .. Len(r)
      /\ q \o r \in Seq(HandlerType)
      /\ DOMAIN (q \o r) = 1 .. Len(q) + Len(r)
      /\ \A i \in 1 .. Len(q) + Len(r) :
           (q \o r)[i] = IF i <= Len(q) THEN q[i] ELSE r[i - Len(q)]
  BY <1>1, LenProperties, ConcatProperties
<1>3. ASSUME NEW i \in 1 .. Len(q) + Len(r)
      PROVE  GoodHandler((q \o r)[i], sessions)
  <2>1. CASE i <= Len(q)
    BY <1>2, <2>1 DEF GoodQueue
  <2>2. CASE ~(i <= Len(q))
    <3>1. i - Len(q) \in 1 .. Len(r) /\ (q \o r)[i] = r[i - Len(q)]
      BY <1>2, <2>2
    <3> QED
      BY <1>2, <3>1 DEF GoodQueue
  <2> QED
    BY <2>1, <2>2
<1> QED
  BY <1>2, <1>3 DEF GoodQueue

LEMMA GoodAppend ==
  ASSUME NEW sessions, NEW q, NEW h, GoodQueue(q, sessions),
         GoodHandler(h, sessions)
  PROVE  GoodQueue(Append(q, h), sessions)
<1>1. q \in Seq(HandlerType) /\ h \in HandlerType
  BY DEF GoodQueue, GoodHandler
<1>2. /\ Len(q) \in Nat /\ DOMAIN q = 1 .. Len(q)
      /\ Append(q, h) \in Seq(HandlerType)
      /\ DOMAIN Append(q, h) = 1 .. Len(q) + 1
      /\ \A i \in 1 .. Len(q) + 1 :
           Append(q, h)[i] = IF i <= Len(q) THEN q[i] ELSE h
  BY <1>1
<1> QED
  BY <1>2 DEF GoodQueue

(* Sessions are only added, and keep that they identified themselves.       *)
LEMMA GoodLater ==
  ASSUME NEW old \in Seq(IpaSession), NEW new \in Seq(IpaSession), NEW q,
         GoodQueue(q, old), Len(old) <= Len(new),
         \A n \in 1 .. Len(old) : old[n].handshaken => new[n].handshaken
  PROVE  GoodQueue(q, new)
<1>1. Len(old) \in Nat /\ Len(new) \in Nat
  OBVIOUS
<1> QED
  BY <1>1 DEF GoodQueue, GoodHandler

(* No handler in the queue names a session that was not accepted yet.       *)
LEMMA CountUnknown ==
  ASSUME NEW sessions, Len(sessions) \in Nat, NEW q, GoodQueue(q, sessions),
         NEW op
  PROVE  op \in {"read", "write"} => CountIn(q, op, Len(sessions) + 1) = 0
<1>1. Indices(q, op, Len(sessions) + 1) = {}
  BY DEF Indices, GoodQueue, GoodHandler
<1> QED
  BY <1>1, FS_EmptySet DEF CountIn

LEMMA HandlerFields ==
  ASSUME NEW op, NEW n
  PROVE  /\ Due(op, n) = [op |-> op, id |-> n, ok |-> TRUE, frames |-> <<>>]
         /\ Failed(op, n) = [op |-> op, id |-> n, ok |-> FALSE, frames |-> <<>>]
         /\ Due(op, n).op = op /\ Due(op, n).id = n
         /\ Failed(op, n).op = op /\ Failed(op, n).id = n
  BY DEF Due, Failed, Handler

LEMMA HandlerGood ==
  ASSUME NEW sessions, Len(sessions) \in Nat,
         NEW op \in {"accept", "read", "write", "send"},
         NEW n, n \in IF op \in {"accept", "send"} THEN 0 .. Len(sessions)
                                                  ELSE 1 .. Len(sessions)
  PROVE  /\ GoodHandler(Due(op, n), sessions)
         /\ GoodHandler(Failed(op, n), sessions)
         /\ \A frames \in Seq(Frame) :
              GoodHandler(Handler(op, n, TRUE, frames), sessions)
<1>1. n \in Nat
  OBVIOUS
<1>2. \A ok \in BOOLEAN, frames \in Seq(Frame) :
        GoodHandler(Handler(op, n, ok, frames), sessions)
  BY <1>1 DEF GoodHandler, Handler, HandlerType
<1>3. <<>> \in Seq(Frame)
  OBVIOUS
<1> QED
  BY <1>2, <1>3 DEF Due, Failed

-----------------------------------------------------------------------------
(* The steps.                                                               *)

(* What a step leaves alone keeps its invariant.                            *)
LEMMA Untouched ==
  ASSUME NEW n, SessionInv(n), session'[n] = session[n],
         CountIn(ready', "read", n) = CountIn(ready, "read", n),
         CountIn(ready', "write", n) = CountIn(ready, "write", n),
         n \in allSessions_' <=> n \in allSessions_,
         n \in sessions_' <=> n \in sessions_,
         n \notin dispatched'
  PROVE  SessionInv(n)'
  BY DEF SessionInv

LEMMA TypesFacts ==
  ASSUME IInv
  PROVE  /\ session \in Seq(IpaSession)
         /\ Len(session) \in Nat
         /\ ClientId = 1 .. Len(session)
         /\ \A n \in ClientId : session[n] \in IpaSession
         /\ ready \in Seq(HandlerType)
  BY DEF IInv, Types, GoodQueue, ClientId

(* The queue behind its head.                                               *)
Rest == Tail(ready)

(* The queue before and after its head is taken.                            *)
LEMMA HeadFacts ==
  ASSUME IInv, ready # <<>>, NEW op, Head(ready).op = op
  PROVE  /\ GoodHandler(Head(ready), session)
         /\ op \notin {"accept", "send"} => id \in ClientId
         /\ Rest \in Seq(HandlerType) /\ GoodQueue(Rest, session)
         /\ \A o, n : CountIn(ready, o, n) \in Nat
         /\ \A o, n : o # op \/ n # id =>
                         CountIn(Rest, o, n) = CountIn(ready, o, n)
         /\ CountIn(Rest, op, id) = CountIn(ready, op, id) - 1
<1>1. ready \in Seq(HandlerType)
  BY TypesFacts
<1>2. GoodHandler(Head(ready), session) /\ GoodQueue(Rest, session)
  BY <1>1, GoodTail DEF IInv, Rest
<1>3. \A o, n : CountIn(ready, o, n) \in Nat
  BY <1>1, CountType
<1>4. Rest \in Seq(HandlerType)
  BY <1>1 DEF Rest
<1>5. ASSUME NEW o, NEW n
      PROVE  CountIn(Rest, o, n) = CountIn(ready, o, n)
               - (IF Head(ready).op = o /\ Head(ready).id = n THEN 1 ELSE 0)
  BY <1>1, CountTail DEF Rest
<1>6. ASSUME NEW o, NEW n, o # op \/ n # id
      PROVE  CountIn(Rest, o, n) = CountIn(ready, o, n)
  BY <1>1, <1>3, <1>5, <1>6 DEF id
<1>7. CountIn(Rest, op, id) = CountIn(ready, op, id) - 1
  BY <1>1, <1>5 DEF id
<1>8. op \notin {"accept", "send"} => id \in ClientId
  BY <1>1, <1>2 DEF GoodHandler, id, ClientId
<1> QED
  BY <1>1, <1>2, <1>3, <1>4, <1>6, <1>7, <1>8

(* A step that changes only the queue, by handlers of neither kind counted, *)
(* keeps the invariant.                                                     *)
LEMMA QueueStep ==
  ASSUME IInv, UNCHANGED <<session, allSessions_, sessions_>>,
         acceptor_' \in {"accepting", "idle", "closed"},
         process' \in {"running", "terminated"},
         dispatched' = {}, GoodQueue(ready', session),
         \A n \in ClientId :
           /\ CountIn(ready', "read", n) = CountIn(ready, "read", n)
           /\ CountIn(ready', "write", n) = CountIn(ready, "write", n)
  PROVE  IInv'
<1>1. Types'
  BY DEF IInv, Types, ClientId
<1>2. ASSUME NEW n \in ClientId
      PROVE  SessionInv(n)'
  <2>1. SessionInv(n)
    BY DEF IInv
  <2> QED
    BY <2>1, Untouched
<1>3. ClientId' = ClientId
  BY DEF ClientId
<1> QED
  BY <1>1, <1>2, <1>3 DEF IInv

LEMMA TerminatesStep ==
  ASSUME IInv, Terminates
  PROVE  IInv'
  BY QueueStep DEF Terminates, IInv, Types

LEMMA OnAcceptStep ==
  ASSUME IInv, OnAccept
  PROVE  IInv'
<1>1. CASE Terminates
  BY <1>1, TerminatesStep
<1>2. CASE /\ session' = Append(session, NewSession)
           /\ allSessions_' = allSessions_ \cup {nextClientId_}
           /\ acceptor_' = IF acceptor_ = "closed" THEN "closed" ELSE "accepting"
           /\ ready' = Tail(ready)
           /\ dispatched' = {}
           /\ UNCHANGED <<sessions_, process>>
  <2>1. ready # <<>> /\ Head(ready).op = "accept" /\ ready' = Rest
    BY <1>2 DEF OnAccept, Runs, Rest
  <2>0. PICK new \in Nat : new = Len(session) + 1
    BY TypesFacts
  <2>2. NewSession \in IpaSession
    BY DEF NewSession, IpaSession
  <2>3. /\ session' \in Seq(IpaSession)
        /\ Len(session') = new /\ session'[new] = NewSession
        /\ \A n \in ClientId : session'[n] = session[n]
        /\ ClientId' = ClientId \cup {new} /\ new \notin ClientId
    BY <1>2, <2>0, <2>2, TypesFacts DEF ClientId
  <2>4. Types'
    BY <1>2, <2>0, <2>3 DEF IInv, Types, nextClientId_
  <2>5. GoodQueue(ready', session')
    <3>1. GoodQueue(Rest, session)
      BY <2>1, HeadFacts
    <3> QED
      BY <2>0, <2>1, <2>3, <3>1, TypesFacts, GoodLater DEF ClientId
  <2>6. \A o, n : o \in {"read", "write"} =>
                    CountIn(ready', o, n) = CountIn(ready, o, n)
    BY <2>1, HeadFacts
  <2>7. ASSUME NEW n \in ClientId
        PROVE  SessionInv(n)'
    <3>1. /\ SessionInv(n) /\ session'[n] = session[n]
          /\ n \in allSessions_' <=> n \in allSessions_
          /\ n \in sessions_' <=> n \in sessions_
          /\ n \notin dispatched'
      BY <1>2, <2>0, <2>3 DEF IInv, nextClientId_
    <3>2. /\ CountIn(ready', "read", n) = CountIn(ready, "read", n)
          /\ CountIn(ready', "write", n) = CountIn(ready, "write", n)
      BY <2>6
    <3> QED
      BY <3>1, <3>2, Untouched
  <2>8. SessionInv(new)'
    <3>1. CountIn(ready, "write", new) = 0 /\ CountIn(ready, "read", new) = 0
      BY <2>0, TypesFacts, CountUnknown DEF IInv
    <3>2. CountIn(ready', "write", new) = 0 /\ CountIn(ready', "read", new) = 0
      BY <2>6, <3>1
    <3>3. new \notin sessions_' /\ new \notin dispatched'
      BY <1>2, <2>3 DEF IInv, Types
    <3> QED
      BY <2>3, <3>2, <3>3 DEF SessionInv, NewSession
  <2> QED
    BY <2>3, <2>4, <2>5, <2>7, <2>8 DEF IInv
<1> QED
  BY <1>1, <1>2 DEF OnAccept

LEMMA OnAcceptFailedStep ==
  ASSUME IInv, OnAcceptFailed
  PROVE  IInv'
<1>1. ready # <<>> /\ Head(ready).op = "accept" /\ ready' = Rest
  BY DEF OnAcceptFailed, Runs, Rest
<1>2. GoodQueue(ready', session)
  BY <1>1, HeadFacts
<1>3. \A o, n : o \in {"read", "write"} =>
                  CountIn(ready', o, n) = CountIn(ready, o, n)
  BY <1>1, HeadFacts
<1> QED
  BY <1>2, <1>3, QueueStep DEF OnAcceptFailed, IInv, Types

(* Only a session that has not stopped is in a table, so that nothing is    *)
(* left to do for one that has.                                             *)
LEMMA DisconnectStep ==
  ASSUME IInv, ready # <<>>, NEW op \in {"read", "write"},
         Head(ready).op = op, Disconnect
  PROVE  IInv'
<1>1. PICK m \in ClientId : m = id
  BY HeadFacts
<1>2. session[m] \in IpaSession /\ SessionInv(m)
  BY TypesFacts DEF IInv
<1>3. PICK t \in IpaSession :
        /\ t.state_ = "Stopped"
        /\ t.sending = session[m].sending
        /\ t.writing_ = session[m].writing_
        /\ t.writeQueue_ = session[m].writeQueue_
        /\ t.handshaken = session[m].handshaken
        /\ session' = [session EXCEPT ![m] = t]
        /\ allSessions_' = allSessions_ \ {m}
        /\ sessions_' = sessions_ \ {m}
  <2>1. CASE session[m].state_ = "Stopped"
    <3>1. m \notin allSessions_ /\ m \notin sessions_
      BY <1>2, <2>1 DEF SessionInv
    <3>2. session' = [session EXCEPT ![m] = session[m]]
      BY <1>1, <2>1, TypesFacts DEF Disconnect
    <3> QED
      BY <1>1, <1>2, <2>1, <3>1, <3>2 DEF Disconnect
  <2>2. CASE session[m].state_ # "Stopped"
    <3>1. PICK t : t = [session[m] EXCEPT !.state_ = "Stopped"]
      OBVIOUS
    <3>2. /\ t \in IpaSession /\ t.state_ = "Stopped"
          /\ t.sending = session[m].sending
          /\ t.writing_ = session[m].writing_
          /\ t.writeQueue_ = session[m].writeQueue_
          /\ t.handshaken = session[m].handshaken
      BY <1>2, <3>1 DEF IpaSession
    <3>3. /\ session' = [session EXCEPT ![m] = t]
          /\ allSessions_' = allSessions_ \ {m}
          /\ sessions_' = sessions_ \ {m}
      BY <1>1, <2>2, <3>1 DEF Disconnect
    <3> QED
      BY <3>2, <3>3
  <2> QED
    BY <2>1, <2>2
<1>4. /\ session' \in Seq(IpaSession) /\ Len(session') = Len(session)
      /\ ClientId' = ClientId /\ session'[m] = t
      /\ \A n \in ClientId : n # m => session'[n] = session[n]
  BY <1>3, TypesFacts DEF ClientId
<1>5. /\ ready' = Rest /\ dispatched' = {}
      /\ acceptor_' = acceptor_ /\ process' = process
  BY DEF Disconnect, Rest
<1>6. ASSUME NEW o, NEW n
      PROVE  /\ n # m => CountIn(ready', o, n) = CountIn(ready, o, n)
             /\ CountIn(ready', o, n) <= CountIn(ready, o, n)
             /\ CountIn(ready', o, n) \in Int /\ CountIn(ready, o, n) \in Int
  <2>1. /\ CountIn(ready, o, n) \in Nat
        /\ o # op \/ n # m => CountIn(Rest, o, n) = CountIn(ready, o, n)
        /\ CountIn(Rest, op, m) = CountIn(ready, op, m) - 1
    BY <1>1, HeadFacts
  <2> QED
    BY <1>5, <2>1
<1>7. Types'
  BY <1>3, <1>4, <1>5 DEF IInv, Types
<1>8. GoodQueue(ready', session')
  <2>1. GoodQueue(Rest, session)
    BY HeadFacts
  <2>2. \A n \in ClientId : session[n].handshaken => session'[n].handshaken
    BY <1>3, <1>4
  <2> QED
    BY <1>4, <1>5, <2>1, <2>2, TypesFacts, GoodLater
<1>9. ASSUME NEW n \in ClientId, n # m
      PROVE  SessionInv(n)'
  <2>1. SessionInv(n)
    BY DEF IInv
  <2> QED
    BY <1>3, <1>4, <1>5, <1>6, <1>9, <2>1, Untouched
<1>10. SessionInv(m)'
  BY <1>2, <1>3, <1>4, <1>5, <1>6 DEF SessionInv
<1> QED
  BY <1>4, <1>7, <1>8, <1>9, <1>10 DEF IInv

(* A step that changes one session, and the queue by handlers of it.        *)
LEMMA OneSessionStep ==
  ASSUME IInv, NEW m \in ClientId, NEW t \in IpaSession,
         session' = [session EXCEPT ![m] = t],
         session[m].handshaken => t.handshaken,
         UNCHANGED <<acceptor_, allSessions_, process>>,
         sessions_' \subseteq ClientId, dispatched' \subseteq {m},
         \A n : n # m => (n \in sessions_' <=> n \in sessions_),
         GoodQueue(ready', session),
         \A n \in ClientId : n # m =>
           /\ CountIn(ready', "read", n) = CountIn(ready, "read", n)
           /\ CountIn(ready', "write", n) = CountIn(ready, "write", n),
         SessionInv(m)'
  PROVE  IInv' /\ session'[m] = t
<1>1. /\ session' \in Seq(IpaSession) /\ Len(session') = Len(session)
      /\ ClientId' = ClientId /\ session'[m] = t
      /\ \A n \in ClientId : n # m => session'[n] = session[n]
  BY TypesFacts DEF ClientId
<1>2. Types'
  BY <1>1 DEF IInv, Types
<1>3. GoodQueue(ready', session')
  <2>1. \A n \in ClientId : session[n].handshaken => session'[n].handshaken
    BY <1>1
  <2>2. Len(session) <= Len(session') /\ ClientId = 1 .. Len(session)
    BY <1>1, TypesFacts
  <2> QED
    BY <1>1, <2>1, <2>2, TypesFacts, GoodLater
<1>4. ASSUME NEW n \in ClientId, n # m
      PROVE  SessionInv(n)'
  <2>1. /\ SessionInv(n) /\ session'[n] = session[n] /\ n \notin dispatched'
        /\ n \in allSessions_' <=> n \in allSessions_
        /\ n \in sessions_' <=> n \in sessions_
    BY <1>1, <1>4 DEF IInv
  <2> QED
    BY <1>4, <2>1, Untouched
<1> QED
  BY <1>1, <1>2, <1>3, <1>4 DEF IInv

(* A handler that is appended.                                              *)
LEMMA Appended ==
  ASSUME NEW op, NEW m, NEW q, NEW h, IInv, GoodQueue(q, session),
         GoodHandler(h, session), h.op = op, h.id = m
  PROVE  /\ GoodQueue(Append(q, h), session)
         /\ \A o, n : o # op \/ n # m =>
                        CountIn(Append(q, h), o, n) = CountIn(q, o, n)
         /\ CountIn(Append(q, h), op, m) = CountIn(q, op, m) + 1
<1>1. q \in Seq(HandlerType) /\ h \in HandlerType
  BY DEF GoodQueue, GoodHandler
<1>2. GoodQueue(Append(q, h), session)
  BY GoodAppend
<1>3. \A o, n : CountIn(q, o, n) \in Nat
  BY <1>1, CountType
<1>4. ASSUME NEW o, NEW n
      PROVE  CountIn(Append(q, h), o, n)
               = CountIn(q, o, n) + (IF h.op = o /\ h.id = n THEN 1 ELSE 0)
  BY <1>1, CountAppend
<1>5. ASSUME NEW o, NEW n, o # op \/ n # m
      PROVE  CountIn(Append(q, h), o, n) = CountIn(q, o, n)
  BY <1>3, <1>4, <1>5
<1>6. CountIn(Append(q, h), op, m) = CountIn(q, op, m) + 1
  BY <1>3, <1>4
<1> QED
  BY <1>2, <1>5, <1>6

(* The same for the handler of an operation that failed.                    *)
LEMMA AppendedFailure ==
  ASSUME NEW q, NEW op \in {"read", "write"}, NEW m \in ClientId,
         IInv, GoodQueue(q, session)
  PROVE  /\ GoodQueue(Append(q, Failed(op, m)), session)
         /\ \A o, n : o # op \/ n # m =>
              CountIn(Append(q, Failed(op, m)), o, n) = CountIn(q, o, n)
         /\ CountIn(Append(q, Failed(op, m)), op, m) = CountIn(q, op, m) + 1
<1>1. PICK h : h = Failed(op, m)
  OBVIOUS
<1>2. h.op = op /\ h.id = m
  BY <1>1, HandlerFields, Zenon
<1>3. GoodHandler(h, session)
  BY <1>1, TypesFacts, HandlerGood
<1>4. /\ GoodQueue(Append(q, h), session)
      /\ CountIn(Append(q, h), op, m) = CountIn(q, op, m) + 1
  BY <1>2, <1>3, Appended
<1>5. ASSUME NEW o, NEW n, o # op \/ n # m
      PROVE  CountIn(Append(q, h), o, n) = CountIn(q, o, n)
  BY <1>2, <1>3, <1>5, Appended
<1> QED
  BY <1>1, <1>4, <1>5, Zenon

LEMMA EnqueueFacts ==
  ASSUME NEW s \in IpaSession, NEW frames \in Seq({"Ccm", "Gsup"}),
         NEW t, t = Enqueue(s, frames)
  PROVE  /\ t \in IpaSession
         /\ t.state_ = s.state_ /\ t.open = s.open
         /\ t.reading = s.reading /\ t.handshaken = s.handshaken
         /\ t.writeQueue_ = s.writeQueue_ \o frames
         /\ t.writing_ <=> s.writing_ \/ frames # <<>>
         /\ t.sending <=> s.sending \/ (frames # <<>> /\ ~s.writing_ /\ s.open)
<1> DEFINE starts == frames # <<>> /\ ~s.writing_
<1>1. s.writeQueue_ \o frames \in Seq({"Ccm", "Gsup"})
  BY DEF IpaSession
<1>2. (s.writing_ \/ starts) \in BOOLEAN /\ (s.sending \/ (starts /\ s.open)) \in BOOLEAN
  OBVIOUS
<1>3. /\ t \in IpaSession
      /\ t.state_ = s.state_ /\ t.open = s.open
      /\ t.reading = s.reading /\ t.handshaken = s.handshaken
      /\ t.writeQueue_ = s.writeQueue_ \o frames
      /\ t.writing_ = (s.writing_ \/ starts)
      /\ t.sending = (s.sending \/ (starts /\ s.open))
  <2> HIDE DEF starts
  <2>1. t = [s EXCEPT !.writeQueue_ = s.writeQueue_ \o frames,
                      !.writing_ = s.writing_ \/ starts,
                      !.sending = s.sending \/ (starts /\ s.open)]
    BY DEF Enqueue, starts
  <2> QED
    BY <1>1, <1>2, <2>1 DEF IpaSession
<1> QED
  BY <1>3

(* Whatever enqueue adds, at most one write of the session is in flight:    *)
(* before is the number of handlers of its writes in the queue, after that  *)
(* with the handler of a write that failed at once.                         *)
LEMMA EnqueueInFlight ==
  ASSUME NEW s \in IpaSession, NEW frames \in Seq({"Ccm", "Gsup"}),
         NEW before \in Nat, NEW after \in Nat,
         before + (IF s.sending THEN 1 ELSE 0)
           <= (IF s.writing_ /\ s.writeQueue_ # <<>> THEN 1 ELSE 0),
         frames # <<>> /\ ~s.writing_ /\ ~s.open => after = before + 1,
         frames = <<>> \/ s.writing_ \/ s.open => after = before
  PROVE  after + (IF Enqueue(s, frames).sending THEN 1 ELSE 0)
           <= (IF /\ Enqueue(s, frames).writing_
                  /\ Enqueue(s, frames).writeQueue_ # <<>> THEN 1 ELSE 0)
<1>1. s.writeQueue_ \in Seq({"Ccm", "Gsup"})
  BY DEF IpaSession
<1>2. s.writeQueue_ \o frames = <<>> <=> s.writeQueue_ = <<>> /\ frames = <<>>
  BY <1>1
<1> QED
  BY <1>2, EnqueueFacts

LEMMA RunEnqueueStep ==
  ASSUME IInv, RunEnqueue
  PROVE  IInv'
<1>1. ready # <<>> /\ Head(ready).op = "enqueue"
  BY DEF RunEnqueue, Runs
<1>2. PICK m \in ClientId : m = id
  BY <1>1, HeadFacts
<1>3. /\ session[m] \in IpaSession /\ SessionInv(m)
      /\ session \in Seq(IpaSession) /\ session[m].handshaken
  <2>1. GoodHandler(Head(ready), session)
    BY <1>1, HeadFacts
  <2> QED
    BY <1>1, <1>2, <2>1, TypesFacts DEF IInv, GoodHandler, id
<1> <<"Gsup">> \in Seq({"Ccm", "Gsup"})
  OBVIOUS
<1>4. PICK gsup \in Seq({"Ccm", "Gsup"}) : gsup = <<"Gsup">>
  BY Zenon
<1>5. PICK t : t = Enqueue(session[m], gsup)
  OBVIOUS
<1>6. /\ t \in IpaSession /\ t.state_ = session[m].state_
      /\ t.reading = session[m].reading
      /\ t.handshaken = session[m].handshaken
  BY <1>3, <1>5, EnqueueFacts
<1> DEFINE c == ~session[m].open /\ ~session[m].writing_
<1>7. /\ session' = [session EXCEPT ![m] = t]
      /\ ready' = Rest \o (IF c THEN <<Failed("write", m)>> ELSE <<>>)
      /\ dispatched' = {}
      /\ UNCHANGED <<acceptor_, allSessions_, sessions_, process>>
  BY <1>2, <1>4, <1>5 DEF RunEnqueue, Rest
<1>8. session'[m] = t
  BY <1>2, <1>3, <1>6, <1>7, TypesFacts
<1>9. GoodQueue(Rest, session) /\ Rest \in Seq(HandlerType)
  BY <1>1, HeadFacts
<1>10. /\ GoodQueue(ready', session)
       /\ \A o, n : o # "write" \/ n # m =>
                      CountIn(ready', o, n) = CountIn(Rest, o, n)
       /\ CountIn(ready', "write", m)
            = IF c THEN CountIn(Rest, "write", m) + 1
                   ELSE CountIn(Rest, "write", m)
  <2>1. CASE c
    <3>1. ready' = Append(Rest, Failed("write", m))
      BY <1>7, <1>9, <2>1
    <3>2. /\ GoodQueue(ready', session)
          /\ \A o, n : o # "write" \/ n # m =>
                         CountIn(ready', o, n) = CountIn(Rest, o, n)
          /\ CountIn(ready', "write", m) = CountIn(Rest, "write", m) + 1
      BY <1>9, <3>1, AppendedFailure
    <3> QED
      BY <2>1, <3>2
  <2>2. CASE ~c
    <3>1. ready' = Rest
      BY <1>7, <1>9, <2>2
    <3> QED
      BY <1>9, <2>2, <3>1
  <2> QED
    BY <2>1, <2>2
<1>11. \A o, n : CountIn(ready', o, n) \in Nat /\ CountIn(Rest, o, n) \in Nat
  BY <1>9, <1>10, CountType DEF GoodQueue
<1> HIDE DEF c
<1>12. \A o, n : o \in {"read", "write"} =>
                   CountIn(Rest, o, n) = CountIn(ready, o, n)
  BY <1>1, HeadFacts
<1>13. ASSUME NEW n \in ClientId, n # m
       PROVE  /\ CountIn(ready', "read", n) = CountIn(ready, "read", n)
              /\ CountIn(ready', "write", n) = CountIn(ready, "write", n)
  BY <1>10, <1>12, <1>13
<1>14. SessionInv(m)'
  <2>1. CountIn(ready', "write", m) + (IF t.sending THEN 1 ELSE 0)
          <= (IF t.writing_ /\ t.writeQueue_ # <<>> THEN 1 ELSE 0)
    <3>1. PICK before \in Nat : before = CountIn(ready, "write", m)
      BY <1>11, <1>12
    <3>2. PICK after \in Nat : after = CountIn(ready', "write", m)
      BY <1>11
    <3>3. /\ gsup # <<>> /\ ~session[m].writing_ /\ ~session[m].open
               => after = before + 1
          /\ gsup = <<>> \/ session[m].writing_ \/ session[m].open
               => after = before
      BY <1>4, <1>10, <1>12, <3>1, <3>2 DEF c
    <3>4. before + (IF session[m].sending THEN 1 ELSE 0)
            <= (IF session[m].writing_ /\ session[m].writeQueue_ # <<>>
                  THEN 1 ELSE 0)
      BY <1>3, <3>1 DEF SessionInv
    <3>5. after + (IF t.sending THEN 1 ELSE 0)
            <= (IF t.writing_ /\ t.writeQueue_ # <<>> THEN 1 ELSE 0)
      BY <1>3, <1>5, <3>3, <3>4, EnqueueInFlight
    <3> QED
      BY <3>2, <3>5
  <2>2. CountIn(ready', "read", m) = CountIn(ready, "read", m)
    BY <1>10, <1>12
  <2> QED
    BY <1>3, <1>6, <1>7, <1>8, <2>1, <2>2 DEF SessionInv
<1>15. /\ sessions_' \subseteq ClientId /\ dispatched' \subseteq {m}
       /\ \A n : n # m => (n \in sessions_' <=> n \in sessions_)
  BY <1>7 DEF IInv, Types
<1> QED
  BY <1>3, <1>6, <1>7, <1>10, <1>13, <1>14, <1>15, OneSessionStep

LEMMA OnWrittenStep ==
  ASSUME IInv, OnWritten
  PROVE  IInv'
<1>1. ready # <<>> /\ Head(ready).op = "write"
  BY DEF OnWritten, Runs
<1>2. PICK m \in ClientId : m = id
  BY <1>1, HeadFacts
<1>3. session[m] \in IpaSession /\ SessionInv(m) /\ session \in Seq(IpaSession)
  BY TypesFacts DEF IInv
<1> DEFINE rest == Tail(session[m].writeQueue_)
           more == rest # <<>>
           c == more /\ ~session[m].open
<1>4. PICK t : t = [session[m] EXCEPT !.writeQueue_ = rest, !.writing_ = more,
                                      !.sending = more /\ session[m].open]
  OBVIOUS
<1>5. /\ session' = [session EXCEPT ![m] = t]
      /\ ready' = Rest \o (IF c THEN <<Failed("write", m)>> ELSE <<>>)
      /\ dispatched' = {}
      /\ UNCHANGED <<acceptor_, allSessions_, sessions_, process>>
  <2>1. session' = [session EXCEPT ![m].writeQueue_ = rest,
                      ![m].writing_ = more,
                      ![m].sending = more /\ session[m].open]
    BY <1>2 DEF OnWritten
  <2>2. session' = [session EXCEPT ![m] = t]
    BY <1>2, <1>3, <1>4, <2>1, TypesFacts
  <2> QED
    BY <1>2, <2>2 DEF OnWritten, Rest
<1>6. /\ CountIn(ready, "write", m) \in Nat
      /\ CountIn(Rest, "write", m) = CountIn(ready, "write", m) - 1
      /\ \A o, n : o # "write" \/ n # m =>
                     CountIn(Rest, o, n) = CountIn(ready, o, n)
  BY <1>1, <1>2, HeadFacts
<1>7. GoodQueue(Rest, session) /\ Rest \in Seq(HandlerType)
  BY <1>1, HeadFacts
<1>8. /\ GoodQueue(ready', session)
      /\ \A o, n : o # "write" \/ n # m =>
                     CountIn(ready', o, n) = CountIn(Rest, o, n)
      /\ CountIn(ready', "write", m)
           = IF c THEN CountIn(Rest, "write", m) + 1
                  ELSE CountIn(Rest, "write", m)
  <2>1. CASE c
    <3>1. ready' = Append(Rest, Failed("write", m))
      BY <1>5, <1>7, <2>1
    <3>2. /\ GoodQueue(ready', session)
          /\ \A o, n : o # "write" \/ n # m =>
                         CountIn(ready', o, n) = CountIn(Rest, o, n)
          /\ CountIn(ready', "write", m) = CountIn(Rest, "write", m) + 1
      BY <1>7, <3>1, AppendedFailure
    <3> HIDE DEF c
    <3> QED
      BY <2>1, <3>2
  <2>2. CASE ~c
    <3>1. ready' = Rest
      BY <1>5, <1>7, <2>2
    <3> HIDE DEF c
    <3> QED
      BY <1>7, <2>2, <3>1
  <2> QED
    BY <2>1, <2>2
<1>9. \A o, n : CountIn(ready', o, n) \in Nat /\ CountIn(Rest, o, n) \in Nat
  BY <1>7, <1>8, CountType DEF GoodQueue
<1>10. session[m].writeQueue_ # <<>> /\ CountIn(Rest, "write", m) = 0
  BY <1>3, <1>6, <1>9 DEF SessionInv
<1>11. /\ rest \in Seq({"Ccm", "Gsup"})
       /\ \A i \in DOMAIN rest : /\ i + 1 \in DOMAIN session[m].writeQueue_
                                 /\ rest[i] = session[m].writeQueue_[i + 1]
  <2>1. session[m].writeQueue_ \in Seq({"Ccm", "Gsup"})
    BY <1>3 DEF IpaSession
  <2> QED
    BY <1>10, <2>1
<1> HIDE DEF rest
<1>12. /\ t \in IpaSession
       /\ t.state_ = session[m].state_ /\ t.handshaken = session[m].handshaken
       /\ t.reading = session[m].reading /\ t.writeQueue_ = rest
       /\ t.writing_ = more /\ t.sending = (more /\ session[m].open)
  <2>1. more \in BOOLEAN /\ (more /\ session[m].open) \in BOOLEAN
    OBVIOUS
  <2> HIDE DEF more
  <2> QED
    BY <1>3, <1>4, <1>11, <2>1 DEF IpaSession
<1>13. session'[m] = t
  BY <1>3, <1>5, TypesFacts
<1>14. ASSUME NEW n \in ClientId, n # m
       PROVE  /\ CountIn(ready', "read", n) = CountIn(ready, "read", n)
              /\ CountIn(ready', "write", n) = CountIn(ready, "write", n)
  BY <1>6, <1>8, <1>14
<1>15. SessionInv(m)'
  <2>1. CountIn(ready', "read", m) = CountIn(ready, "read", m)
    BY <1>6, <1>8
  <2>2. CountIn(ready', "write", m) = IF c THEN 1 ELSE 0
    BY <1>8, <1>10
  <2>3. CountIn(ready', "write", m) + (IF t.sending THEN 1 ELSE 0)
          <= (IF t.writing_ /\ t.writeQueue_ # <<>> THEN 1 ELSE 0)
    <3>1. /\ t.sending => ~c
          /\ t.sending \/ c => t.writing_ /\ t.writeQueue_ # <<>>
      BY <1>12
    <3> HIDE DEF c
    <3> QED
      BY <2>2, <3>1
  <2>4. ~t.handshaken =>
          /\ m \notin dispatched'
          /\ \A i \in DOMAIN t.writeQueue_ : t.writeQueue_[i] = "Ccm"
    BY <1>3, <1>5, <1>11, <1>12 DEF SessionInv
  <2> QED
    BY <1>3, <1>5, <1>12, <1>13, <2>1, <2>3, <2>4 DEF SessionInv
<1>16. /\ sessions_' \subseteq ClientId /\ dispatched' \subseteq {m}
       /\ \A n : n # m => (n \in sessions_' <=> n \in sessions_)
  BY <1>5 DEF IInv, Types
<1> QED
  BY <1>5, <1>8, <1>12, <1>14, <1>15, <1>16, OneSessionStep

(* An input for the acceptor or for no session.                             *)
LEMMA AppendedOther ==
  ASSUME IInv, NEW h, GoodHandler(h, session), h.op \in {"accept", "send"},
         ready' = Append(ready, h), dispatched' = {},
         acceptor_' \in {"accepting", "idle", "closed"},
         UNCHANGED <<session, allSessions_, sessions_, process>>
  PROVE  IInv'
<1>1. GoodQueue(ready, session) /\ process' \in {"running", "terminated"}
  BY DEF IInv, Types
<1>2. PICK op : op = h.op
  OBVIOUS
<1>3. PICK m : m = h.id
  OBVIOUS
<1>4. GoodQueue(ready', session)
  BY <1>1, GoodAppend
<1>5. ASSUME NEW o, NEW n, o \in {"read", "write"}
      PROVE  CountIn(ready', o, n) = CountIn(ready, o, n)
  <2>1. o # op
    BY <1>2, <1>5
  <2>2. CountIn(Append(ready, h), o, n) = CountIn(ready, o, n)
    BY <1>1, <1>2, <1>3, <2>1, Appended
  <2> QED
    BY <2>2
<1> QED
  BY <1>1, <1>4, <1>5, QueueStep

LEMMA AcceptCompletesStep ==
  ASSUME IInv, AcceptCompletes
  PROVE  IInv'
<1>1. PICK h : /\ h \in {Due("accept", 0), Failed("accept", 0)}
               /\ ready' = Append(ready, h)
  BY DEF AcceptCompletes, Happens
<1>2. GoodHandler(h, session) /\ h.op = "accept"
  <2>1. Len(session) \in Nat /\ 0 \in 0 .. Len(session)
    BY TypesFacts
  <2>2. CASE h = Due("accept", 0)
    BY <2>1, <2>2, HandlerGood, HandlerFields
  <2>3. CASE h = Failed("accept", 0)
    BY <2>1, <2>3, HandlerGood, HandlerFields
  <2> QED
    BY <1>1, <2>2, <2>3
<1>3. /\ acceptor_' = "idle" /\ dispatched' = {}
      /\ UNCHANGED <<session, allSessions_, sessions_, process>>
  BY DEF AcceptCompletes, Happens
<1> QED
  BY <1>1, <1>2, <1>3, AppendedOther

LEMMA SendStep ==
  ASSUME IInv, NEW target \in 0 .. Len(session), Send(target)
  PROVE  IInv'
<1>1. PICK h : h = Due("send", target)
  OBVIOUS
<1>2. GoodHandler(h, session) /\ h.op = "send"
  BY <1>1, TypesFacts, HandlerGood, HandlerFields
<1>3. /\ ready' = Append(ready, h) /\ dispatched' = {}
      /\ acceptor_' = acceptor_
      /\ UNCHANGED <<session, allSessions_, sessions_, process>>
  BY <1>1 DEF Send, Happens
<1> QED
  BY <1>2, <1>3, AppendedOther DEF IInv, Types

(* An operation of a session completes: its handler takes the place of the  *)
(* operation.                                                               *)
LEMMA CompletedStep ==
  ASSUME IInv, NEW m \in ClientId, NEW op, NEW h, NEW t \in IpaSession,
         GoodHandler(h, session), h.op = op, h.id = m,
         session' = [session EXCEPT ![m] = t],
         t.state_ = session[m].state_, t.handshaken = session[m].handshaken,
         t.writing_ = session[m].writing_,
         t.writeQueue_ = session[m].writeQueue_,
         \/ /\ op = "read" /\ session[m].reading /\ ~t.reading
            /\ t.sending = session[m].sending
         \/ /\ op = "write" /\ session[m].sending /\ ~t.sending
            /\ t.reading = session[m].reading,
         ready' = Append(ready, h), dispatched' = {},
         UNCHANGED <<acceptor_, allSessions_, sessions_, process>>
  PROVE  IInv'
<1>1. /\ GoodQueue(ready, session) /\ session[m] \in IpaSession
      /\ SessionInv(m) /\ session \in Seq(IpaSession)
  BY TypesFacts DEF IInv
<1>2. /\ GoodQueue(Append(ready, h), session)
      /\ CountIn(Append(ready, h), op, m) = CountIn(ready, op, m) + 1
  BY <1>1, Appended
<1>3. ASSUME NEW o, NEW n, o # op \/ n # m
      PROVE  CountIn(Append(ready, h), o, n) = CountIn(ready, o, n)
  BY <1>1, <1>3, Appended
<1>4. /\ GoodQueue(ready', session)
      /\ CountIn(ready', op, m) = CountIn(ready, op, m) + 1
      /\ \A o, n : o # op \/ n # m => CountIn(ready', o, n) = CountIn(ready, o, n)
  BY <1>2, <1>3, Zenon
<1>5. \A o, n : CountIn(ready, o, n) \in Nat
  BY TypesFacts, CountType
<1>6. ASSUME NEW n \in ClientId, n # m
      PROVE  /\ CountIn(ready', "read", n) = CountIn(ready, "read", n)
             /\ CountIn(ready', "write", n) = CountIn(ready, "write", n)
  BY <1>4, <1>6
<1>7. session'[m] = t
  BY <1>1, TypesFacts
<1>8. SessionInv(m)'
  <2>1. CASE op = "read"
    <3>1. /\ CountIn(ready', "write", m) = CountIn(ready, "write", m)
          /\ CountIn(ready', "read", m) = CountIn(ready, "read", m) + 1
      BY <1>4, <2>1
    <3> QED
      BY <1>1, <1>5, <1>7, <2>1, <3>1 DEF SessionInv
  <2>2. CASE op = "write"
    <3>1. /\ CountIn(ready', "read", m) = CountIn(ready, "read", m)
          /\ CountIn(ready', "write", m) = CountIn(ready, "write", m) + 1
      BY <1>4, <2>2
    <3> QED
      BY <1>1, <1>5, <1>7, <2>2, <3>1 DEF SessionInv
  <2> QED
    BY <2>1, <2>2
<1>9. /\ sessions_' \subseteq ClientId /\ dispatched' \subseteq {m}
      /\ \A n : n # m => (n \in sessions_' <=> n \in sessions_)
      /\ session[m].handshaken => t.handshaken
  BY DEF IInv, Types
<1> QED
  BY <1>4, <1>6, <1>8, <1>9, OneSessionStep

LEMMA ReadCompletesStep ==
  ASSUME IInv, NEW m \in ClientId, ReadCompletes(m)
  PROVE  IInv'
<1>1. /\ session[m] \in IpaSession /\ session \in Seq(IpaSession)
      /\ Len(session) \in Nat /\ m \in 1 .. Len(session)
  BY TypesFacts
<1>2. PICK h : /\ \/ \E frames \in Chunks : h = Handler("read", m, TRUE, frames)
                  \/ h = Failed("read", m)
               /\ ready' = Append(ready, h)
  BY DEF ReadCompletes, Happens
<1>3. GoodHandler(h, session) /\ h.op = "read" /\ h.id = m
  <2>1. CASE h = Failed("read", m)
    BY <1>1, <2>1, HandlerGood, HandlerFields
  <2>2. ASSUME NEW frames \in Chunks, h = Handler("read", m, TRUE, frames)
        PROVE  GoodHandler(h, session) /\ h.op = "read" /\ h.id = m
    <3>1. frames \in Seq(Frame)
      BY ChunksAssumption
    <3>2. GoodHandler(h, session)
      BY <1>1, <2>2, <3>1, HandlerGood
    <3> QED
      BY <2>2, <3>2 DEF Handler
  <2> QED
    BY <1>2, <2>1, <2>2
<1>4. PICK t : t = [session[m] EXCEPT !.reading = FALSE]
  OBVIOUS
<1>5. /\ t \in IpaSession /\ ~t.reading
      /\ t.state_ = session[m].state_ /\ t.handshaken = session[m].handshaken
      /\ t.writing_ = session[m].writing_ /\ t.sending = session[m].sending
      /\ t.writeQueue_ = session[m].writeQueue_
  BY <1>1, <1>4 DEF IpaSession
<1>6. session' = [session EXCEPT ![m] = t] /\ session[m].reading
  BY <1>4 DEF ReadCompletes
<1>7. /\ dispatched' = {}
      /\ UNCHANGED <<acceptor_, allSessions_, sessions_, process>>
  BY DEF ReadCompletes, Happens
<1> QED
  BY <1>2, <1>3, <1>5, <1>6, <1>7, CompletedStep

LEMMA WriteCompletesStep ==
  ASSUME IInv, NEW m \in ClientId, WriteCompletes(m)
  PROVE  IInv'
<1>1. /\ session[m] \in IpaSession /\ session \in Seq(IpaSession)
      /\ Len(session) \in Nat /\ m \in 1 .. Len(session)
  BY TypesFacts
<1>2. PICK h : /\ h \in {Due("write", m), Failed("write", m)}
               /\ ready' = Append(ready, h)
  BY DEF WriteCompletes, Happens
<1>3. GoodHandler(h, session) /\ h.op = "write" /\ h.id = m
  <2>1. CASE h = Due("write", m)
    BY <1>1, <2>1, HandlerGood, HandlerFields
  <2>2. CASE h = Failed("write", m)
    BY <1>1, <2>2, HandlerGood, HandlerFields
  <2> QED
    BY <1>2, <2>1, <2>2
<1>4. PICK t : t = [session[m] EXCEPT !.sending = FALSE]
  OBVIOUS
<1>5. /\ t \in IpaSession /\ ~t.sending
      /\ t.state_ = session[m].state_ /\ t.handshaken = session[m].handshaken
      /\ t.writing_ = session[m].writing_ /\ t.reading = session[m].reading
      /\ t.writeQueue_ = session[m].writeQueue_
  BY <1>1, <1>4 DEF IpaSession
<1>6. session' = [session EXCEPT ![m] = t] /\ session[m].sending
  BY <1>4 DEF WriteCompletes
<1>7. /\ dispatched' = {}
      /\ UNCHANGED <<acceptor_, allSessions_, sessions_, process>>
  BY DEF WriteCompletes, Happens
<1> QED
  BY <1>2, <1>3, <1>5, <1>6, <1>7, CompletedStep

LEMMA ReadOnFacts ==
  ASSUME NEW t \in IpaSession
  PROVE  /\ ReadOn(t) \in IpaSession
         /\ ReadOn(t).state_ = t.state_
         /\ ReadOn(t).handshaken = t.handshaken
         /\ ReadOn(t).writing_ = t.writing_
         /\ ReadOn(t).writeQueue_ = t.writeQueue_
         /\ ReadOn(t).sending = t.sending
         /\ ReadOn(t).reading <=> t.open /\ t.state_ # "Stopped"
<1> DEFINE on == t.open /\ t.state_ # "Stopped"
<1>1. on \in BOOLEAN
  OBVIOUS
<1>2. ReadOn(t) = [t EXCEPT !.reading = on]
  BY DEF ReadOn
<1> HIDE DEF on
<1>3. /\ ReadOn(t) \in IpaSession
      /\ ReadOn(t).state_ = t.state_
      /\ ReadOn(t).handshaken = t.handshaken
      /\ ReadOn(t).writing_ = t.writing_
      /\ ReadOn(t).writeQueue_ = t.writeQueue_
      /\ ReadOn(t).sending = t.sending
      /\ ReadOn(t).reading = on
  BY <1>1, <1>2 DEF IpaSession
<1> QED
  BY <1>3 DEF on

FailsToWrite(s, t) == ~t.open /\ t.writing_ /\ ~s.writing_

WithFailures(q, n, s, t) == q \o FailedAtOnce(n, s, t)

(* The handlers of the operations that fail at once: one of a write that    *)
(* was to start, one of the read unless the session has stopped, and none   *)
(* while the socket is open.                                                *)
LEMMA FailedAtOnceFacts ==
  ASSUME NEW m \in ClientId, NEW s \in IpaSession, NEW t \in IpaSession,
         NEW q, NEW r, IInv, GoodQueue(q, session),
         r = WithFailures(q, m, s, t)
  PROVE  /\ GoodQueue(r, session)
         /\ \A o, n : n # m \/ o \notin {"read", "write"} =>
                        CountIn(r, o, n) = CountIn(q, o, n)
         /\ FailsToWrite(s, t) =>
              CountIn(r, "write", m) = CountIn(q, "write", m) + 1
         /\ ~FailsToWrite(s, t) =>
              CountIn(r, "write", m) = CountIn(q, "write", m)
         /\ ~t.open /\ t.state_ # "Stopped" =>
              CountIn(r, "read", m) = CountIn(q, "read", m) + 1
         /\ t.open \/ t.state_ = "Stopped" =>
              CountIn(r, "read", m) = CountIn(q, "read", m)
<1> DEFINE w == t.writing_ /\ ~s.writing_
           d == t.state_ # "Stopped"
<1>1. q \in Seq(HandlerType)
  BY DEF GoodQueue
<1>2. PICK f : f = Failed("write", m)
  OBVIOUS
<1>3. PICK g : g = Failed("read", m)
  OBVIOUS
<1>4. /\ t.open => r = q
      /\ ~t.open /\ ~w /\ ~d => r = q
      /\ ~t.open /\ w /\ ~d => r = Append(q, f)
      /\ ~t.open /\ ~w /\ d => r = Append(q, g)
      /\ ~t.open /\ w /\ d => r = Append(Append(q, f), g)
  <2>0. f \in HandlerType /\ g \in HandlerType
    BY <1>2, <1>3, TypesFacts, HandlerGood DEF GoodHandler
  <2>1. FailedAtOnce(m, s, t) =
          IF t.open THEN <<>>
          ELSE (IF w THEN <<f>> ELSE <<>>) \o (IF d THEN <<g>> ELSE <<>>)
    BY <1>2, <1>3 DEF FailedAtOnce
  <2>r. r = q \o FailedAtOnce(m, s, t)
    BY DEF WithFailures
  <2> HIDE DEF w, d
  <2>2. CASE t.open
    BY <1>1, <2>1, <2>r, <2>2
  <2>3. CASE ~t.open /\ ~w /\ ~d
    BY <1>1, <2>1, <2>r, <2>3
  <2>4. CASE ~t.open /\ w /\ ~d
    BY <1>1, <2>0, <2>1, <2>r, <2>4
  <2>5. CASE ~t.open /\ ~w /\ d
    BY <1>1, <2>0, <2>1, <2>r, <2>5
  <2>6. CASE ~t.open /\ w /\ d
    BY <1>1, <2>0, <2>1, <2>r, <2>6
  <2> QED
    BY <2>2, <2>3, <2>4, <2>5, <2>6
<1>5. /\ GoodQueue(Append(q, f), session)
      /\ CountIn(Append(q, f), "write", m) = CountIn(q, "write", m) + 1
      /\ CountIn(Append(q, f), "read", m) = CountIn(q, "read", m)
      /\ \A o, n : n # m \/ o \notin {"read", "write"} =>
                     CountIn(Append(q, f), o, n) = CountIn(q, o, n)
  BY <1>2, AppendedFailure
<1>6. ASSUME NEW p, GoodQueue(p, session)
      PROVE  /\ GoodQueue(Append(p, g), session)
             /\ CountIn(Append(p, g), "read", m) = CountIn(p, "read", m) + 1
             /\ CountIn(Append(p, g), "write", m) = CountIn(p, "write", m)
             /\ \A o, n : n # m \/ o \notin {"read", "write"} =>
                            CountIn(Append(p, g), o, n) = CountIn(p, o, n)
  BY <1>3, <1>6, AppendedFailure
<1>w. FailsToWrite(s, t) <=> ~t.open /\ w
  BY DEF FailsToWrite
<1> HIDE DEF w
<1>7. CASE t.open \/ (~w /\ ~d)
  BY <1>4, <1>7, <1>w
<1>8. CASE ~t.open /\ w /\ ~d
  BY <1>4, <1>5, <1>8, <1>w, Zenon
<1>9. CASE ~t.open /\ ~w /\ d
  <2>1. /\ GoodQueue(Append(q, g), session)
        /\ CountIn(Append(q, g), "read", m) = CountIn(q, "read", m) + 1
        /\ CountIn(Append(q, g), "write", m) = CountIn(q, "write", m)
        /\ \A o, n : n # m \/ o \notin {"read", "write"} =>
                       CountIn(Append(q, g), o, n) = CountIn(q, o, n)
    BY <1>6
  <2>2. r = Append(q, g)
    BY <1>4, <1>9
  <2> QED
    BY <1>9, <1>w, <2>1, <2>2, Zenon
<1>10. CASE ~t.open /\ w /\ d
  <2>1. PICK p : p = Append(q, f)
    OBVIOUS
  <2>2. /\ GoodQueue(p, session)
        /\ CountIn(p, "write", m) = CountIn(q, "write", m) + 1
        /\ CountIn(p, "read", m) = CountIn(q, "read", m)
        /\ \A o, n : n # m \/ o \notin {"read", "write"} =>
                       CountIn(p, o, n) = CountIn(q, o, n)
    BY <1>5, <2>1, Zenon
  <2>3. /\ GoodQueue(Append(p, g), session)
        /\ CountIn(Append(p, g), "read", m) = CountIn(p, "read", m) + 1
        /\ CountIn(Append(p, g), "write", m) = CountIn(p, "write", m)
        /\ \A o, n : n # m \/ o \notin {"read", "write"} =>
                       CountIn(Append(p, g), o, n) = CountIn(p, o, n)
    BY <1>6, <2>2
  <2>4. r = Append(p, g)
    BY <1>4, <1>10, <2>1, Zenon
  <2>5. /\ GoodQueue(r, session)
        /\ CountIn(r, "read", m) = CountIn(p, "read", m) + 1
        /\ CountIn(r, "write", m) = CountIn(p, "write", m)
        /\ \A o, n : n # m \/ o \notin {"read", "write"} =>
                       CountIn(r, o, n) = CountIn(p, o, n)
    BY <2>3, <2>4, Zenon
  <2> QED
    BY <1>10, <1>w, <2>2, <2>5
<1> QED
  BY <1>7, <1>8, <1>9, <1>10

(* Frames from an SGSN: a response makes its session ready and, while it is *)
(* in allSessions_, routed to; GSUP is passed on only after that.           *)
LEMMA ProcessFramesStep ==
  ASSUME IInv, ready # <<>>, Head(ready).op = "read", NEW frames \in Seq(Frame),
         ProcessFrames(frames)
  PROVE  IInv'
<1>1. PICK m \in ClientId : m = id
  BY HeadFacts
<1>2. PICK s \in IpaSession : s = session[m]
  BY TypesFacts
<1>3. SessionInv(m) /\ session \in Seq(IpaSession)
  BY TypesFacts DEF IInv
<1> DEFINE response == \E i \in DOMAIN frames : frames[i] = "IdResp"
           answered == {i \in DOMAIN frames : frames[i] \in {"IdResp", "Ping"}}
           state == IF response THEN "Ready" ELSE s.state_
           identified == s.handshaken \/ response
<1>4. PICK ccms : ccms = [i \in 1 .. Cardinality(answered) |-> "Ccm"]
  OBVIOUS
<1>5. /\ ccms \in Seq({"Ccm", "Gsup"})
      /\ \A i \in DOMAIN ccms : ccms[i] = "Ccm"
  <2>1. /\ DOMAIN frames = 1 .. Len(frames) /\ Len(frames) \in Nat
        /\ answered \in SUBSET (1 .. Len(frames))
    OBVIOUS
  <2>2. IsFiniteSet(1 .. Len(frames))
    BY <2>1, FS_Interval
  <2>3. Cardinality(answered) \in Nat
    BY <2>1, <2>2, FS_Subset, FS_CardinalityType
  <2> HIDE DEF answered
  <2> QED
    BY <1>4, <2>3
<1>6. PICK u : u = [s EXCEPT !.state_ = state, !.handshaken = identified]
  OBVIOUS
<1>7. /\ u \in IpaSession /\ u.state_ = state
      /\ u.handshaken = identified /\ u.open = s.open
      /\ u.writeQueue_ = s.writeQueue_ /\ u.writing_ = s.writing_
      /\ u.reading = s.reading /\ u.sending = s.sending
  <2>1. state \in {"Handshaking", "Ready", "Stopped"} /\ identified \in BOOLEAN
    BY DEF IpaSession
  <2> HIDE DEF state, identified
  <2> QED
    BY <1>6, <2>1 DEF IpaSession
<1>8. PICK t : t = Enqueue(u, ccms)
  OBVIOUS
<1>9. /\ session' = [session EXCEPT ![m] = ReadOn(t)]
      /\ ready' = WithFailures(Rest, m, s, t)
      /\ sessions_' = IF response THEN onSessionReady(m) ELSE sessions_
      /\ dispatched' \subseteq {m}
      /\ UNCHANGED <<acceptor_, allSessions_, process>>
      /\ m \in dispatched' => s.state_ = "Ready" \/ response
  <2>1. t = Enqueue([s EXCEPT !.state_ = IF response THEN "Ready" ELSE @,
                              !.handshaken = @ \/ response],
                    [i \in 1 .. Cardinality(answered) |-> "Ccm"])
    BY <1>4, <1>6, <1>8
  <2>2. \A i \in DOMAIN frames : \A j \in 1 .. i - 1 : j \in DOMAIN frames
    OBVIOUS
  <2> QED
    BY <1>1, <1>2, <2>1, <2>2 DEF ProcessFrames, Rest, WithFailures
<1> HIDE DEF response, answered, state, identified
<1>10. /\ t \in IpaSession /\ t.state_ = state /\ t.open = s.open
       /\ t.handshaken = identified
       /\ t.writeQueue_ = s.writeQueue_ \o ccms
       /\ t.writing_ <=> s.writing_ \/ ccms # <<>>
  <2>0. u \in IpaSession /\ ccms \in Seq({"Ccm", "Gsup"})
    BY <1>5, <1>7
  <2>1. /\ t \in IpaSession /\ t.state_ = u.state_ /\ t.open = u.open
        /\ t.handshaken = u.handshaken
    BY <2>0, <1>8, EnqueueFacts
  <2>2. t.writeQueue_ = u.writeQueue_ \o ccms
    BY <2>0, <1>8, EnqueueFacts
  <2>3. t.writing_ <=> u.writing_ \/ ccms # <<>>
    BY <2>0, <1>8, EnqueueFacts
  <2> QED
    BY <1>7, <2>1, <2>2, <2>3
<1>11. /\ GoodQueue(Rest, session)
       /\ CountIn(ready, "read", m) \in Nat /\ CountIn(ready, "write", m) \in Nat
       /\ CountIn(Rest, "read", m) = CountIn(ready, "read", m) - 1
       /\ CountIn(Rest, "write", m) = CountIn(ready, "write", m)
       /\ \A o, n : n # m => CountIn(Rest, o, n) = CountIn(ready, o, n)
  BY <1>1, HeadFacts
<1>12. GoodQueue(ready', session)
  BY <1>9, <1>10, <1>11, FailedAtOnceFacts
<1>13. ASSUME NEW n \in ClientId, n # m
       PROVE  /\ CountIn(ready', "read", n) = CountIn(ready, "read", n)
              /\ CountIn(ready', "write", n) = CountIn(ready, "write", n)
  <2>1. ASSUME NEW o
        PROVE  CountIn(ready', o, n) = CountIn(Rest, o, n)
    BY <1>9, <1>10, <1>11, <1>13, FailedAtOnceFacts
  <2> QED
    BY <1>11, <1>13, <2>1
<1>14. PICK v \in IpaSession :
         /\ v = ReadOn(t) /\ v.state_ = state
         /\ v.handshaken = identified
         /\ v.writing_ = t.writing_ /\ v.writeQueue_ = t.writeQueue_
         /\ v.sending = t.sending
         /\ v.reading <=> t.open /\ t.state_ # "Stopped"
  BY <1>10, ReadOnFacts
<1>15. session' = [session EXCEPT ![m] = v] /\ session'[m] = v
  BY <1>3, <1>9, <1>14, TypesFacts
<1>16. CountIn(ready', "write", m) + (IF v.sending THEN 1 ELSE 0)
         <= (IF v.writing_ /\ v.writeQueue_ # <<>> THEN 1 ELSE 0)
  <2>1. PICK before \in Nat : before = CountIn(ready, "write", m)
    BY <1>11
  <2>2. PICK after \in Nat : after = CountIn(ready', "write", m)
    BY <1>12, CountType DEF GoodQueue
  <2>3. FailsToWrite(s, t) <=> ccms # <<>> /\ ~u.writing_ /\ ~u.open
    BY <1>7, <1>10 DEF FailsToWrite
  <2>4. /\ ccms # <<>> /\ ~u.writing_ /\ ~u.open => after = before + 1
        /\ ccms = <<>> \/ u.writing_ \/ u.open => after = before
    <3>1. CASE FailsToWrite(s, t)
      <4>1. CountIn(ready', "write", m) = CountIn(Rest, "write", m) + 1
        BY <1>9, <1>10, <1>11, <3>1, FailedAtOnceFacts
      <4> QED
        BY <1>11, <2>1, <2>2, <2>3, <3>1, <4>1
    <3>2. CASE ~FailsToWrite(s, t)
      <4>1. CountIn(ready', "write", m) = CountIn(Rest, "write", m)
        BY <1>9, <1>10, <1>11, <3>2, FailedAtOnceFacts
      <4> QED
        BY <1>11, <2>1, <2>2, <2>3, <3>2, <4>1
    <3> QED
      BY <3>1, <3>2
  <2>5. before + (IF u.sending THEN 1 ELSE 0)
          <= (IF u.writing_ /\ u.writeQueue_ # <<>> THEN 1 ELSE 0)
    BY <1>2, <1>3, <1>7, <2>1 DEF SessionInv
  <2>6. after + (IF t.sending THEN 1 ELSE 0)
          <= (IF t.writing_ /\ t.writeQueue_ # <<>> THEN 1 ELSE 0)
    BY <1>5, <1>7, <1>8, <2>4, <2>5, EnqueueInFlight
  <2> QED
    BY <1>14, <2>2, <2>6
<1>17. v.state_ = "Ready" => v.handshaken
  BY <1>2, <1>3, <1>14 DEF SessionInv, state, identified
<1>18. ~v.handshaken =>
         /\ m \notin dispatched'
         /\ \A i \in DOMAIN v.writeQueue_ : v.writeQueue_[i] = "Ccm"
  <2> SUFFICES ASSUME ~v.handshaken
               PROVE  /\ m \notin dispatched'
                      /\ \A i \in DOMAIN v.writeQueue_ : v.writeQueue_[i] = "Ccm"
    OBVIOUS
  <2>1. ~response /\ ~s.handshaken /\ s.state_ # "Ready"
    BY <1>2, <1>3, <1>14 DEF identified, SessionInv
  <2>2. s.writeQueue_ \in Seq({"Ccm", "Gsup"})
    BY DEF IpaSession
  <2>3. \A i \in DOMAIN s.writeQueue_ : s.writeQueue_[i] = "Ccm"
    BY <1>2, <1>3, <2>1 DEF SessionInv
  <2>4. \A i \in DOMAIN (s.writeQueue_ \o ccms) :
          (s.writeQueue_ \o ccms)[i] = "Ccm"
    BY <1>5, <2>2, <2>3
  <2> QED
    BY <1>9, <1>10, <1>14, <2>1, <2>4
<1>19. m \in allSessions_' =>
         /\ v.state_ # "Stopped"
         /\ (IF v.reading THEN 1 ELSE 0) + CountIn(ready', "read", m) = 1
  <2> SUFFICES ASSUME m \in allSessions_
               PROVE  /\ v.state_ # "Stopped"
                      /\ (IF v.reading THEN 1 ELSE 0)
                           + CountIn(ready', "read", m) = 1
    BY <1>9
  <2>1. /\ s.state_ # "Stopped"
        /\ (IF s.reading THEN 1 ELSE 0) + CountIn(ready, "read", m) = 1
    BY <1>2, <1>3 DEF SessionInv
  <2>2. state # "Stopped"
    BY <2>1 DEF state
  <2>3. CountIn(Rest, "read", m) = 0
    <3>1. CountIn(Rest, "read", m) \in Nat
      BY <1>11, CountType DEF GoodQueue
    <3> QED
      BY <1>11, <2>1, <3>1
  <2>4. /\ ~t.open /\ t.state_ # "Stopped" =>
             CountIn(ready', "read", m) = CountIn(Rest, "read", m) + 1
        /\ t.open \/ t.state_ = "Stopped" =>
             CountIn(ready', "read", m) = CountIn(Rest, "read", m)
    <3>1. ASSUME ~t.open /\ t.state_ # "Stopped"
          PROVE  CountIn(ready', "read", m) = CountIn(Rest, "read", m) + 1
      BY <1>9, <1>10, <1>11, <3>1, FailedAtOnceFacts
    <3>2. ASSUME t.open \/ t.state_ = "Stopped"
          PROVE  CountIn(ready', "read", m) = CountIn(Rest, "read", m)
      BY <1>9, <1>10, <1>11, <3>2, FailedAtOnceFacts
    <3> QED
      BY <3>1, <3>2
  <2> QED
    BY <1>10, <1>14, <2>2, <2>3, <2>4
<1>20. m \in sessions_' <=> m \in allSessions_' /\ v.state_ = "Ready"
  BY <1>2, <1>3, <1>9, <1>14 DEF SessionInv, state, onSessionReady
<1>21. SessionInv(m)'
  BY <1>15, <1>16, <1>17, <1>18, <1>19, <1>20 DEF SessionInv
<1>22. /\ sessions_' \subseteq ClientId
       /\ \A n : n # m => (n \in sessions_' <=> n \in sessions_)
       /\ session[m].handshaken => v.handshaken
  BY <1>2, <1>9, <1>14 DEF IInv, Types, onSessionReady, identified
<1> QED
  BY <1>9, <1>12, <1>13, <1>14, <1>15, <1>21, <1>22, OneSessionStep

LEMMA OnReadStep ==
  ASSUME IInv, OnRead
  PROVE  IInv'
<1>1. ready # <<>> /\ Head(ready).op = "read"
  BY DEF OnRead, Runs
<1>2. Head(ready).frames \in Seq(Frame)
  BY <1>1, HeadFacts DEF GoodHandler, HandlerType
<1>3. CASE Terminates
  BY <1>3, TerminatesStep
<1>4. CASE ProcessFrames(Head(ready).frames)
  BY <1>1, <1>2, <1>4, ProcessFramesStep
<1> QED
  BY <1>3, <1>4 DEF OnRead

-----------------------------------------------------------------------------
(* The steps that add a handler for each of several sessions.               *)

LEMMA GoodElements ==
  ASSUME NEW sessions, NEW T, NEW s \in Seq(T),
         \A h \in T : GoodHandler(h, sessions)
  PROVE  GoodQueue(s, sessions)
<1>1. T \subseteq HandlerType
  BY DEF GoodHandler
<1>2. s \in Seq(HandlerType) /\ \A i \in DOMAIN s : s[i] \in T
  BY <1>1
<1> QED
  BY <1>2 DEF GoodQueue

LEMMA FiniteHandlers ==
  ASSUME NEW S, IsFiniteSet(S), NEW op
  PROVE  /\ IsFiniteSet({Due(op, n) : n \in S})
         /\ IsFiniteSet({Failed(op, n) : n \in S})
<1>1. PICK T : T = {Due(op, n) : n \in S}
  OBVIOUS
<1>2. PICK U : U = {Failed(op, n) : n \in S}
  OBVIOUS
<1>3. [n \in S |-> Due(op, n)] \in Surjection(S, T)
  BY <1>1 DEF Surjection
<1>4. [n \in S |-> Failed(op, n)] \in Surjection(S, U)
  BY <1>2 DEF Surjection
<1>5. IsFiniteSet(T)
  BY <1>3, FS_Surjection
<1>6. IsFiniteSet(U)
  BY <1>4, FS_Surjection
<1> QED
  BY <1>1, <1>2, <1>5, <1>6

LEMMA FiniteClients ==
  ASSUME IInv, NEW S, S \subseteq ClientId
  PROVE  IsFiniteSet(S)
<1>1. IsFiniteSet(ClientId)
  BY TypesFacts, FS_Interval
<1> QED
  BY <1>1, FS_Subset

(* send() finds sessions that are ready, and so have identified themselves. *)
LEMMA RunSendStep ==
  ASSUME IInv, RunSend
  PROVE  IInv'
<1>1. ready # <<>> /\ Head(ready).op = "send"
  BY DEF RunSend, Runs
<1>2. /\ GoodQueue(Rest, session) /\ Rest \in Seq(HandlerType)
      /\ \A o, n : o \in {"read", "write"} =>
                     CountIn(Rest, o, n) = CountIn(ready, o, n)
      /\ \A o, n : CountIn(ready, o, n) \in Nat
  BY <1>1, HeadFacts
<1>3. PICK R : R = Receivers(id)
  OBVIOUS
<1>4. PICK T : T = {Due("enqueue", n) : n \in R}
  OBVIOUS
<1>5. /\ R \subseteq ClientId
      /\ \A n \in R : session[n].handshaken
  BY <1>3 DEF Receivers, IInv, Types, SessionInv
<1>6. IsFiniteSet(T)
  <2>1. IsFiniteSet(R)
    BY <1>5, FiniteClients
  <2> QED
    BY <1>4, <2>1, FiniteHandlers
<1>7. \A h \in T : h.op = "enqueue" /\ GoodHandler(h, session)
  <2>1. ASSUME NEW n \in R
        PROVE  /\ Due("enqueue", n).op = "enqueue"
               /\ GoodHandler(Due("enqueue", n), session)
    <3>1. /\ n \in 1 .. Len(session) /\ n \in Nat /\ session[n].handshaken
          /\ <<>> \in Seq(Frame)
      BY <1>5, TypesFacts
    <3> QED
      BY <3>1 DEF GoodHandler, HandlerType, Due, Handler
  <2> QED
    BY <1>4, <2>1
<1>8. PICK calls \in SetToSeqs(T) : ready' = Rest \o calls
  BY <1>3, <1>4 DEF RunSend, Rest
<1>9. ASSUME NEW o, NEW n, o \in {"read", "write"}
      PROVE  calls \in Seq(T) /\ CountIn(calls, o, n) = 0
  <2>1. \A h \in T : ~(h.op = o /\ h.id = n)
    BY <1>7, <1>9
  <2> QED
    BY <1>6, <2>1, CountInOrder
<1>10. calls \in Seq(T)
  BY <1>9
<1>11. GoodQueue(calls, session) /\ calls \in Seq(HandlerType)
  BY <1>7, <1>10, GoodElements DEF GoodQueue
<1>12. GoodQueue(ready', session)
  BY <1>2, <1>8, <1>11, GoodConcat
<1>13. ASSUME NEW o, NEW n, o \in {"read", "write"}
       PROVE  CountIn(ready', o, n) = CountIn(ready, o, n)
  <2>1. CountIn(Rest \o calls, o, n) = CountIn(Rest, o, n) + CountIn(calls, o, n)
    BY <1>2, <1>11, CountConcat
  <2>2. CountIn(calls, o, n) = 0 /\ CountIn(Rest, o, n) = CountIn(ready, o, n)
    BY <1>2, <1>9, <1>13
  <2>3. CountIn(ready', o, n) = CountIn(Rest, o, n) + CountIn(calls, o, n)
    BY <1>8, <2>1, Zenon
  <2> QED
    BY <1>2, <2>2, <2>3
<1> QED
  BY <1>12, <1>13, QueueStep DEF RunSend, IInv, Types

(* stop() turns every operation it aborts into a handler that fails, so     *)
(* that a write counts once before and once after.                          *)
LEMMA StopStep ==
  ASSUME IInv, Stop
  PROVE  IInv'
<1>1. /\ session \in Seq(IpaSession) /\ Len(session) \in Nat
      /\ ClientId = 1 .. Len(session) /\ GoodQueue(ready, session)
      /\ \A n \in ClientId : session[n] \in IpaSession
      /\ Closing \subseteq ClientId
  BY TypesFacts DEF IInv, Types, Closing
<1>2. PICK T : T = Aborted
  OBVIOUS
<1>3. IsFiniteSet(T)
  <2>1. PICK R : R = {m \in Closing : session[m].reading}
    OBVIOUS
  <2>2. PICK W : W = {m \in Closing : session[m].sending}
    OBVIOUS
  <2>3. IsFiniteSet(R) /\ IsFiniteSet(W)
    BY <1>1, <2>1, <2>2, FiniteClients
  <2>4. /\ IsFiniteSet({Failed("read", n) : n \in R})
        /\ IsFiniteSet({Failed("write", n) : n \in W})
    BY <2>3, FiniteHandlers
  <2> QED
    BY <1>2, <2>1, <2>2, <2>4, FS_Union DEF Aborted
<1>4. /\ \A h \in T : GoodHandler(h, session)
      /\ \A h \in T : \A n : h.op = "write" /\ h.id = n =>
           h = Failed("write", n) /\ n \in Closing /\ session[n].sending
      /\ \A n \in Closing : session[n].sending => Failed("write", n) \in T
  <2>1. ASSUME NEW n \in Closing
        PROVE  /\ GoodHandler(Failed("read", n), session)
               /\ GoodHandler(Failed("write", n), session)
    BY <1>1, HandlerGood
  <2>2. \A n : /\ Failed("read", n).op = "read"
               /\ Failed("write", n).op = "write" /\ Failed("write", n).id = n
    BY HandlerFields
  <2> QED
    BY <1>2, <2>1, <2>2 DEF Aborted
<1>5. PICK aborted \in SetToSeqs(T) :
        ready' = ready \o (IF acceptor_ = "accepting"
                             THEN <<Failed("accept", 0)>> ELSE <<>>) \o aborted
  BY <1>2 DEF Stop
<1>6. ASSUME NEW n
      PROVE  /\ aborted \in Seq(T)
             /\ CountIn(aborted, "write", n) =
                  IF n \in Closing /\ session[n].sending THEN 1 ELSE 0
  <2>1. \A g, h \in T :
          g.op = "write" /\ g.id = n /\ h.op = "write" /\ h.id = n => g = h
    BY <1>4
  <2>3. CASE n \in Closing /\ session[n].sending
    <3>1. PICK h \in T : h.op = "write" /\ h.id = n
      BY <1>4, <2>3, HandlerFields
    <3>2. aborted \in Seq(T) /\ CountIn(aborted, "write", n) = 1
      BY <1>3, <2>1, <3>1, CountInOrder
    <3> QED
      BY <2>3, <3>2
  <2>4. CASE ~(n \in Closing /\ session[n].sending)
    <3>1. \A h \in T : ~(h.op = "write" /\ h.id = n)
      BY <1>4, <2>4
    <3>2. aborted \in Seq(T) /\ CountIn(aborted, "write", n) = 0
      BY <1>3, <2>1, <3>1, CountInOrder
    <3> QED
      BY <2>4, <3>2
  <2> QED
    BY <2>3, <2>4
<1>7. GoodQueue(aborted, session) /\ aborted \in Seq(HandlerType)
  BY <1>4, <1>6, GoodElements DEF GoodQueue
<1>8. PICK q : /\ GoodQueue(q, session) /\ q \in Seq(HandlerType)
               /\ ready' = q \o aborted
               /\ \A n : CountIn(q, "write", n) = CountIn(ready, "write", n)
  <2>1. CASE acceptor_ = "accepting"
    <3>1. PICK h : h = Failed("accept", 0)
      OBVIOUS
    <3>2. 0 \in 0 .. Len(session) /\ ready \in Seq(HandlerType)
      BY <1>1, TypesFacts
    <3>3. GoodHandler(h, session) /\ h \in HandlerType
      BY <1>1, <3>1, <3>2, HandlerGood DEF GoodHandler
    <3>4. h.op = "accept" /\ h.id = 0
      BY <3>1, HandlerFields, Zenon
    <3>5. ready' = Append(ready, h) \o aborted
      BY <1>5, <1>7, <2>1, <3>1, <3>2, <3>3
    <3>6. GoodQueue(Append(ready, h), session)
      BY <1>1, <3>3, GoodAppend
    <3>7. ASSUME NEW n
          PROVE  CountIn(Append(ready, h), "write", n) = CountIn(ready, "write", n)
      BY <1>1, <3>3, <3>4, Appended
    <3>8. Append(ready, h) \in Seq(HandlerType)
      BY <3>2, <3>3
    <3> QED
      BY <3>5, <3>6, <3>7, <3>8, Zenon
  <2>2. CASE acceptor_ # "accepting"
    <3>1. ready \in Seq(HandlerType)
      BY TypesFacts
    <3>2. ready' = ready \o aborted
      BY <1>5, <1>7, <2>2, <3>1
    <3> QED
      BY <1>1, <3>1, <3>2
  <2> QED
    BY <2>1, <2>2
<1>9. ASSUME NEW n
      PROVE  /\ CountIn(ready', "write", n) = CountIn(ready, "write", n)
                  + (IF n \in Closing /\ session[n].sending THEN 1 ELSE 0)
             /\ CountIn(ready, "write", n) \in Nat
  <2>1. CountIn(q \o aborted, "write", n)
          = CountIn(q, "write", n) + CountIn(aborted, "write", n)
    BY <1>7, <1>8, CountConcat
  <2>2. CountIn(ready', "write", n)
          = CountIn(ready, "write", n) + CountIn(aborted, "write", n)
    BY <1>8, <2>1, Zenon
  <2>3. CountIn(ready, "write", n) \in Nat
    BY TypesFacts, CountType
  <2> QED
    BY <1>6, <2>2, <2>3
<1>10. /\ session' \in Seq(IpaSession) /\ Len(session') = Len(session)
       /\ ClientId' = ClientId
       /\ \A n \in ClientId :
            /\ n \in Closing => ~session'[n].sending /\ session'[n].state_ = "Stopped"
            /\ n \notin Closing => session'[n] = session[n]
            /\ session'[n].writing_ = session[n].writing_
            /\ session'[n].writeQueue_ = session[n].writeQueue_
            /\ session'[n].handshaken = session[n].handshaken
  <2>1. PICK f : f = [n \in ClientId |->
           IF n \in Closing
             THEN [session[n] EXCEPT !.state_ = "Stopped", !.open = FALSE,
                                     !.reading = FALSE, !.sending = FALSE]
             ELSE session[n]]
    OBVIOUS
  <2>2. ASSUME NEW n \in ClientId
        PROVE  /\ f[n] \in IpaSession
               /\ n \in Closing => ~f[n].sending /\ f[n].state_ = "Stopped"
               /\ n \notin Closing => f[n] = session[n]
               /\ f[n].writing_ = session[n].writing_
               /\ f[n].writeQueue_ = session[n].writeQueue_
               /\ f[n].handshaken = session[n].handshaken
    BY <1>1, <2>1 DEF IpaSession
  <2>3. session' = f
    BY <2>1 DEF Stop
  <2>4. f \in [1 .. Len(session) -> IpaSession]
    BY <1>1, <2>1, <2>2
  <2>5. f \in Seq(IpaSession) /\ Len(f) = Len(session)
    BY <1>1, <2>4
  <2> QED
    BY <1>1, <2>2, <2>3, <2>5 DEF ClientId
<1>11. /\ acceptor_' = "closed" /\ allSessions_' = {} /\ sessions_' = {}
       /\ dispatched' = {} /\ process' = process
  BY DEF Stop
<1>12. Types'
  BY <1>10, <1>11 DEF IInv, Types
<1>13. GoodQueue(ready', session')
  <2>1. GoodQueue(ready', session)
    BY <1>7, <1>8, GoodConcat
  <2>2. /\ Len(session) <= Len(session')
        /\ \A n \in 1 .. Len(session) :
             session[n].handshaken => session'[n].handshaken
    BY <1>1, <1>10
  <2> QED
    BY <1>1, <1>10, <2>1, <2>2, GoodLater
<1>14. ASSUME NEW n \in ClientId
       PROVE  SessionInv(n)'
  <2>1. SessionInv(n)
    BY DEF IInv
  <2>2. CASE n \in Closing
    <3>1. ~session'[n].sending /\ session'[n].state_ = "Stopped"
      BY <1>10, <2>2
    <3> QED
      BY <1>9, <1>10, <1>11, <2>1, <2>2, <3>1 DEF SessionInv
  <2>3. CASE n \notin Closing
    BY <1>9, <1>10, <1>11, <2>1, <2>3 DEF SessionInv
  <2> QED
    BY <2>2, <2>3
<1> QED
  BY <1>10, <1>12, <1>13, <1>14 DEF IInv

-----------------------------------------------------------------------------
(* The theorems.                                                            *)

LEMMA IInvNext ==
  ASSUME IInv, [Next]_vars
  PROVE  IInv'
<1>1. CASE OnReadFailed
  BY <1>1, DisconnectStep DEF OnReadFailed, Runs
<1>2. CASE OnWriteFailed
  BY <1>2, DisconnectStep DEF OnWriteFailed, Runs
<1>3. CASE Handlers /\ ~OnReadFailed /\ ~OnWriteFailed
  BY <1>3, OnAcceptStep, OnAcceptFailedStep, OnReadStep, OnWrittenStep,
     RunSendStep, RunEnqueueStep DEF Handlers
<1>4. CASE AcceptCompletes
  BY <1>4, AcceptCompletesStep
<1>5. ASSUME NEW n \in ClientId, ReadCompletes(n) \/ WriteCompletes(n)
      PROVE  IInv'
  BY <1>5, ReadCompletesStep, WriteCompletesStep
<1>6. ASSUME NEW target \in 0 .. Len(session), Send(target)
      PROVE  IInv'
  BY <1>6, SendStep
<1>7. CASE Stop
  BY <1>7, StopStep
<1>8. CASE UNCHANGED vars
  <2>1. UNCHANGED <<acceptor_, session, allSessions_, sessions_, ready, process,
                    dispatched>>
    BY <1>8 DEF vars
  <2>2. ASSUME NEW n \in ClientId
        PROVE  SessionInv(n)'
    BY <2>1 DEF IInv, SessionInv
  <2> QED
    BY <2>1, <2>2 DEF IInv, Types, GoodQueue, GoodHandler, ClientId
<1> QED
  BY <1>1, <1>2, <1>3, <1>4, <1>5, <1>6, <1>7, <1>8 DEF Next

LEMMA Inductive == Spec => []IInv
<1>1. Init => IInv
  BY IInvInit
<1>2. IInv /\ [Next]_vars => IInv'
  BY IInvNext
<1> QED
  BY <1>1, <1>2, PTL DEF Spec

(* Every state of the server and its sessions is of its type: the tables    *)
(* hold ids of accepted connections only, and so does every handler queued  *)
(* by acceptNext, startRead, doWrite and the posted functions.              *)
THEOREM ServerTypes == Spec => []TypeOK
<1>1. IInv => TypeOK
  BY IInvImplies
<1> QED
  BY <1>1, Inductive, PTL

(* IpaServer::send routes to exactly the sessions that are connected and    *)
(* ready: onSessionReady, onSessionDisconnect and stop() keep sessions_ in  *)
(* step with the states of the sessions in allSessions_.                    *)
THEOREM RoutesToReadyAlways == Spec => []RoutesToReady
<1>1. IInv => RoutesToReady
  BY IInvImplies
<1> QED
  BY <1>1, Inductive, PTL

(* No GSUP of an SGSN reaches the proxy, and none is queued for it, before  *)
(* its ID_RESP: processFrame drops the one, and send(), which looks at the  *)
(* state before it posts the enqueue, never begins the other.               *)
THEOREM IdentifiedFirstAlways == Spec => []IdentifiedFirst
<1>1. IInv => IdentifiedFirst
  BY IInvImplies
<1> QED
  BY <1>1, Inductive, PTL

(* writing_ keeps a session to one async_write at a time, whose frame stays *)
(* at the head of writeQueue_ until its handler has run, also across the    *)
(* writes that stop() aborts or that fail on a closed socket.               *)
THEOREM OneWriteInFlightAlways == Spec => []OneWriteInFlight
<1>1. IInv => OneWriteInFlight
  BY IInvImplies
<1> QED
  BY <1>1, Inductive, PTL

(* Every session in allSessions_ has exactly one read outstanding or its    *)
(* handler due, so the loss of its connection is noticed by startRead.      *)
THEOREM WatchedAlways == Spec => []Watched
<1>1. IInv => Watched
  BY IInvImplies
<1> QED
  BY <1>1, Inductive, PTL
=============================================================================
