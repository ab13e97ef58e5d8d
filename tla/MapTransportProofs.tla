------------------------- MODULE MapTransportProofs -------------------------
(***************************************************************************)
(* Proofs about module MapTransport: the type invariant, that the reconnect *)
(* loop is never lost, and that no frame is stranded.                       *)
(***************************************************************************)
EXTENDS MapTransport, FiniteSetTheorems, SequenceTheorems, TLAPS

-----------------------------------------------------------------------------
(* What waits in a queue: a handler of an operation, and one that failed.   *)

HasOp(q, op) == \E i \in DOMAIN q : q[i].op = op

HasFailed(q, op) == \E i \in DOMAIN q : q[i].op = op /\ ~q[i].ok

(* A handler of q is one of r, whatever became of its data.                 *)
Keeps(q, r) ==
    /\ \A op : HasOp(q, op) => HasOp(r, op)
    /\ \A op : HasFailed(q, op) => HasFailed(r, op)

(* InQueue counts what HasOp looks for.                                     *)
LEMMA InQueueHas ==
  ASSUME ready \in Seq(HandlerType), NEW op
  PROVE  InQueue(op) > 0 <=> HasOp(ready, op)
<1>1. PICK S : S = {i \in DOMAIN ready : ready[i].op = op}
  OBVIOUS
<1>2. Len(ready) \in Nat /\ DOMAIN ready = 1 .. Len(ready)
  OBVIOUS
<1>3. IsFiniteSet(1 .. Len(ready)) /\ S \in SUBSET (1 .. Len(ready))
  BY <1>1, <1>2, FS_Interval
<1>4. IsFiniteSet(S)
  BY <1>3, FS_Subset
<1>5. Cardinality(S) \in Nat /\ (Cardinality(S) = 0 <=> S = {})
  BY <1>4, FS_CardinalityType, FS_EmptySet
<1>6. HasOp(ready, op) <=> S # {}
  BY <1>1 DEF HasOp
<1> QED
  BY <1>1, <1>5, <1>6 DEF InQueue

LEMMA KeepsTransitive ==
  ASSUME NEW p, NEW q, NEW r, Keeps(p, q), Keeps(q, r)
  PROVE  Keeps(p, r)
  BY DEF Keeps

LEMMA ConcatKeeps ==
  ASSUME NEW q \in Seq(HandlerType), NEW r \in Seq(HandlerType)
  PROVE  q \o r \in Seq(HandlerType) /\ Keeps(q, q \o r) /\ Keeps(r, q \o r)
<1>1. /\ Len(q) \in Nat /\ Len(r) \in Nat
      /\ DOMAIN q = 1 .. Len(q) /\ DOMAIN r = 1 .. Len(r)
      /\ q \o r \in Seq(HandlerType)
      /\ DOMAIN (q \o r) = 1 .. Len(q) + Len(r)
      /\ \A i \in 1 .. Len(q) + Len(r) :
           (q \o r)[i] = IF i <= Len(q) THEN q[i] ELSE r[i - Len(q)]
  BY LenProperties, ConcatProperties
<1>2. ASSUME NEW i \in DOMAIN q
      PROVE  i \in DOMAIN (q \o r) /\ (q \o r)[i] = q[i]
  BY <1>1
<1>3. ASSUME NEW i \in DOMAIN r
      PROVE  /\ Len(q) + i \in DOMAIN (q \o r)
             /\ (q \o r)[Len(q) + i] = r[i]
  BY <1>1
<1>4. Keeps(q, q \o r)
  BY <1>2 DEF Keeps, HasOp, HasFailed
<1>5. Keeps(r, q \o r)
  BY <1>3 DEF Keeps, HasOp, HasFailed
<1> QED
  BY <1>1, <1>4, <1>5

LEMMA AppendKeeps ==
  ASSUME NEW q \in Seq(HandlerType), NEW h \in HandlerType
  PROVE  /\ Append(q, h) \in Seq(HandlerType)
         /\ Keeps(q, Append(q, h))
         /\ HasOp(Append(q, h), h.op)
         /\ ~h.ok => HasFailed(Append(q, h), h.op)
<1>1. /\ Len(q) \in Nat /\ DOMAIN q = 1 .. Len(q)
      /\ Append(q, h) \in Seq(HandlerType)
      /\ DOMAIN Append(q, h) = 1 .. Len(q) + 1
      /\ \A i \in 1 .. Len(q) : Append(q, h)[i] = q[i]
      /\ Append(q, h)[Len(q) + 1] = h
  OBVIOUS
<1>2. \A i \in DOMAIN q : i \in DOMAIN Append(q, h) /\ Append(q, h)[i] = q[i]
  BY <1>1
<1>3. Keeps(q, Append(q, h))
  BY <1>2 DEF Keeps, HasOp, HasFailed
<1>4. Len(q) + 1 \in DOMAIN Append(q, h)
  BY <1>1
<1> QED
  BY <1>1, <1>3, <1>4 DEF HasOp, HasFailed

(* Only the handlers of its head's operation may be gone from a tail.       *)
LEMMA TailKeeps ==
  ASSUME NEW q \in Seq(HandlerType), q # <<>>
  PROVE  /\ Head(q) \in HandlerType /\ Tail(q) \in Seq(HandlerType)
         /\ \A op : op # Head(q).op /\ HasOp(q, op) => HasOp(Tail(q), op)
         /\ \A op : (op # Head(q).op \/ Head(q).ok) /\ HasFailed(q, op) =>
                      HasFailed(Tail(q), op)
<1>1. /\ Len(q) \in Nat /\ DOMAIN q = 1 .. Len(q)
      /\ Head(q) = q[1] /\ Head(q) \in HandlerType
      /\ Tail(q) \in Seq(HandlerType) /\ DOMAIN Tail(q) = 1 .. Len(q) - 1
      /\ \A i \in 1 .. Len(q) - 1 : Tail(q)[i] = q[i + 1]
  OBVIOUS
<1>2. ASSUME NEW i \in DOMAIN q, i # 1
      PROVE  i - 1 \in DOMAIN Tail(q) /\ Tail(q)[i - 1] = q[i]
  BY <1>1, <1>2
<1>3. ASSUME NEW op, op # Head(q).op, HasOp(q, op)
      PROVE  HasOp(Tail(q), op)
  <2>1. PICK i \in DOMAIN q : q[i].op = op
    BY <1>3 DEF HasOp
  <2>2. i # 1
    BY <1>1, <1>3, <2>1
  <2> QED
    BY <1>2, <2>1, <2>2 DEF HasOp
<1>4. ASSUME NEW op, op # Head(q).op \/ Head(q).ok, HasFailed(q, op)
      PROVE  HasFailed(Tail(q), op)
  <2>1. PICK i \in DOMAIN q : q[i].op = op /\ ~q[i].ok
    BY <1>4 DEF HasFailed
  <2>2. i # 1
    BY <1>1, <1>4, <2>1
  <2> QED
    BY <1>2, <2>1, <2>2 DEF HasFailed
<1> QED
  BY <1>1, <1>3, <1>4

LEMMA HandlerFacts ==
  ASSUME NEW op \in Operation \cup {"reconnect", "beat", "send"}
  PROVE  /\ Due(op) \in HandlerType /\ Due(op).op = op /\ Due(op).ok
         /\ Failed(op) \in HandlerType /\ Failed(op).op = op /\ ~Failed(op).ok
<1>1. NoChunk \in Chunk
  BY DEF NoChunk, Chunk
<1> QED
  BY <1>1 DEF HandlerType, Due, Failed, Handler

-----------------------------------------------------------------------------
(* The inductive invariant.                                                 *)

(* A reconnect is scheduled; a read, a connect or a reconnect is to come;   *)
(* what will send or clear the write queue is to come.                      *)
Scheduled == reconnectTimer_ # "idle" \/ HasOp(ready, "reconnect")

Watching ==
    \/ Scheduled
    \/ pending["connect"] > 0 \/ HasOp(ready, "connect")
    \/ pending["read"] > 0 \/ HasOp(ready, "read")

Flushing ==
    \/ pending["write"] > 0 \/ HasOp(ready, "write")
    \/ HasFailed(ready, "read") \/ HasFailed(ready, "connect")

(* Beside the two properties: writing_ says whether the queue holds frames, *)
(* nothing is outstanding on a closed socket, stop() has closed it, and the *)
(* read loop, which ends when Disconnected, leaves a reconnect behind.      *)
IInv ==
    /\ TypeOK
    /\ writing_ <=> writeQueue_ # <<>>
    /\ socket_ = "closed" => pending = NothingPending
    /\ state_ = "Stopped" => socket_ = "closed"
    /\ process = "running" /\ state_ = "Disconnected" => Scheduled
    /\ process = "running" /\ state_ # "Stopped" => Watching
    /\ process = "running" /\ state_ # "Stopped" /\ writeQueue_ # <<>> => Flushing

LEMMA IInvImplies == IInv => TypeOK /\ NeverStuck /\ NothingStranded
<1> SUFFICES ASSUME IInv
             PROVE  TypeOK /\ NeverStuck /\ NothingStranded
  OBVIOUS
<1>1. TypeOK /\ ready \in Seq(HandlerType)
  BY DEF IInv, TypeOK
<1>2. \A op : InQueue(op) > 0 <=> HasOp(ready, op)
  BY <1>1, InQueueHas
<1>3. NeverStuck
  BY <1>2 DEF IInv, NeverStuck, Watching, Scheduled
<1>4. NothingStranded
  BY <1>2 DEF IInv, NothingStranded, Flushing, HasFailed
<1> QED
  BY <1>1, <1>3, <1>4

LEMMA IInvInit == Init => IInv
<1> SUFFICES ASSUME Init
             PROVE  IInv
  OBVIOUS
<1>1. <<>> \in Seq(Frame) /\ <<>> \in Seq(HandlerType)
  OBVIOUS
<1>2. pending \in [Operation -> Nat]
  BY DEF Init
<1>3. TypeOK
  BY <1>1, <1>2 DEF Init, TypeOK, State
<1> QED
  BY <1>3 DEF Init, IInv, NothingPending, Scheduled, Watching

-----------------------------------------------------------------------------
(* What the handlers are made of.                                           *)

(* close() keeps every handler and adds one for each operation it aborts.   *)
LEMMA CloseFacts ==
  ASSUME pending \in [Operation -> Nat], NEW q \in Seq(HandlerType)
  PROVE  /\ Close(q) \in Seq(HandlerType)
         /\ Keeps(q, Close(q))
         /\ pending["write"] > 0 => HasOp(Close(q), "write")
<1>1. PICK a : a = [i \in DOMAIN q |->
         [q[i] EXCEPT !.old = q[i].op = "read" /\ q[i].ok]]
  OBVIOUS
<1>2. PICK b : b = [i \in 1 .. pending["read"] |-> Failed("read")]
  OBVIOUS
<1>3. PICK c : c = [i \in 1 .. pending["connect"] |-> Failed("connect")]
  OBVIOUS
<1>4. PICK d : d = [i \in 1 .. pending["write"] |-> Failed("write")]
  OBVIOUS
<1>5. a \in Seq(HandlerType) /\ Keeps(q, a)
  <2>1. DOMAIN q = 1 .. Len(q) /\ Len(q) \in Nat
    OBVIOUS
  <2>2. ASSUME NEW i \in DOMAIN q
        PROVE  a[i] \in HandlerType /\ a[i].op = q[i].op /\ a[i].ok = q[i].ok
    <3>1. PICK old \in BOOLEAN : old = (q[i].op = "read" /\ q[i].ok)
      OBVIOUS
    <3>2. a[i] = [q[i] EXCEPT !.old = old] /\ q[i] \in HandlerType
      BY <1>1, <3>1
    <3> QED
      BY <3>2 DEF HandlerType
  <2>3. DOMAIN a = DOMAIN q /\ a = [i \in DOMAIN a |-> a[i]]
    BY <1>1
  <2>4. a \in [1 .. Len(q) -> HandlerType]
    BY <2>1, <2>2, <2>3
  <2>5. a \in Seq(HandlerType)
    BY <2>1, <2>4
  <2>6. Keeps(q, a)
    BY <2>2, <2>3 DEF Keeps, HasOp, HasFailed
  <2> QED
    BY <2>5, <2>6
<1>6. /\ pending["read"] \in Nat /\ pending["connect"] \in Nat
      /\ pending["write"] \in Nat
      /\ Failed("read") \in HandlerType /\ Failed("connect") \in HandlerType
      /\ Failed("write") \in HandlerType
  BY HandlerFacts DEF Operation
<1>7. /\ b \in Seq(HandlerType) /\ c \in Seq(HandlerType)
      /\ d \in Seq(HandlerType)
  <2>1. ASSUME NEW n \in Nat, NEW h \in HandlerType
        PROVE  [i \in 1 .. n |-> h] \in Seq(HandlerType)
    OBVIOUS
  <2> QED
    BY <1>2, <1>3, <1>4, <1>6, <2>1
<1>8. /\ a \o b \in Seq(HandlerType) /\ Keeps(a, a \o b)
  BY <1>5, <1>7, ConcatKeeps
<1>9. /\ (a \o b) \o c \in Seq(HandlerType) /\ Keeps(a \o b, (a \o b) \o c)
  BY <1>7, <1>8, ConcatKeeps
<1>10. /\ ((a \o b) \o c) \o d \in Seq(HandlerType)
       /\ Keeps((a \o b) \o c, ((a \o b) \o c) \o d)
       /\ Keeps(d, ((a \o b) \o c) \o d)
  BY <1>7, <1>9, ConcatKeeps
<1>11. Close(q) = ((a \o b) \o c) \o d
  BY <1>1, <1>2, <1>3, <1>4 DEF Close
<1>12. Keeps(q, ((a \o b) \o c) \o d)
  BY <1>5, <1>8, <1>9, <1>10, KeepsTransitive
<1>13. pending["write"] > 0 => HasOp(d, "write")
  <2> SUFFICES ASSUME pending["write"] > 0
               PROVE  HasOp(d, "write")
    OBVIOUS
  <2>1. 1 \in DOMAIN d /\ d[1] = Failed("write")
    BY <1>4, <1>6
  <2>2. Failed("write").op = "write"
    BY HandlerFacts DEF Operation
  <2> QED
    BY <2>1, <2>2 DEF HasOp
<1> QED
  BY <1>10, <1>11, <1>12, <1>13 DEF Keeps

LEMMA OverwrittenFacts ==
  ASSUME ready \in Seq(HandlerType), NEW content \in Chunk
  PROVE  /\ Overwritten(content) \in Seq(HandlerType)
         /\ Keeps(ready, Overwritten(content))
<1>1. PICK a : a = Overwritten(content)
  OBVIOUS
<1>2. /\ DOMAIN ready = 1 .. Len(ready) /\ Len(ready) \in Nat
      /\ DOMAIN a = DOMAIN ready
  BY <1>1 DEF Overwritten
<1>3. ASSUME NEW i \in DOMAIN ready
      PROVE  /\ a[i] \in HandlerType
             /\ a[i].op = ready[i].op /\ a[i].ok = ready[i].ok
  <2>1. ready[i] \in HandlerType
    OBVIOUS
  <2>2. CASE ready[i].op = "read" /\ ready[i].ok
    <3>1. a[i] = [ready[i] EXCEPT !.chunk = content]
      BY <1>1, <2>2 DEF Overwritten
    <3> QED
      BY <2>1, <3>1 DEF HandlerType
  <2>3. CASE ~(ready[i].op = "read" /\ ready[i].ok)
    BY <1>1, <2>1, <2>3 DEF Overwritten
  <2> QED
    BY <2>2, <2>3
<1>4. a \in Seq(HandlerType)
  <2>1. a \in [1 .. Len(ready) -> HandlerType]
    BY <1>1, <1>2, <1>3 DEF Overwritten
  <2> QED
    BY <1>2, <2>1
<1>5. Keeps(ready, a)
  BY <1>2, <1>3 DEF Keeps, HasOp, HasFailed
<1> QED
  BY <1>1, <1>4, <1>5

(* An operation that is started is outstanding or, on a closed socket, its  *)
(* failure is due.                                                          *)
LEMMA StartAllFacts ==
  ASSUME pending \in [Operation -> Nat], NEW q \in Seq(HandlerType),
         NEW ops \in Seq(Operation), StartAll(ops, q)
  PROVE  /\ ready' \in Seq(HandlerType) /\ pending' \in [Operation -> Nat]
         /\ Keeps(q, ready')
         /\ \A op \in Operation : pending'[op] >= pending[op]
         /\ \A i \in DOMAIN ops : \/ pending'[ops[i]] > 0
                                  \/ HasOp(ready', ops[i])
         /\ socket_ = "closed" =>
              /\ pending' = pending
              /\ \A i \in DOMAIN ops : HasFailed(ready', ops[i])
<1>1. /\ DOMAIN ops = 1 .. Len(ops) /\ Len(ops) \in Nat
      /\ \A i \in DOMAIN ops : ops[i] \in Operation
  OBVIOUS
<1>2. CASE socket_ = "closed"
  <2>1. PICK f : f = [i \in DOMAIN ops |-> Failed(ops[i])]
    OBVIOUS
  <2>2. /\ ready' = q \o f /\ pending' = pending
    BY <1>2, <2>1 DEF StartAll
  <2>3. \A i \in DOMAIN ops : /\ Failed(ops[i]) \in HandlerType
                              /\ Failed(ops[i]).op = ops[i] /\ ~Failed(ops[i]).ok
    BY <1>1, HandlerFacts
  <2>4. f \in Seq(HandlerType)
    BY <1>1, <2>1, <2>3
  <2>5. /\ q \o f \in Seq(HandlerType) /\ Keeps(q, q \o f) /\ Keeps(f, q \o f)
    BY <2>4, ConcatKeeps
  <2>6. \A i \in DOMAIN ops : HasFailed(f, ops[i]) /\ HasOp(f, ops[i])
    BY <2>1, <2>3 DEF HasFailed, HasOp
  <2>7. \A i \in DOMAIN ops : HasFailed(q \o f, ops[i]) /\ HasOp(q \o f, ops[i])
    BY <2>5, <2>6 DEF Keeps
  <2>8. \A op \in Operation : pending[op] \in Nat
    OBVIOUS
  <2> QED
    BY <2>2, <2>5, <2>7, <2>8
<1>3. CASE socket_ # "closed"
  <2>1. /\ ready' = q
        /\ pending' = [op \in Operation |->
             pending[op] + Cardinality({i \in DOMAIN ops : ops[i] = op})]
    BY <1>3 DEF StartAll
  <2>2. ASSUME NEW op \in Operation
        PROVE  /\ pending'[op] \in Nat /\ pending'[op] >= pending[op]
               /\ (\E i \in DOMAIN ops : ops[i] = op) => pending'[op] > 0
    <3>1. PICK S : S = {i \in DOMAIN ops : ops[i] = op}
      OBVIOUS
    <3>2. IsFiniteSet(1 .. Len(ops)) /\ S \in SUBSET (1 .. Len(ops))
      BY <1>1, <3>1, FS_Interval
    <3>3. IsFiniteSet(S)
      BY <3>2, FS_Subset
    <3>4. Cardinality(S) \in Nat /\ (Cardinality(S) = 0 <=> S = {})
      BY <3>3, FS_CardinalityType, FS_EmptySet
    <3>5. pending'[op] = pending[op] + Cardinality(S)
      BY <2>1, <3>1
    <3>6. pending[op] \in Nat
      OBVIOUS
    <3>7. (\E i \in DOMAIN ops : ops[i] = op) => S # {}
      BY <3>1
    <3> QED
      BY <3>4, <3>5, <3>6, <3>7
  <2>3. pending' \in [Operation -> Nat]
    BY <2>1, <2>2
  <2>4. Keeps(q, ready')
    BY <2>1 DEF Keeps
  <2> QED
    BY <1>1, <1>3, <2>1, <2>2, <2>3, <2>4
<1> QED
  BY <1>2, <1>3

-----------------------------------------------------------------------------
(* The steps.                                                               *)

LEMMA TypeFacts ==
  ASSUME IInv
  PROVE  /\ ready \in Seq(HandlerType) /\ pending \in [Operation -> Nat]
         /\ pending["read"] \in Nat /\ pending["connect"] \in Nat
         /\ pending["write"] \in Nat
         /\ writeQueue_ \in Seq(Frame) /\ writing_ \in BOOLEAN
         /\ TypeOK
  BY DEF IInv, TypeOK, Operation

(* The queue behind its head.                                               *)
Rest == Tail(ready)

LEMMA RestFacts ==
  ASSUME IInv, ready # <<>>, NEW op, Head(ready).op = op
  PROVE  /\ Head(ready) \in HandlerType /\ Rest \in Seq(HandlerType)
         /\ \A o : o # op /\ HasOp(ready, o) => HasOp(Rest, o)
         /\ \A o : (o # op \/ Head(ready).ok) /\ HasFailed(ready, o) =>
                     HasFailed(Rest, o)
  BY TypeFacts, TailKeeps DEF Rest

LEMMA EnqueueFacts ==
  ASSUME IInv, NEW frames \in Seq(Frame), Enqueue(frames)
  PROVE  /\ writeQueue_' \in Seq(Frame) /\ writing_' \in BOOLEAN
         /\ writing_' <=> writeQueue_' # <<>>
         /\ writing_' <=> writeQueue_ # <<>> \/ frames # <<>>
<1>1. writeQueue_ \in Seq(Frame) /\ (writing_ <=> writeQueue_ # <<>>)
  BY DEF IInv, TypeOK
<1>2. /\ writeQueue_' = writeQueue_ \o frames
      /\ writing_' = (writing_ \/ frames # <<>>)
  BY DEF Enqueue
<1>3. /\ writeQueue_ \o frames \in Seq(Frame)
      /\ writeQueue_ \o frames = <<>> <=> writeQueue_ = <<>> /\ frames = <<>>
  BY <1>1
<1> QED
  BY <1>1, <1>2, <1>3

Starts(ops, op) == \E i \in DOMAIN ops : ops[i] = op

(* A handler that starts operations: a write if it enqueues the first frame,*)
(* and a read if it is the handler of one or leaves the state Stopped.      *)
LEMMA StartingStep ==
  ASSUME IInv, process = "running", ready # <<>>, NEW op, Head(ready).op = op,
         op \notin {"write", "reconnect"},
         op \in {"read", "connect"} => Head(ready).ok,
         NEW frames \in Seq(Frame), NEW ops \in Seq(Operation),
         Enqueue(frames), StartAll(ops, Rest),
         frames # <<>> /\ ~writing_ => Starts(ops, "write"),
         state_' \in State, beatTimer_' \in BOOLEAN,
         decoder_' \in {"nobody", "current", "earlier"},
         UNCHANGED <<socket_, reconnectTimer_, process, attempt>>,
         state_' = "Stopped" => state_ = "Stopped",
         state_' = "Disconnected" => state_ = "Disconnected",
         state_ = "Stopped" \/ op \in {"read", "connect"} =>
           \/ state_' \in {"Stopped", "Disconnected"}
           \/ Starts(ops, "read")
  PROVE  IInv'
<1>1. /\ Rest \in Seq(HandlerType)
      /\ \A o : o # op /\ HasOp(ready, o) => HasOp(Rest, o)
      /\ \A o : (o # op \/ Head(ready).ok) /\ HasFailed(ready, o) =>
                  HasFailed(Rest, o)
  BY RestFacts
<1>2. /\ ready' \in Seq(HandlerType) /\ pending' \in [Operation -> Nat]
      /\ Keeps(Rest, ready')
      /\ \A o \in Operation : pending'[o] >= pending[o]
      /\ \A i \in DOMAIN ops : pending'[ops[i]] > 0 \/ HasOp(ready', ops[i])
      /\ socket_ = "closed" =>
           /\ pending' = pending
           /\ \A i \in DOMAIN ops : HasFailed(ready', ops[i])
  BY <1>1, TypeFacts, StartAllFacts
<1>3. /\ writeQueue_' \in Seq(Frame) /\ writing_' \in BOOLEAN
      /\ writing_' <=> writeQueue_' # <<>>
      /\ writing_' <=> writeQueue_ # <<>> \/ frames # <<>>
  BY EnqueueFacts
<1>4. TypeOK'
  BY <1>2, <1>3 DEF IInv, TypeOK
<1>5. \A o : o # op /\ HasOp(ready, o) => HasOp(ready', o)
  BY <1>1, <1>2 DEF Keeps
<1>6. \A o : (o # op \/ Head(ready).ok) /\ HasFailed(ready, o) =>
               HasFailed(ready', o)
  BY <1>1, <1>2 DEF Keeps
<1>7. /\ pending["read"] \in Nat /\ pending'["read"] \in Nat
      /\ pending["connect"] \in Nat /\ pending'["connect"] \in Nat
      /\ pending["write"] \in Nat /\ pending'["write"] \in Nat
      /\ pending'["read"] >= pending["read"]
      /\ pending'["connect"] >= pending["connect"]
      /\ pending'["write"] >= pending["write"]
  BY <1>2, TypeFacts DEF Operation
<1>8. Starts(ops, "read") =>
        /\ pending'["read"] > 0 \/ HasOp(ready', "read")
        /\ socket_ = "closed" => HasFailed(ready', "read")
  BY <1>2 DEF Starts
<1>9. Starts(ops, "write") => pending'["write"] > 0 \/ HasOp(ready', "write")
  BY <1>2 DEF Starts
<1>10. Scheduled => Scheduled'
  BY <1>5 DEF Scheduled
<1>11. state_' = "Disconnected" => Scheduled'
  BY <1>10 DEF IInv
<1>12. state_' # "Stopped" => Watching'
  <2>1. CASE state_ = "Stopped" \/ op \in {"read", "connect"}
    BY <1>8, <1>11, <2>1 DEF Watching
  <2>2. CASE state_ # "Stopped" /\ op \notin {"read", "connect"}
    <3>1. Watching
      BY <2>2 DEF IInv
    <3>2. /\ HasOp(ready, "read") => HasOp(ready', "read")
          /\ HasOp(ready, "connect") => HasOp(ready', "connect")
      BY <1>5, <2>2
    <3> QED
      BY <1>7, <1>10, <3>1, <3>2 DEF Watching
  <2> QED
    BY <2>1, <2>2
<1>13. state_' # "Stopped" /\ writeQueue_' # <<>> => Flushing'
  <2> SUFFICES ASSUME state_' # "Stopped", writeQueue_' # <<>>
               PROVE  Flushing'
    OBVIOUS
  <2>1. CASE writeQueue_ = <<>>
    <3>1. frames # <<>> /\ ~writing_
      BY <1>3, <2>1 DEF IInv
    <3> QED
      BY <1>9, <3>1 DEF Flushing
  <2>2. CASE state_ = "Stopped"
    <3>1. socket_ = "closed"
      BY <2>2 DEF IInv
    <3> QED
      BY <1>8, <2>2, <3>1 DEF Flushing
  <2>3. CASE writeQueue_ # <<>> /\ state_ # "Stopped"
    <3>1. Flushing
      BY <2>3 DEF IInv
    <3>2. HasOp(ready, "write") => HasOp(ready', "write")
      BY <1>5
    <3>3. /\ HasFailed(ready, "read") => HasFailed(ready', "read")
          /\ HasFailed(ready, "connect") => HasFailed(ready', "connect")
      BY <1>6
    <3> QED
      BY <1>7, <3>1, <3>2, <3>3 DEF Flushing
  <2> QED
    BY <2>1, <2>2, <2>3
<1>14. /\ socket_' = "closed" => pending' = NothingPending
       /\ state_' = "Stopped" => socket_' = "closed"
  BY <1>2 DEF IInv
<1> QED
  BY <1>3, <1>4, <1>11, <1>12, <1>13, <1>14 DEF IInv, NothingPending

(* Something happens outside the handlers: what is no longer outstanding    *)
(* has its handler in the queue.                                            *)
LEMMA HappenedStep ==
  ASSUME IInv, process = "running",
         ready' \in Seq(HandlerType), Keeps(ready, ready'),
         pending' \in [Operation -> Nat],
         \A op \in Operation : pending'[op] >= pending[op] \/ HasOp(ready', op),
         reconnectTimer_' \in {"idle", "immediate", "interval"},
         reconnectTimer_' = reconnectTimer_ \/ HasOp(ready', "reconnect"),
         beatTimer_' \in BOOLEAN,
         socket_' \in {"closed", "open", "connected"},
         socket_' = "closed" <=> socket_ = "closed",
         socket_ = "closed" => pending' = pending,
         UNCHANGED <<state_, writeQueue_, writing_, decoder_, process, attempt>>
  PROVE  IInv'
<1>1. TypeOK'
  BY DEF IInv, TypeOK
<1>2. /\ \A op : HasOp(ready, op) => HasOp(ready', op)
      /\ \A op : HasFailed(ready, op) => HasFailed(ready', op)
  BY DEF Keeps
<1>3. /\ pending["read"] \in Nat /\ pending'["read"] \in Nat
      /\ pending["connect"] \in Nat /\ pending'["connect"] \in Nat
      /\ pending["write"] \in Nat /\ pending'["write"] \in Nat
      /\ pending'["read"] >= pending["read"] \/ HasOp(ready', "read")
      /\ pending'["connect"] >= pending["connect"] \/ HasOp(ready', "connect")
      /\ pending'["write"] >= pending["write"] \/ HasOp(ready', "write")
  BY TypeFacts DEF Operation
<1>4. Scheduled => Scheduled'
  BY <1>2 DEF Scheduled
<1>5. Watching => Watching'
  BY <1>2, <1>3, <1>4 DEF Watching
<1>6. Flushing => Flushing'
  BY <1>2, <1>3 DEF Flushing
<1> QED
  BY <1>1, <1>4, <1>5, <1>6 DEF IInv, NothingPending

(* The error branch schedules a reconnect and leaves nothing to write.      *)
LEMMA DisconnectStep ==
  ASSUME IInv, ready # <<>>, Disconnect, beatTimer_' \in BOOLEAN,
         UNCHANGED <<process, attempt>>
  PROVE  IInv'
<1>1. Rest \in Seq(HandlerType) /\ pending \in [Operation -> Nat]
  BY TypeFacts, RestFacts
<1>2. Close(Rest) \in Seq(HandlerType)
  BY <1>1, CloseFacts
<1>3. /\ state_' = "Disconnected" /\ socket_' = "closed"
      /\ pending' = NothingPending /\ ready' = Close(Rest)
      /\ reconnectTimer_' = "immediate"
      /\ writeQueue_' = <<>> /\ writing_' = FALSE /\ decoder_' = "nobody"
  BY DEF Disconnect, resetConnection, scheduleConnect, Rest
<1>4. NothingPending \in [Operation -> Nat] /\ <<>> \in Seq(Frame)
  BY DEF NothingPending
<1>5. TypeOK'
  BY <1>2, <1>3, <1>4 DEF IInv, TypeOK, State
<1>6. Scheduled' /\ Watching'
  BY <1>3 DEF Scheduled, Watching
<1>7. NothingPending' = NothingPending
  BY DEF NothingPending
<1> QED
  BY <1>3, <1>5, <1>6, <1>7 DEF IInv

LEMMA RunReconnectStep ==
  ASSUME IInv, RunReconnect
  PROVE  IInv'
<1>1. /\ process = "running" /\ process' = process
      /\ ready # <<>> /\ Head(ready).op = "reconnect"
      /\ UNCHANGED <<reconnectTimer_, beatTimer_, writeQueue_, writing_, decoder_>>
  BY DEF RunReconnect, Runs
<1>2. /\ Rest \in Seq(HandlerType) /\ pending \in [Operation -> Nat]
      /\ \A o : o # "reconnect" /\ HasOp(ready, o) => HasOp(Rest, o)
      /\ \A o : o # "reconnect" /\ HasFailed(ready, o) => HasFailed(Rest, o)
  BY <1>1, TypeFacts, RestFacts
<1>3. NothingPending \in [Operation -> Nat] /\ NothingPending' = NothingPending
  BY DEF NothingPending
<1>4. CASE state_ = "Stopped"
  <2>1. /\ ready' = Rest
        /\ UNCHANGED <<state_, socket_, pending, attempt>>
    BY <1>4 DEF RunReconnect, Rest
  <2>2. TypeOK'
    BY <1>1, <1>2, <2>1 DEF IInv, TypeOK
  <2> QED
    BY <1>1, <1>3, <1>4, <2>1, <2>2 DEF IInv
<1>5. CASE state_ # "Stopped"
  <2>1. PICK h : h = Failed("connect")
    OBVIOUS
  <2>2. h \in HandlerType /\ h.op = "connect" /\ ~h.ok
    BY <2>1, HandlerFacts DEF Operation
  <2>3. /\ Close(Rest) \in Seq(HandlerType) /\ Keeps(Rest, Close(Rest))
        /\ pending["write"] > 0 => HasOp(Close(Rest), "write")
    BY <1>2, CloseFacts
  <2>4. /\ state_' = "Connecting"
        /\ \/ /\ ready' = Append(Rest, h)
              /\ UNCHANGED <<socket_, pending, attempt>>
           \/ /\ socket_' = "closed" /\ pending' = NothingPending
              /\ ready' = Append(Close(Rest), h)
              /\ UNCHANGED attempt
           \/ /\ socket_' = "open" /\ ready' = Close(Rest)
              /\ pending' = [NothingPending EXCEPT !["connect"] = 1]
              /\ attempt' = 1 - attempt
    BY <1>5, <2>1 DEF RunReconnect, Rest
  <2>5. ASSUME NEW q \in Seq(HandlerType)
        PROVE  /\ Append(q, h) \in Seq(HandlerType)
               /\ HasOp(Append(q, h), "connect")
               /\ HasFailed(Append(q, h), "connect")
    BY <2>2, AppendKeeps
  <2>6. CASE /\ ready' = Append(Rest, h)
             /\ UNCHANGED <<socket_, pending, attempt>>
    <3>1. /\ ready' \in Seq(HandlerType) /\ HasOp(ready', "connect")
          /\ HasFailed(ready', "connect")
      BY <1>2, <2>5, <2>6
    <3>2. TypeOK'
      BY <1>1, <2>4, <2>6, <3>1 DEF IInv, TypeOK, State
    <3>3. Watching' /\ Flushing'
      BY <3>1 DEF Watching, Flushing
    <3> QED
      BY <1>1, <1>3, <2>4, <2>6, <3>2, <3>3 DEF IInv
  <2>7. CASE /\ socket_' = "closed" /\ pending' = NothingPending
             /\ ready' = Append(Close(Rest), h)
             /\ UNCHANGED attempt
    <3>1. /\ ready' \in Seq(HandlerType) /\ HasOp(ready', "connect")
          /\ HasFailed(ready', "connect")
      BY <2>3, <2>5, <2>7
    <3>2. TypeOK'
      BY <1>1, <1>3, <2>4, <2>7, <3>1 DEF IInv, TypeOK, State
    <3>3. Watching' /\ Flushing'
      BY <3>1 DEF Watching, Flushing
    <3> QED
      BY <1>1, <1>3, <2>4, <2>7, <3>2, <3>3 DEF IInv
  <2>8. CASE /\ socket_' = "open" /\ ready' = Close(Rest)
             /\ pending' = [NothingPending EXCEPT !["connect"] = 1]
             /\ attempt' = 1 - attempt
    <3>1. pending' \in [Operation -> Nat] /\ pending'["connect"] > 0
      BY <1>3, <2>8 DEF Operation, NothingPending
    <3>2. TypeOK'
      BY <1>1, <2>3, <2>4, <2>8, <3>1 DEF IInv, TypeOK, State
    <3>3. Watching'
      BY <3>1 DEF Watching
    <3>4. Flushing => Flushing'
      BY <1>2, <2>3, <2>8 DEF Flushing, Keeps
    <3> QED
      BY <1>1, <1>3, <1>5, <2>4, <2>8, <3>2, <3>3, <3>4 DEF IInv
  <2> QED
    BY <2>4, <2>6, <2>7, <2>8
<1> QED
  BY <1>4, <1>5

LEMMA OnConnectFailedStep ==
  ASSUME IInv, OnConnectFailed
  PROVE  IInv'
<1>1. /\ ready # <<>> /\ ready' = Rest
      /\ writeQueue_' = <<>> /\ writing_' = FALSE /\ decoder_' = "nobody"
      /\ state_' = "Disconnected" /\ reconnectTimer_' = "immediate"
      /\ process' \in {process, "undefined"}
      /\ UNCHANGED <<socket_, beatTimer_, pending, attempt>>
  BY DEF OnConnectFailed, Runs, resetConnection, scheduleConnect, Rest
<1>2. Rest \in Seq(HandlerType) /\ <<>> \in Seq(Frame)
  BY <1>1, RestFacts
<1>3. TypeOK'
  BY <1>1, <1>2 DEF IInv, TypeOK, State
<1>4. Scheduled' /\ Watching'
  BY <1>1 DEF Scheduled, Watching
<1>5. NothingPending' = NothingPending
  BY DEF NothingPending
<1> QED
  BY <1>1, <1>3, <1>4, <1>5 DEF IInv

LEMMA StartedWriteFacts ==
  ASSUME NEW frames
  PROVE  /\ StartedWrite(frames) \in Seq(Operation)
         /\ frames # <<>> /\ ~writing_ => Starts(StartedWrite(frames), "write")
<1>1. /\ <<>> \in Seq(Operation) /\ <<"write">> \in Seq(Operation)
      /\ Starts(<<"write">>, "write")
  BY DEF Operation, Starts
<1>2. CASE frames # <<>> /\ ~writing_
  BY <1>1, <1>2, Zenon DEF StartedWrite
<1>3. CASE ~(frames # <<>> /\ ~writing_)
  BY <1>1, <1>3, Zenon DEF StartedWrite
<1> QED
  BY <1>2, <1>3

(* A sequence of operations has those of its parts.                         *)
LEMMA ConcatOperations ==
  ASSUME NEW s \in Seq(Operation), NEW t \in Seq(Operation)
  PROVE  /\ s \o t \in Seq(Operation)
         /\ \A op : Starts(s, op) \/ Starts(t, op) => Starts(s \o t, op)
<1>1. /\ Len(s) \in Nat /\ Len(t) \in Nat
      /\ DOMAIN s = 1 .. Len(s) /\ DOMAIN t = 1 .. Len(t)
      /\ s \o t \in Seq(Operation)
      /\ DOMAIN (s \o t) = 1 .. Len(s) + Len(t)
      /\ \A i \in 1 .. Len(s) + Len(t) :
           (s \o t)[i] = IF i <= Len(s) THEN s[i] ELSE t[i - Len(s)]
  BY LenProperties, ConcatProperties
<1>2. \A i \in DOMAIN s : i \in DOMAIN (s \o t) /\ (s \o t)[i] = s[i]
  BY <1>1
<1>3. \A i \in DOMAIN t : /\ Len(s) + i \in DOMAIN (s \o t)
                          /\ (s \o t)[Len(s) + i] = t[i]
  BY <1>1
<1> QED
  BY <1>1, <1>2, <1>3 DEF Starts

LEMMA OnConnectedStep ==
  ASSUME IInv, OnConnected
  PROVE  IInv'
<1>1. /\ process = "running" /\ ready # <<>>
      /\ Head(ready).op = "connect" /\ Head(ready).ok
  BY DEF OnConnected, Runs
<1>2. <<"Control">> \in Seq(Frame) /\ <<"Control">> # <<>>
  BY DEF Frame
<1>3. PICK frames \in Seq(Frame) : frames = <<"Control">>
  BY <1>2, Zenon
<1>4. <<"read">> \in Seq(Operation) /\ Starts(<<"read">>, "read")
  BY DEF Operation, Starts
<1>5. PICK s \in Seq(Operation) : s = <<"read">> /\ Starts(s, "read")
  BY <1>4, Zenon
<1>6. PICK t \in Seq(Operation) : /\ t = StartedWrite(frames)
                                  /\ ~writing_ => Starts(t, "write")
  BY <1>2, <1>3, StartedWriteFacts
<1>7. PICK ops : ops = s \o t
  OBVIOUS
<1>8. /\ ops \in Seq(Operation)
      /\ Starts(ops, "read")
      /\ ~writing_ => Starts(ops, "write")
  BY <1>5, <1>6, <1>7, ConcatOperations
<1>9. Enqueue(frames) /\ StartAll(ops, Rest)
  BY <1>3, <1>5, <1>6, <1>7, Zenon DEF OnConnected, Rest
<1>10. /\ state_' = "AspUp" /\ state_' \in State /\ beatTimer_' \in BOOLEAN
       /\ decoder_' \in {"nobody", "current", "earlier"}
       /\ UNCHANGED <<socket_, reconnectTimer_, process, attempt>>
  BY DEF OnConnected, IInv, TypeOK, State
<1> QED
  BY <1>1, <1>8, <1>9, <1>10, StartingStep

LEMMA RepliesType ==
  ASSUME NEW msgs \in Seq(Message)
  PROVE  Replies(msgs) \in Seq(Frame)
<1>1. PICK S : S = {i \in DOMAIN msgs : msgs[i] \in {"AspUpAck", "Heartbeat"}}
  OBVIOUS
<1>2. Len(msgs) \in Nat /\ DOMAIN msgs = 1 .. Len(msgs)
  OBVIOUS
<1>3. IsFiniteSet(1 .. Len(msgs)) /\ S \in SUBSET (1 .. Len(msgs))
  BY <1>1, <1>2, FS_Interval
<1>4. Cardinality(S) \in Nat
  BY <1>3, FS_Subset, FS_CardinalityType
<1>5. Replies(msgs) = [i \in 1 .. Cardinality(S) |-> "Control"]
  BY <1>1 DEF Replies
<1> QED
  BY <1>4, <1>5 DEF Frame

(* Data that decodes: the read loop goes on unless it is Disconnected, when *)
(* a reconnect is scheduled, or Stopped.  An ASPAC_ACK read before stop()   *)
(* makes it Active again; the read then fails on the closed socket.         *)
LEMMA ProcessMessagesStep ==
  ASSUME IInv, process = "running", ready # <<>>, Head(ready).op = "read",
         Head(ready).ok, NEW chunk \in Chunk, NEW old \in BOOLEAN,
         ProcessMessages(chunk, old),
         UNCHANGED <<socket_, reconnectTimer_, attempt>>
  PROVE  IInv'
<1>1. PICK frames \in Seq(Frame) : frames = Replies(chunk.msgs)
  BY RepliesType DEF Chunk
<1>2. PICK active \in BOOLEAN :
        active <=> \E i \in DOMAIN chunk.msgs : chunk.msgs[i] = "AspAcAck"
  OBVIOUS
<1>3. PICK s : s = IF active THEN "Active" ELSE state_
  OBVIOUS
<1>4. <<>> \in Seq(Operation) /\ <<"read">> \in Seq(Operation)
  BY DEF Operation
<1>5. PICK r \in Seq(Operation) :
        r = IF s \in {"Stopped", "Disconnected"} THEN <<>> ELSE <<"read">>
  BY <1>4
<1>6. s \notin {"Stopped", "Disconnected"} => Starts(r, "read")
  BY <1>5 DEF Starts
<1>7. PICK t \in Seq(Operation) :
        /\ t = StartedWrite(frames)
        /\ frames # <<>> /\ ~writing_ => Starts(t, "write")
  BY StartedWriteFacts
<1>8. PICK ops : ops = t \o r
  OBVIOUS
<1>9. /\ ops \in Seq(Operation)
      /\ s \notin {"Stopped", "Disconnected"} => Starts(ops, "read")
      /\ frames # <<>> /\ ~writing_ => Starts(ops, "write")
  BY <1>6, <1>7, <1>8, ConcatOperations
<1>10. /\ state_' = s /\ Enqueue(frames) /\ StartAll(ops, Rest)
       /\ process' = process
  <2>1. s = IF \E i \in DOMAIN chunk.msgs : chunk.msgs[i] = "AspAcAck"
              THEN "Active" ELSE state_
    BY <1>2, <1>3
  <2> QED
    BY <1>1, <1>5, <1>7, <1>8, <2>1 DEF ProcessMessages, Rest
<1>11. /\ beatTimer_' \in BOOLEAN
       /\ decoder_' \in {"nobody", "current", "earlier"}
  BY DEF ProcessMessages
<1>12. /\ state_' \in State
       /\ state_' = "Stopped" => state_ = "Stopped"
       /\ state_' = "Disconnected" => state_ = "Disconnected"
  BY <1>3, <1>10 DEF IInv, TypeOK, State
<1> QED
  BY <1>9, <1>10, <1>11, <1>12, StartingStep

LEMMA OnReadStep ==
  ASSUME IInv, OnRead
  PROVE  IInv'
<1>1. /\ process = "running" /\ ready # <<>>
      /\ Head(ready).op = "read" /\ Head(ready).ok
      /\ UNCHANGED <<socket_, reconnectTimer_, attempt>>
  BY DEF OnRead, Runs
<1>2. Head(ready).chunk \in Chunk /\ Head(ready).old \in BOOLEAN
  BY <1>1, RestFacts DEF HandlerType
<1>3. PICK chunk \in Decoded(Head(ready).chunk) :
        \/ ProcessMessages(chunk, Head(ready).old)
        \/ /\ process' = "terminated"
           /\ UNCHANGED <<state_, beatTimer_, decoder_, writeQueue_, writing_,
                          pending, ready>>
  BY DEF OnRead
<1>4. chunk \in Chunk
  BY <1>2, <1>3, InputsAssumption DEF Decoded
<1>5. CASE ProcessMessages(chunk, Head(ready).old)
  BY <1>1, <1>2, <1>4, <1>5, ProcessMessagesStep
<1>6. CASE /\ process' = "terminated"
           /\ UNCHANGED <<state_, beatTimer_, decoder_, writeQueue_, writing_,
                          pending, ready>>
  <2>1. TypeOK'
    BY <1>1, <1>6 DEF IInv, TypeOK
  <2> QED
    BY <1>1, <1>6, <2>1 DEF IInv, NothingPending
<1> QED
  BY <1>3, <1>5, <1>6

(* An error of a read or a write is ignored only when Stopped.              *)
LEMMA IgnoredStep ==
  ASSUME IInv, ready # <<>>, state_ = "Stopped", ready' = Tail(ready),
         UNCHANGED <<state_, socket_, reconnectTimer_, beatTimer_, writeQueue_,
                     writing_, decoder_, pending, process, attempt>>
  PROVE  IInv'
<1>1. Rest \in Seq(HandlerType) /\ ready' = Rest
  BY RestFacts DEF Rest
<1>2. TypeOK'
  BY <1>1 DEF IInv, TypeOK
<1> QED
  BY <1>2 DEF IInv, NothingPending

LEMMA OnReadFailedStep ==
  ASSUME IInv, OnReadFailed
  PROVE  IInv'
  BY DisconnectStep, IgnoredStep DEF OnReadFailed, Runs

LEMMA OnWriteFailedStep ==
  ASSUME IInv, OnWriteFailed
  PROVE  IInv'
<1>1. beatTimer_' \in BOOLEAN
  BY DEF OnWriteFailed, IInv, TypeOK
<1> QED
  BY <1>1, DisconnectStep, IgnoredStep DEF OnWriteFailed, Runs

(* The rest of the queue is written on.                                     *)
LEMMA OnWrittenStep ==
  ASSUME IInv, OnWritten
  PROVE  IInv'
<1>1. /\ process = "running" /\ ready # <<>> /\ Head(ready).op = "write"
      /\ UNCHANGED <<state_, socket_, reconnectTimer_, beatTimer_, decoder_,
                     attempt>>
  BY DEF OnWritten, Runs
<1>2. CASE /\ process' = "undefined"
           /\ UNCHANGED <<writeQueue_, writing_, pending, ready>>
  <2>1. TypeOK'
    BY <1>1, <1>2 DEF IInv, TypeOK
  <2> QED
    BY <1>1, <1>2, <2>1 DEF IInv, NothingPending
<1>3. CASE /\ writeQueue_ # <<>>
           /\ writeQueue_' = Tail(writeQueue_)
           /\ writing_' = (Tail(writeQueue_) # <<>>)
           /\ StartAll(IF writing_' THEN <<"write">> ELSE <<>>, Tail(ready))
           /\ UNCHANGED process
  <2>1. /\ Rest \in Seq(HandlerType) /\ pending \in [Operation -> Nat]
        /\ \A o : o # "write" /\ HasOp(ready, o) => HasOp(Rest, o)
    BY <1>1, TypeFacts, RestFacts
  <2>2. writeQueue_' \in Seq(Frame) /\ writing_' \in BOOLEAN
    BY <1>3, TypeFacts
  <2>3. <<>> \in Seq(Operation) /\ <<"write">> \in Seq(Operation)
    BY DEF Operation
  <2>4. PICK ops \in Seq(Operation) : ops = IF writing_' THEN <<"write">> ELSE <<>>
    BY <2>3
  <2>5. StartAll(ops, Rest)
    BY <1>3, <2>4 DEF Rest
  <2>6. /\ ready' \in Seq(HandlerType) /\ pending' \in [Operation -> Nat]
        /\ Keeps(Rest, ready')
        /\ \A op \in Operation : pending'[op] >= pending[op]
        /\ \A i \in DOMAIN ops : pending'[ops[i]] > 0 \/ HasOp(ready', ops[i])
        /\ socket_ = "closed" => pending' = pending
    BY <2>1, <2>5, StartAllFacts
  <2>7. writing_' => pending'["write"] > 0 \/ HasOp(ready', "write")
    <3>1. writing_' => 1 \in DOMAIN ops /\ ops[1] = "write"
      BY <2>4
    <3> QED
      BY <2>6, <3>1
  <2>8. TypeOK'
    BY <1>1, <1>3, <2>2, <2>6 DEF IInv, TypeOK
  <2>9. \A o : o # "write" /\ HasOp(ready, o) => HasOp(ready', o)
    BY <2>1, <2>6 DEF Keeps
  <2>10. Scheduled => Scheduled'
    BY <1>1, <2>9 DEF Scheduled
  <2>11. Watching => Watching'
    <3>1. /\ pending["read"] \in Nat /\ pending'["read"] \in Nat
          /\ pending["connect"] \in Nat /\ pending'["connect"] \in Nat
          /\ pending'["read"] >= pending["read"]
          /\ pending'["connect"] >= pending["connect"]
      BY <2>1, <2>6 DEF Operation
    <3> QED
      BY <2>9, <2>10, <3>1 DEF Watching
  <2>12. writing_' => Flushing'
    BY <2>7 DEF Flushing
  <2> QED
    BY <1>1, <1>3, <2>6, <2>8, <2>10, <2>11, <2>12 DEF IInv, NothingPending
<1> QED
  BY <1>2, <1>3 DEF OnWritten

(* A heartbeat or a message of the proxy, only in state Active.             *)
LEMMA SendingStep ==
  ASSUME IInv, process = "running", ready # <<>>, NEW op,
         Head(ready).op = op, op \in {"beat", "send"},
         NEW frames \in Seq(Frame),
         Enqueue(frames), StartAll(StartedWrite(frames), Tail(ready)),
         beatTimer_' \in BOOLEAN,
         UNCHANGED <<state_, socket_, reconnectTimer_, decoder_, process, attempt>>
  PROVE  IInv'
<1>1. PICK ops \in Seq(Operation) :
        /\ ops = StartedWrite(frames)
        /\ frames # <<>> /\ ~writing_ => Starts(ops, "write")
  BY StartedWriteFacts
<1>2. StartAll(ops, Rest)
  BY <1>1 DEF Rest
<1>3. state_' \in State /\ decoder_' \in {"nobody", "current", "earlier"}
  BY DEF IInv, TypeOK
<1>4. state_ = "Stopped" => state_' \in {"Stopped", "Disconnected"}
  OBVIOUS
<1> QED
  BY <1>1, <1>2, <1>3, <1>4, StartingStep

LEMMA OnBeatStep ==
  ASSUME IInv, OnBeat
  PROVE  IInv'
<1>1. <<>> \in Seq(Frame) /\ <<"Control">> \in Seq(Frame)
  BY DEF Frame
<1>2. PICK frames \in Seq(Frame) :
        frames = IF state_ = "Active" THEN <<"Control">> ELSE <<>>
  BY <1>1
<1>3. /\ process = "running" /\ ready # <<>> /\ Head(ready).op = "beat"
      /\ UNCHANGED <<state_, socket_, reconnectTimer_, decoder_, process, attempt>>
  BY DEF OnBeat, Runs
<1>4. /\ Enqueue(frames) /\ StartAll(StartedWrite(frames), Tail(ready))
      /\ beatTimer_' \in BOOLEAN
  BY <1>2 DEF OnBeat
<1> QED
  BY <1>3, <1>4, SendingStep

LEMMA RunSendStep ==
  ASSUME IInv, RunSend
  PROVE  IInv'
<1>1. <<>> \in Seq(Frame) /\ <<"Data">> \in Seq(Frame)
  BY DEF Frame
<1>2. PICK frames \in Seq(Frame) :
        frames = IF state_ = "Active" THEN <<"Data">> ELSE <<>>
  BY <1>1
<1>3. /\ process = "running" /\ ready # <<>> /\ Head(ready).op = "send"
      /\ UNCHANGED <<state_, socket_, reconnectTimer_, decoder_, process, attempt>>
  BY DEF RunSend, Runs
<1>4. /\ Enqueue(frames) /\ StartAll(StartedWrite(frames), Tail(ready))
      /\ beatTimer_' \in BOOLEAN
  BY <1>2 DEF RunSend, IInv, TypeOK
<1> QED
  BY <1>3, <1>4, SendingStep

LEMMA AppendedHandler ==
  ASSUME NEW q \in Seq(HandlerType), Keeps(ready, q), NEW h \in HandlerType,
         ready' = Append(q, h)
  PROVE  /\ ready' \in Seq(HandlerType) /\ Keeps(ready, ready')
         /\ HasOp(ready', h.op)
<1>1. /\ Append(q, h) \in Seq(HandlerType) /\ Keeps(q, Append(q, h))
      /\ HasOp(Append(q, h), h.op)
  BY AppendKeeps
<1> QED
  BY <1>1, KeepsTransitive

(* An operation completes: it is outstanding once less, and its handler is  *)
(* in the queue.                                                            *)
LEMMA CompletesStep ==
  ASSUME IInv, process = "running", NEW op \in Operation, pending[op] > 0,
         pending' = [pending EXCEPT ![op] = @ - 1],
         NEW q \in Seq(HandlerType), Keeps(ready, q),
         NEW h \in HandlerType, h.op = op, ready' = Append(q, h),
         socket_' \in {socket_, "connected"},
         UNCHANGED <<reconnectTimer_, beatTimer_, state_, writeQueue_, writing_,
                     decoder_, process, attempt>>
  PROVE  IInv'
<1>1. ready' \in Seq(HandlerType) /\ Keeps(ready, ready') /\ HasOp(ready', op)
  BY AppendedHandler
<1>2. pending \in [Operation -> Nat]
  BY TypeFacts
<1>3. /\ pending' \in [Operation -> Nat]
      /\ \A o \in Operation : pending'[o] >= pending[o] \/ HasOp(ready', o)
  BY <1>1, <1>2
<1>4. socket_ # "closed"
  BY DEF IInv, NothingPending
<1>5. /\ reconnectTimer_' \in {"idle", "immediate", "interval"}
      /\ beatTimer_' \in BOOLEAN
      /\ socket_' \in {"closed", "open", "connected"}
  BY DEF IInv, TypeOK
<1> QED
  BY <1>1, <1>3, <1>4, <1>5, HappenedStep

LEMMA KeepsItself == \A q : Keeps(q, q)
  BY DEF Keeps

LEMMA ConnectCompletesStep ==
  ASSUME IInv, ConnectCompletes
  PROVE  IInv'
<1>1. PICK h : h \in {Due("connect"), Failed("connect")} /\ Happens(h)
  BY DEF ConnectCompletes
<1>2. h \in HandlerType /\ h.op = "connect"
  BY <1>1, HandlerFacts DEF Operation
<1>3. /\ process = "running" /\ ready' = Append(ready, h)
      /\ UNCHANGED <<state_, writeQueue_, writing_, decoder_, process, attempt>>
  BY <1>1 DEF Happens, HappensBehind
<1>4. /\ pending["connect"] > 0 /\ "connect" \in Operation
      /\ pending' = [pending EXCEPT !["connect"] = @ - 1]
      /\ socket_' \in {socket_, "connected"}
      /\ UNCHANGED <<reconnectTimer_, beatTimer_>>
  BY DEF ConnectCompletes, Operation
<1>5. ready \in Seq(HandlerType) /\ Keeps(ready, ready)
  BY TypeFacts, KeepsItself
<1> QED
  BY <1>2, <1>3, <1>4, <1>5, CompletesStep

LEMMA ReadCompletesStep ==
  ASSUME IInv, ReadCompletes
  PROVE  IInv'
<1>1. /\ pending["read"] > 0 /\ "read" \in Operation
      /\ pending' = [pending EXCEPT !["read"] = @ - 1]
      /\ UNCHANGED <<socket_, reconnectTimer_, beatTimer_>>
  BY DEF ReadCompletes, Operation
<1>2. ready \in Seq(HandlerType) /\ Keeps(ready, ready)
  BY TypeFacts, KeepsItself
<1>3. PICK q \in Seq(HandlerType), h \in HandlerType :
        /\ Keeps(ready, q) /\ h.op = "read" /\ HappensBehind(q, h)
  <2>1. CASE Happens(Failed("read"))
    BY <1>2, <2>1, HandlerFacts DEF Happens, Operation
  <2>2. ASSUME NEW chunk \in Chunks, NEW content \in Chunks,
               HappensBehind(Overwritten(content), Handler("read", TRUE, chunk))
        PROVE  \E q \in Seq(HandlerType), h \in HandlerType :
                 Keeps(ready, q) /\ h.op = "read" /\ HappensBehind(q, h)
    <3>1. chunk \in Chunk /\ content \in Chunk
      BY InputsAssumption
    <3>2. /\ Handler("read", TRUE, chunk) \in HandlerType
          /\ Handler("read", TRUE, chunk).op = "read"
      BY <3>1 DEF Handler, HandlerType, Operation
    <3>3. /\ Overwritten(content) \in Seq(HandlerType)
          /\ Keeps(ready, Overwritten(content))
      BY <1>2, <3>1, OverwrittenFacts
    <3> QED
      BY <2>2, <3>2, <3>3
  <2> QED
    BY <2>1, <2>2 DEF ReadCompletes
<1>4. /\ process = "running" /\ ready' = Append(q, h)
      /\ UNCHANGED <<state_, writeQueue_, writing_, decoder_, process, attempt>>
  BY <1>3 DEF HappensBehind
<1> QED
  BY <1>1, <1>3, <1>4, CompletesStep

LEMMA WriteCompletesStep ==
  ASSUME IInv, WriteCompletes
  PROVE  IInv'
<1>1. PICK h : h \in {Due("write"), Failed("write")} /\ Happens(h)
  BY DEF WriteCompletes
<1>2. h \in HandlerType /\ h.op = "write"
  BY <1>1, HandlerFacts DEF Operation
<1>3. /\ process = "running" /\ ready' = Append(ready, h)
      /\ UNCHANGED <<state_, writeQueue_, writing_, decoder_, process, attempt>>
  BY <1>1 DEF Happens, HappensBehind
<1>4. /\ pending["write"] > 0 /\ "write" \in Operation
      /\ pending' = [pending EXCEPT !["write"] = @ - 1]
      /\ UNCHANGED <<socket_, reconnectTimer_, beatTimer_>>
  BY DEF WriteCompletes, Operation
<1>5. ready \in Seq(HandlerType) /\ Keeps(ready, ready)
  BY TypeFacts, KeepsItself
<1> QED
  BY <1>2, <1>3, <1>4, <1>5, CompletesStep

(* A timer expires or the proxy sends.                                      *)
LEMMA PostedStep ==
  ASSUME IInv, NEW op \in {"reconnect", "beat", "send"}, Happens(Due(op)),
         UNCHANGED <<socket_, pending>>, beatTimer_' \in BOOLEAN,
         \/ reconnectTimer_' = reconnectTimer_
         \/ reconnectTimer_' = "idle" /\ op = "reconnect"
  PROVE  IInv'
<1>1. PICK h : h = Due(op)
  OBVIOUS
<1>2. h \in HandlerType /\ h.op = op
  BY <1>1, HandlerFacts
<1>3. /\ process = "running" /\ ready' = Append(ready, h)
      /\ UNCHANGED <<state_, writeQueue_, writing_, decoder_, process, attempt>>
  BY <1>1 DEF Happens, HappensBehind
<1>4. ready \in Seq(HandlerType) /\ Keeps(ready, ready)
  BY TypeFacts, KeepsItself
<1>5. ready' \in Seq(HandlerType) /\ Keeps(ready, ready') /\ HasOp(ready', op)
  BY <1>2, <1>3, <1>4, AppendedHandler
<1>6. /\ pending' \in [Operation -> Nat]
      /\ \A o \in Operation : pending'[o] >= pending[o] \/ HasOp(ready', o)
  BY TypeFacts
<1>7. /\ reconnectTimer_' \in {"idle", "immediate", "interval"}
      /\ socket_' \in {"closed", "open", "connected"}
      /\ reconnectTimer_' = reconnectTimer_ \/ HasOp(ready', "reconnect")
  BY <1>5 DEF IInv, TypeOK
<1> QED
  BY <1>3, <1>5, <1>6, <1>7, HappenedStep

LEMMA StopStep ==
  ASSUME IInv, Stop
  PROVE  IInv'
<1>1. Close(ready) \in Seq(HandlerType)
  BY TypeFacts, CloseFacts
<1>2. NothingPending \in [Operation -> Nat] /\ NothingPending' = NothingPending
  BY DEF NothingPending
<1>3. TypeOK'
  BY <1>1, <1>2 DEF Stop, IInv, TypeOK, State
<1> QED
  BY <1>2, <1>3 DEF Stop, IInv

-----------------------------------------------------------------------------
(* The theorems.                                                            *)

LEMMA IInvNext ==
  ASSUME IInv, [Next]_vars
  PROVE  IInv'
<1>1. CASE Handlers
  BY <1>1, RunReconnectStep, OnConnectFailedStep, OnConnectedStep, OnReadStep,
     OnReadFailedStep, OnWrittenStep, OnWriteFailedStep, OnBeatStep, RunSendStep
     DEF Handlers
<1>2. CASE ConnectCompletes \/ ReadCompletes \/ WriteCompletes
  BY <1>2, ConnectCompletesStep, ReadCompletesStep, WriteCompletesStep
<1>3. CASE ReconnectTimerExpires
  <2>1. beatTimer_' \in BOOLEAN
    BY <1>3 DEF ReconnectTimerExpires, IInv, TypeOK
  <2> QED
    BY <1>3, <2>1, PostedStep DEF ReconnectTimerExpires
<1>4. CASE BeatTimerExpires
  BY <1>4, PostedStep DEF BeatTimerExpires
<1>5. CASE Send
  <2>1. beatTimer_' \in BOOLEAN
    BY <1>5 DEF Send, IInv, TypeOK
  <2> QED
    BY <1>5, <2>1, PostedStep DEF Send
<1>6. CASE Stop
  BY <1>6, StopStep
<1>7. CASE UNCHANGED vars
  BY <1>7 DEF vars, IInv, TypeOK, Scheduled, Watching, Flushing, HasOp,
              HasFailed, NothingPending
<1> QED
  BY <1>1, <1>2, <1>3, <1>4, <1>5, <1>6, <1>7 DEF Next

LEMMA Inductive == Spec => []IInv
<1>1. Init => IInv
  BY IInvInit
<1>2. IInv /\ [Next]_vars => IInv'
  BY IInvNext
<1> QED
  BY <1>1, <1>2, PTL DEF Spec

(* Every state of the transport is of its type: no operation completes that *)
(* was not outstanding, and what the handlers of MapTransport enqueue, post *)
(* and decode is what its queues and buffers are made for.                  *)
THEOREM TransportTypes == Spec => []TypeOK
<1>1. IInv => TypeOK
  BY IInvImplies
<1> QED
  BY <1>1, Inductive, PTL

(* scheduleConnect, connect(), onConnect, startRead and doWrite never lose  *)
(* the reconnect loop, whatever the network does and in whatever order the  *)
(* aborted handlers run: until stop(), a reconnect is scheduled or a        *)
(* connect or a read is to come.                                            *)
THEOREM NeverStuckAlways == Spec => []NeverStuck
<1>1. IInv => NeverStuck
  BY IInvImplies
<1> QED
  BY <1>1, Inductive, PTL

(* enqueue and doWrite leave no frame in writeQueue_ without a write under  *)
(* way or an error to come that clears the queue, although the handlers of  *)
(* an earlier connection still run in a later one.                          *)
THEOREM NothingStrandedAlways == Spec => []NothingStranded
<1>1. IInv => NothingStranded
  BY IInvImplies
<1> QED
  BY <1>1, Inductive, PTL
=============================================================================
