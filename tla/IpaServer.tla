----------------------------- MODULE IpaServer -----------------------------
(***************************************************************************)
(* transport/IpaServer and its IpaSessions: the listener for SGSNs, the     *)
(* CCM handshake, the table that routes GSUP to a session, and the write    *)
(* queue of each session.                                                   *)
(*                                                                          *)
(* Boost.Asio is modelled as in MapTransport: an operation is outstanding   *)
(* until it completes, its handler then waits in the FIFO queue ready, and  *)
(* close() fails only what is still outstanding.  A session is never        *)
(* forgotten: one that left both tables lives on as long as an operation or *)
(* a handler of its own holds it.                                           *)
(***************************************************************************)
EXTENDS Integers, Sequences, FiniteSets, SequencesExt

CONSTANTS Chunks,       \* the frames one read may deliver
          CanStop,      \* whether the owner may call stop()
          MaxSessions,  \* bound on the connections accepted
          MaxQueue,     \* bound on a writeQueue_ when an input may extend it
          MaxReady      \* bound on ready when an input may extend it

(* CCM ID_RESP and PING, a GSUP message, any other frame, and a header the  *)
(* decoder throws at.                                                       *)
Frame == {"IdResp", "Ping", "Gsup", "Other", "Malformed"}

ASSUME ChunksAssumption == Chunks \subseteq Seq(Frame) /\ CanStop \in BOOLEAN
ASSUME BoundsAssumption == {MaxSessions, MaxQueue, MaxReady} \subseteq Nat

VARIABLES acceptor_,    \* accepting, idle or closed
          session,      \* ClientId -> IpaSession, in the order of accept
          allSessions_, sessions_,  \* the ClientIds in each table
          ready, process,
          dispatched    \* the ClientIds whose GSUP the last step passed on

vars == <<acceptor_, session, allSessions_, sessions_, ready, process,
          dispatched>>

ClientId == 1 .. Len(session)

(* Mutant: ++nextClientId_ instead of nextClientId_++.                     *)
nextClientIdPreIncremented == Len(session) + 2

nextClientId_ == Len(session) + 1

(* reading, sending: a read, a write is outstanding; handshaken: an ID_RESP *)
(* was received.                                                            *)
IpaSession ==
    [state_ : {"Handshaking", "Ready", "Stopped"}, open : BOOLEAN,
     writeQueue_ : Seq({"Ccm", "Gsup"}), writing_ : BOOLEAN,
     reading : BOOLEAN, sending : BOOLEAN, handshaken : BOOLEAN]

(* A handler in the queue; those of the acceptor have no id, and send() has *)
(* that of its receiver.                                                    *)
HandlerType ==
    [op : {"accept", "read", "write", "send", "enqueue"}, id : Nat,
     ok : BOOLEAN, frames : Seq(Frame)]

Handler(op, n, ok, frames) ==
    [op |-> op, id |-> n, ok |-> ok, frames |-> frames]

Due(op, n) == Handler(op, n, TRUE, <<>>)

Failed(op, n) == Handler(op, n, FALSE, <<>>)

Init ==
    /\ acceptor_ = "accepting"
    /\ session = <<>>
    /\ allSessions_ = {}
    /\ sessions_ = {}
    /\ ready = <<>>
    /\ process = "running"
    /\ dispatched = {}

-----------------------------------------------------------------------------
(* What the handlers are made of.                                           *)

Runs(op, ok) ==
    /\ process = "running"
    /\ ready # <<>> /\ Head(ready).op = op /\ Head(ready).ok = ok

id == Head(ready).id

(* Mutant: enqueue without its test of writing_.                           *)
EnqueueAlwaysWrites(s, frames) ==
    [s EXCEPT !.writeQueue_ = @ \o frames,
              !.writing_ = @ \/ frames # <<>>,
              !.sending = @ \/ (frames # <<>> /\ s.open)]

(* enqueue, for each of frames; the first starts a write if none is running.*)
Enqueue(s, frames) ==
    LET starts == frames # <<>> /\ ~s.writing_
    IN  [s EXCEPT !.writeQueue_ = @ \o frames,
                  !.writing_ = @ \/ starts,
                  !.sending = @ \/ (starts /\ s.open)]

(* Mutant: the read loop goes on only after the handshake.                 *)
ReadOnWhenReady(s) ==
    [s EXCEPT !.reading = s.open /\ s.state_ = "Ready"]

(* startRead, unless the session has stopped.                               *)
ReadOn(s) ==
    [s EXCEPT !.reading = s.open /\ s.state_ # "Stopped"]

(* The operations that fail at once because the socket is closed: those     *)
(* Enqueue and ReadOn could not start when they turned s into t.            *)
FailedAtOnce(n, s, t) ==
    IF t.open THEN <<>>
    ELSE (IF t.writing_ /\ ~s.writing_ THEN <<Failed("write", n)>> ELSE <<>>)
      \o (IF t.state_ # "Stopped" THEN <<Failed("read", n)>> ELSE <<>>)

NewSession ==
    [state_ |-> "Handshaking", open |-> TRUE, writeQueue_ |-> <<"Ccm">>,
     writing_ |-> TRUE, reading |-> TRUE, sending |-> TRUE,
     handshaken |-> FALSE]

(* The error branch of the read and of the write handler: the session stops *)
(* and onSessionDisconnect removes it.  Its socket stays open.              *)
Disconnect ==
    /\ IF session[id].state_ = "Stopped"
         THEN UNCHANGED <<session, sessions_, allSessions_>>
         ELSE /\ session' = [session EXCEPT ![id].state_ = "Stopped"]
              /\ sessions_' = sessions_ \ {id}
              /\ allSessions_' = allSessions_ \ {id}
    /\ ready' = Tail(ready)
    /\ dispatched' = {}
    /\ UNCHANGED <<acceptor_, process>>

Terminates ==
    /\ process' = "terminated"
    /\ dispatched' = {}
    /\ UNCHANGED <<acceptor_, session, allSessions_, sessions_, ready>>

-----------------------------------------------------------------------------
(* The handlers.                                                            *)

(* The accept handler; remote_endpoint() throws when the peer is gone.      *)
OnAccept ==
    /\ Runs("accept", TRUE)
    /\ \/ Terminates
       \/ /\ session' = Append(session, NewSession)
          /\ allSessions_' = allSessions_ \cup {nextClientId_}
          /\ acceptor_' = IF acceptor_ = "closed" THEN "closed" ELSE "accepting"
          /\ ready' = Tail(ready)
          /\ dispatched' = {}
          /\ UNCHANGED <<sessions_, process>>

(* An error ends the accept loop.                                           *)
OnAcceptFailed ==
    /\ Runs("accept", FALSE)
    /\ ready' = Tail(ready)
    /\ dispatched' = {}
    /\ UNCHANGED <<acceptor_, session, allSessions_, sessions_, process>>

(* Mutant: onSessionReady without its find.                                *)
onSessionReadyUnchecked(n) == sessions_ \cup {n}

(* sessions_ after onSessionReady: a session that is gone is not found.     *)
onSessionReady(n) == sessions_ \cup ({n} \cap allSessions_)

(* processFrame for the frames of one read: a response makes the session    *)
(* ready whatever its state was, GSUP is dropped until it is.               *)
ProcessFrames(frames) ==
    LET s         == session[id]
        readyAt(i) == \/ s.state_ = "Ready"
                      \/ \E j \in 1 .. i - 1 : frames[j] = "IdResp"
        answered  == {i \in DOMAIN frames : frames[i] \in {"IdResp", "Ping"}}
        response  == \E i \in DOMAIN frames : frames[i] = "IdResp"
        t         == Enqueue([s EXCEPT !.state_ = IF response THEN "Ready" ELSE @,
                                       !.handshaken = @ \/ response],
                             [i \in 1 .. Cardinality(answered) |-> "Ccm"])
    IN  /\ session' = [session EXCEPT ![id] = ReadOn(t)]
        /\ ready' = Tail(ready) \o FailedAtOnce(id, s, t)
        /\ sessions_' = IF response THEN onSessionReady(id) ELSE sessions_
        /\ dispatched' = {n \in {id} : \E i \in DOMAIN frames :
                                         frames[i] = "Gsup" /\ readyAt(i)}
        /\ UNCHANGED <<acceptor_, allSessions_, process>>

OnRead ==
    /\ Runs("read", TRUE)
    /\ IF \E i \in DOMAIN Head(ready).frames :
            Head(ready).frames[i] = "Malformed"
         THEN Terminates
         ELSE ProcessFrames(Head(ready).frames)

OnReadFailed == Runs("read", FALSE) /\ Disconnect

OnWritten ==
    /\ Runs("write", TRUE)
    /\ LET rest == Tail(session[id].writeQueue_)
       IN  /\ session' = [session EXCEPT ![id].writeQueue_ = rest,
                            ![id].writing_ = rest # <<>>,
                            ![id].sending = rest # <<>> /\ session[id].open]
           /\ ready' = Tail(ready) \o
                (IF rest # <<>> /\ ~session[id].open
                   THEN <<Failed("write", id)>> ELSE <<>>)
    /\ dispatched' = {}
    /\ UNCHANGED <<acceptor_, allSessions_, sessions_, process>>

OnWriteFailed == Runs("write", FALSE) /\ Disconnect

(* Mutant: send() goes to allSessions_.                                    *)
ReceiversInHandshake(target) == {n \in allSessions_ : target \in {0, n}}

(* Whom send() addresses, 0 being everyone.                                 *)
Receivers(target) ==
    {n \in sessions_ : target \in {0, n} /\ session[n].state_ = "Ready"}

(* The function send() posts: sendGsup posts an enqueue for each receiver,  *)
(* in the order of a hash table.                                            *)
RunSend ==
    /\ Runs("send", TRUE)
    /\ \E calls \in SetToSeqs({Due("enqueue", n) : n \in Receivers(id)}) :
         ready' = Tail(ready) \o calls
    /\ dispatched' = {}
    /\ UNCHANGED <<acceptor_, session, allSessions_, sessions_, process>>

(* The function sendGsup posts; the state is not looked at again.           *)
RunEnqueue ==
    /\ Runs("enqueue", TRUE)
    /\ LET s == session[id]
           t == Enqueue(s, <<"Gsup">>)
       IN  /\ session' = [session EXCEPT ![id] = t]
           /\ ready' = Tail(ready) \o
                (IF ~s.open /\ ~s.writing_ THEN <<Failed("write", id)>>
                                           ELSE <<>>)
    /\ dispatched' = {}
    /\ UNCHANGED <<acceptor_, allSessions_, sessions_, process>>

-----------------------------------------------------------------------------
(* What happens outside the handlers.                                       *)

Happens(handler) ==
    /\ process = "running"
    /\ Len(ready) < MaxReady
    /\ ready' = Append(ready, handler)
    /\ dispatched' = {}
    /\ UNCHANGED <<allSessions_, sessions_, process>>

AcceptCompletes ==
    /\ acceptor_ = "accepting"
    /\ acceptor_' = "idle"
    /\ \/ Len(session) < MaxSessions /\ Happens(Due("accept", 0))
       \/ Happens(Failed("accept", 0))
    /\ UNCHANGED session

ReadCompletes(n) ==
    /\ session[n].reading
    /\ Len(session[n].writeQueue_) < MaxQueue
    /\ session' = [session EXCEPT ![n].reading = FALSE]
    /\ \/ \E frames \in Chunks : Happens(Handler("read", n, TRUE, frames))
       \/ Happens(Failed("read", n))
    /\ UNCHANGED acceptor_

WriteCompletes(n) ==
    /\ session[n].sending
    /\ session' = [session EXCEPT ![n].sending = FALSE]
    /\ \/ Happens(Due("write", n))
       \/ Happens(Failed("write", n))
    /\ UNCHANGED acceptor_

Send(target) ==
    /\ \A n \in ClientId : Len(session[n].writeQueue_) < MaxQueue
    /\ Happens(Due("send", target))
    /\ UNCHANGED <<acceptor_, session>>

(* The sessions stop() closes, and what their sockets abort.                *)
Closing == {n \in allSessions_ : session[n].state_ # "Stopped"}

Aborted ==
    {Failed("read", n) : n \in {m \in Closing : session[m].reading}} \cup
    {Failed("write", n) : n \in {m \in Closing : session[m].sending}}

(* IpaServer::stop and the stop of every session in allSessions_, in the    *)
(* order of a hash table.                                                   *)
Stop ==
    /\ CanStop /\ process = "running" /\ acceptor_ # "closed"
    /\ acceptor_' = "closed"
    /\ session' = [n \in ClientId |->
         IF n \in Closing
           THEN [session[n] EXCEPT !.state_ = "Stopped", !.open = FALSE,
                                   !.reading = FALSE, !.sending = FALSE]
           ELSE session[n]]
    /\ \E aborted \in SetToSeqs(Aborted) :
         ready' = ready
           \o (IF acceptor_ = "accepting" THEN <<Failed("accept", 0)>> ELSE <<>>)
           \o aborted
    /\ allSessions_' = {}
    /\ sessions_' = {}
    /\ dispatched' = {}
    /\ UNCHANGED process

Handlers ==
    \/ OnAccept \/ OnAcceptFailed
    \/ OnRead \/ OnReadFailed \/ OnWritten \/ OnWriteFailed
    \/ RunSend \/ RunEnqueue

Next ==
    \/ Handlers
    \/ AcceptCompletes
    \/ \E n \in ClientId : ReadCompletes(n) \/ WriteCompletes(n)
    \/ \E target \in 0 .. Len(session) : Send(target)
    \/ Stop

(* The thread serves the queue.                                             *)
Spec == Init /\ [][Next]_vars /\ WF_vars(Handlers)

-----------------------------------------------------------------------------
(* Properties.                                                              *)

(* Every variable has its type.                                             *)
TypeOK ==
    /\ acceptor_ \in {"accepting", "idle", "closed"}
    /\ session \in Seq(IpaSession)
    /\ allSessions_ \subseteq ClientId
    /\ sessions_ \subseteq ClientId
    /\ ready \in Seq(HandlerType)
    /\ \A i \in DOMAIN ready :
         ready[i].id \in IF ready[i].op \in {"accept", "send"}
                           THEN 0 .. Len(session) ELSE ClientId
    /\ process \in {"running", "terminated"}
    /\ dispatched \subseteq ClientId

InQueue(op, n) ==
    Cardinality({i \in DOMAIN ready : ready[i].op = op /\ ready[i].id = n})

(* The routing table holds exactly the sessions that are connected and have *)
(* identified themselves: no GSUP is routed to a session in its handshake   *)
(* or to one that stopped, and none that is ready is left out.              *)
RoutesToReady ==
    sessions_ = {n \in allSessions_ : session[n].state_ = "Ready"}

(* GSUP flows in neither direction before the SGSN has identified itself:   *)
(* no request of it reaches the proxy and none is queued for it.            *)
IdentifiedFirst ==
    \A n \in ClientId :
      ~session[n].handshaken =>
        /\ n \notin dispatched
        /\ \A i \in DOMAIN session[n].writeQueue_ :
             session[n].writeQueue_[i] = "Ccm"

(* At most one write of a session is in flight, and as long as it is or its *)
(* handler is due, the frame it writes is the head of the queue.            *)
OneWriteInFlight ==
    \A n \in ClientId :
      InQueue("write", n) + (IF session[n].sending THEN 1 ELSE 0)
        <= (IF session[n].writing_ /\ session[n].writeQueue_ # <<>>
              THEN 1 ELSE 0)

(* The loss of a connection is noticed: every session in allSessions_ has a *)
(* read outstanding or its handler due, so a dead one is removed.           *)
Watched ==
    \A n \in allSessions_ :
      (IF session[n].reading THEN 1 ELSE 0) + InQueue("read", n) = 1
=============================================================================
