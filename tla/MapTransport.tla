---------------------------- MODULE MapTransport ----------------------------
(***************************************************************************)
(* transport/MapTransport: the connection to the Signalling Gateway, its    *)
(* M3UA state machine, its write queue and its reconnect timer.             *)
(*                                                                          *)
(* Boost.Asio is external and modelled by its contract.  An asynchronous    *)
(* operation is outstanding until it completes; then its result is fixed    *)
(* and its handler waits in ready, the FIFO queue of the io_context, which  *)
(* one thread serves.  close() and cancel() abort what is outstanding; they *)
(* do not reach a handler that is already in the queue.                     *)
(***************************************************************************)
EXTENDS Integers, Sequences, FiniteSets

CONSTANTS Faults,    \* operations the network may fail: connect, read, write
          Chunks,    \* what a read may deliver
          CanStop,   \* whether the owner may call stop()
          MaxQueue,  \* bound on writeQueue_ when an input may extend it
          MaxReady,  \* bound on ready when a read or a write completes
          MaxTimers  \* bound on the expiries of one timer in ready

VARIABLES state_,
          socket_,          \* closed, open (not connected yet) or connected
          reconnectTimer_,  \* the delay of the outstanding wait, or idle
          beatTimer_,       \* whether a wait is outstanding
          writeQueue_, writing_,
          decoder_,         \* whose bytes of an unfinished message it holds
          pending,          \* operation -> how many are outstanding on socket_
          ready,            \* the handlers that are due, in order
          process,          \* running, terminated or undefined
          attempt           \* parity of the number of connects started

vars == <<state_, socket_, reconnectTimer_, beatTimer_, writeQueue_, writing_,
          decoder_, pending, ready, process, attempt>>

State == {"Disconnected", "Connecting", "AspUp", "Active", "Stopped"}

Operation == {"read", "connect", "write"}

(* The messages processMessage has a case for that does something; for Data *)
(* it is the message callback.                                              *)
Message == {"AspUpAck", "AspAcAck", "Heartbeat", "Data"}

(* A frame is a MAP message of the proxy or one the transport makes itself  *)
(* (ASPUP, ASPAC, BEAT, BEAT ACK).                                          *)
Frame == {"Data", "Control"}

(* What one read delivers: messages it completes, then the beginning of     *)
(* another one, nothing, or a header the decoder throws at.                 *)
Chunk == [msgs : Seq(Message), rest : {"nothing", "partial", "malformed"}]

ASSUME InputsAssumption ==
    /\ Faults \subseteq {"connect", "read", "write"}
    /\ Chunks \subseteq Chunk
ASSUME BoundsAssumption == {MaxQueue, MaxReady, MaxTimers} \subseteq Nat

NoChunk == [msgs |-> <<>>, rest |-> "nothing"]

(* A handler in the queue; old marks a read from a socket closed since.     *)
HandlerType ==
    [op : Operation \cup {"reconnect", "beat", "send"}, ok : BOOLEAN,
     chunk : Chunk, old : BOOLEAN]

Handler(op, ok, chunk) == [op |-> op, ok |-> ok, chunk |-> chunk, old |-> FALSE]

Due(op) == Handler(op, TRUE, NoChunk)

Failed(op) == Handler(op, FALSE, NoChunk)

Init ==
    /\ state_ = "Disconnected"
    /\ socket_ = "closed"
    /\ reconnectTimer_ = "immediate"
    /\ beatTimer_ = FALSE
    /\ writeQueue_ = <<>>
    /\ writing_ = FALSE
    /\ decoder_ = "nobody"
    /\ pending = [op \in Operation |-> 0]
    /\ ready = <<>>
    /\ process = "running"
    /\ attempt = 0

-----------------------------------------------------------------------------
(* What the handlers are made of.                                           *)

Runs(op) == process = "running" /\ ready # <<>> /\ Head(ready).op = op

(* Mutant: scheduleConnect gives up when disconnected.                     *)
scheduleConnectOnlyWhenUp(s) ==
    IF s \in {"Stopped", "Disconnected"} THEN reconnectTimer_ ELSE "interval"

(* scheduleConnect in state s: expires_after replaces the wait.             *)
scheduleConnect(s) ==
    IF s = "Stopped" THEN reconnectTimer_
    ELSE IF s = "Disconnected" THEN "immediate" ELSE "interval"

(* Mutant: resetConnection forgets writing_.                               *)
resetConnectionStillWriting ==
    /\ writeQueue_' = <<>>
    /\ writing_' = writing_
    /\ decoder_' = "nobody"

resetConnection ==
    /\ writeQueue_' = <<>>
    /\ writing_' = FALSE
    /\ decoder_' = "nobody"

(* socket_.close() with queue still to run: what was outstanding fails, and *)
(* what was read belongs to a socket that is gone.                          *)
Close(queue) ==
    [i \in DOMAIN queue |->
       [queue[i] EXCEPT !.old = queue[i].op = "read" /\ queue[i].ok]]
    \o [i \in 1 .. pending["read"] |-> Failed("read")]
    \o [i \in 1 .. pending["connect"] |-> Failed("connect")]
    \o [i \in 1 .. pending["write"] |-> Failed("write")]

NothingPending == [op \in Operation |-> 0]

(* Start the operations ops, in order, with queue still to run: on a closed *)
(* socket they fail at once.                                                *)
StartAll(ops, queue) ==
    IF socket_ = "closed"
      THEN /\ ready' = queue \o [i \in DOMAIN ops |-> Failed(ops[i])]
           /\ UNCHANGED pending
      ELSE /\ ready' = queue
           /\ pending' = [op \in Operation |->
                pending[op] + Cardinality({i \in DOMAIN ops : ops[i] = op})]

(* enqueue for each of frames: the write it starts, if any.                 *)
Enqueue(frames) ==
    /\ writeQueue_' = writeQueue_ \o frames
    /\ writing_' = (writing_ \/ frames # <<>>)

StartedWrite(frames) ==
    IF frames # <<>> /\ ~writing_ THEN <<"write">> ELSE <<>>

(* The error branch of the read and of the write handler.                   *)
Disconnect ==
    /\ state_' = "Disconnected"
    /\ resetConnection
    /\ socket_' = "closed"
    /\ pending' = NothingPending
    /\ ready' = Close(Tail(ready))
    /\ reconnectTimer_' = scheduleConnect("Disconnected")

-----------------------------------------------------------------------------
(* The handlers.                                                            *)

(* connect(): name resolution or open may fail before anything is closed or *)
(* after it.                                                                *)
RunReconnect ==
    /\ Runs("reconnect")
    /\ IF state_ = "Stopped"
         THEN /\ ready' = Tail(ready)
              /\ UNCHANGED <<state_, socket_, pending, attempt>>
         ELSE /\ state_' = "Connecting"
              /\ \/ /\ "connect" \in Faults
                    /\ ready' = Append(Tail(ready), Failed("connect"))
                    /\ UNCHANGED <<socket_, pending, attempt>>
                 \/ /\ "connect" \in Faults
                    /\ socket_' = "closed"
                    /\ ready' = Append(Close(Tail(ready)), Failed("connect"))
                    /\ pending' = NothingPending
                    /\ UNCHANGED attempt
                 \/ /\ socket_' = "open"
                    /\ ready' = Close(Tail(ready))
                    /\ pending' = [NothingPending EXCEPT !["connect"] = 1]
                    /\ attempt' = 1 - attempt
    /\ UNCHANGED <<reconnectTimer_, beatTimer_, writeQueue_, writing_,
                   decoder_, process>>

(* The socket is not closed here: when a write is outstanding on it, the    *)
(* frame it writes from is destroyed under it, which is undefined.          *)
OnConnectFailed ==
    /\ Runs("connect") /\ ~Head(ready).ok
    /\ resetConnection
    /\ state_' = "Disconnected"
    /\ reconnectTimer_' = scheduleConnect("Disconnected")
    /\ ready' = Tail(ready)
    /\ process' = IF pending["write"] > 0 THEN "undefined" ELSE process
    /\ UNCHANGED <<socket_, beatTimer_, pending, attempt>>

OnConnected ==
    /\ Runs("connect") /\ Head(ready).ok
    /\ state_' = "AspUp"
    /\ Enqueue(<<"Control">>)
    /\ StartAll(<<"read">> \o StartedWrite(<<"Control">>), Tail(ready))
    /\ UNCHANGED <<socket_, reconnectTimer_, beatTimer_, decoder_, process,
                   attempt>>

(* Mutant: BEAT is answered with BEAT, ASPUP_ACK not at all.               *)
RepliesEchoHeartbeat(msgs) ==
    [i \in 1 .. Cardinality({i \in DOMAIN msgs : msgs[i] = "Heartbeat"}) |->
       "Heartbeat"]

(* processMessage: ASPUP_ACK is answered with ASPAC, BEAT with BEAT_ACK.    *)
Replies(msgs) ==
    [i \in 1 .. Cardinality({i \in DOMAIN msgs :
                               msgs[i] \in {"AspUpAck", "Heartbeat"}}) |->
       "Control"]

(* The messages decoder_ may find in a chunk: behind bytes of an earlier    *)
(* connection, anything.                                                    *)
Decoded(chunk) ==
    IF decoder_ = "earlier" THEN Chunks ELSE {chunk}

(* The read handler, for data that decodes.                                 *)
ProcessMessages(chunk, old) ==
    LET active == \E i \in DOMAIN chunk.msgs : chunk.msgs[i] = "AspAcAck"
        s      == IF active THEN "Active" ELSE state_
        frames == Replies(chunk.msgs)
    IN  /\ state_' = s
        /\ beatTimer_' = (beatTimer_ \/ active)
        /\ decoder_' = IF chunk.rest = "nothing" THEN "nobody"
                       ELSE IF old \/ decoder_ = "earlier" THEN "earlier"
                       ELSE "current"
        /\ Enqueue(frames)
        /\ StartAll(StartedWrite(frames) \o
                      IF s \in {"Stopped", "Disconnected"} THEN <<>>
                                                           ELSE <<"read">>,
                    Tail(ready))
        /\ UNCHANGED process

OnRead ==
    /\ Runs("read") /\ Head(ready).ok
    /\ \E chunk \in Decoded(Head(ready).chunk) :
         \/ /\ chunk.rest # "malformed"
            /\ ProcessMessages(chunk, Head(ready).old)
         \/ /\ chunk.rest = "malformed"
            /\ process' = "terminated"
            /\ UNCHANGED <<state_, beatTimer_, decoder_, writeQueue_, writing_,
                           pending, ready>>
    /\ UNCHANGED <<socket_, reconnectTimer_, attempt>>

OnReadFailed ==
    /\ Runs("read") /\ ~Head(ready).ok
    /\ \/ /\ state_ # "Stopped"
          /\ Disconnect
          /\ beatTimer_' = FALSE
       \/ /\ state_ = "Stopped"
          /\ ready' = Tail(ready)
          /\ UNCHANGED <<state_, socket_, reconnectTimer_, beatTimer_,
                         writeQueue_, writing_, decoder_, pending>>
    /\ UNCHANGED <<process, attempt>>

(* pop_front on an empty deque is undefined; what follows is not modelled.  *)
OnWritten ==
    /\ Runs("write") /\ Head(ready).ok
    /\ \/ /\ writeQueue_ = <<>>
          /\ process' = "undefined"
          /\ UNCHANGED <<writeQueue_, writing_, pending, ready>>
       \/ /\ writeQueue_ # <<>>
          /\ writeQueue_' = Tail(writeQueue_)
          /\ writing_' = (Tail(writeQueue_) # <<>>)
          /\ StartAll(IF writing_' THEN <<"write">> ELSE <<>>, Tail(ready))
          /\ UNCHANGED process
    /\ UNCHANGED <<state_, socket_, reconnectTimer_, beatTimer_, decoder_,
                   attempt>>

OnWriteFailed ==
    /\ Runs("write") /\ ~Head(ready).ok
    /\ \/ /\ state_ # "Stopped"
          /\ Disconnect
       \/ /\ state_ = "Stopped"
          /\ ready' = Tail(ready)
          /\ UNCHANGED <<state_, socket_, reconnectTimer_, writeQueue_,
                         writing_, decoder_, pending>>
    /\ UNCHANGED <<beatTimer_, process, attempt>>

OnBeat ==
    /\ Runs("beat")
    /\ LET frames == IF state_ = "Active" THEN <<"Control">> ELSE <<>>
       IN  /\ Enqueue(frames)
           /\ StartAll(StartedWrite(frames), Tail(ready))
    /\ beatTimer_' = (beatTimer_ \/ state_ = "Active")
    /\ UNCHANGED <<state_, socket_, reconnectTimer_, decoder_, process,
                   attempt>>

(* The function send() posts.                                               *)
RunSend ==
    /\ Runs("send")
    /\ LET frames == IF state_ = "Active" THEN <<"Data">> ELSE <<>>
       IN  /\ Enqueue(frames)
           /\ StartAll(StartedWrite(frames), Tail(ready))
    /\ UNCHANGED <<state_, socket_, reconnectTimer_, beatTimer_, decoder_,
                   process, attempt>>

-----------------------------------------------------------------------------
(* What happens outside the handlers: an operation completes, a timer       *)
(* expires, the proxy sends.                                                *)

HappensBehind(queue, handler) ==
    /\ process = "running"
    /\ ready' = Append(queue, handler)
    /\ UNCHANGED <<state_, writeQueue_, writing_, decoder_, process, attempt>>

Happens(handler) == HappensBehind(ready, handler)

InQueue(op) == Cardinality({i \in DOMAIN ready : ready[i].op = op})

(* There is one readBuf_: data whose handler has not run yet is overwritten.*)
Overwritten(content) ==
    [i \in DOMAIN ready |->
       IF ready[i].op = "read" /\ ready[i].ok
         THEN [ready[i] EXCEPT !.chunk = content] ELSE ready[i]]

ConnectCompletes ==
    /\ pending["connect"] > 0
    /\ pending' = [pending EXCEPT !["connect"] = @ - 1]
    /\ \/ /\ Happens(Due("connect"))
          /\ socket_' = "connected"
       \/ /\ "connect" \in Faults
          /\ Happens(Failed("connect"))
          /\ UNCHANGED socket_
    /\ UNCHANGED <<reconnectTimer_, beatTimer_>>

ReadCompletes ==
    /\ pending["read"] > 0 /\ socket_ = "connected"
    /\ Len(writeQueue_) < MaxQueue /\ Len(ready) < MaxReady
    /\ pending' = [pending EXCEPT !["read"] = @ - 1]
    /\ \/ \E chunk, content \in Chunks :
            HappensBehind(Overwritten(content), Handler("read", TRUE, chunk))
       \/ "read" \in Faults /\ Happens(Failed("read"))
    /\ UNCHANGED <<socket_, reconnectTimer_, beatTimer_>>

WriteCompletes ==
    /\ pending["write"] > 0 /\ socket_ = "connected"
    /\ Len(ready) < MaxReady
    /\ pending' = [pending EXCEPT !["write"] = @ - 1]
    /\ \/ Happens(Due("write"))
       \/ "write" \in Faults /\ Happens(Failed("write"))
    /\ UNCHANGED <<socket_, reconnectTimer_, beatTimer_>>

ReconnectTimerExpires ==
    /\ reconnectTimer_ # "idle" /\ InQueue("reconnect") < MaxTimers
    /\ Happens(Due("reconnect"))
    /\ reconnectTimer_' = "idle"
    /\ UNCHANGED <<socket_, beatTimer_, pending>>

BeatTimerExpires ==
    /\ beatTimer_ /\ InQueue("beat") < MaxTimers
    /\ Len(writeQueue_) < MaxQueue
    /\ Happens(Due("beat"))
    /\ beatTimer_' = FALSE
    /\ UNCHANGED <<socket_, reconnectTimer_, pending>>

Send ==
    /\ InQueue("send") = 0 /\ Len(writeQueue_) < MaxQueue
    /\ Happens(Due("send"))
    /\ UNCHANGED <<socket_, reconnectTimer_, beatTimer_, pending>>

Stop ==
    /\ process = "running" /\ state_ # "Stopped" /\ CanStop
    /\ state_' = "Stopped"
    /\ reconnectTimer_' = "idle"
    /\ beatTimer_' = FALSE
    /\ socket_' = "closed"
    /\ pending' = NothingPending
    /\ ready' = Close(ready)
    /\ UNCHANGED <<writeQueue_, writing_, decoder_, process, attempt>>

Handlers ==
    \/ RunReconnect \/ OnConnectFailed \/ OnConnected
    \/ OnRead \/ OnReadFailed \/ OnWritten \/ OnWriteFailed
    \/ OnBeat \/ RunSend

Next ==
    \/ Handlers
    \/ ConnectCompletes \/ ReadCompletes \/ WriteCompletes
    \/ ReconnectTimerExpires \/ BeatTimerExpires \/ Send
    \/ Stop

(* The thread serves the queue, the reconnect timer expires, and each       *)
(* connect completes, unless it is aborted first.                           *)
Spec == /\ Init /\ [][Next]_vars
        /\ WF_vars(Handlers) /\ WF_vars(ReconnectTimerExpires)
        /\ \A n \in {0, 1} : WF_vars(attempt = n /\ ConnectCompletes)

-----------------------------------------------------------------------------
(* Properties.                                                              *)

(* Every variable has its type.                                             *)
TypeOK ==
    /\ state_ \in State
    /\ socket_ \in {"closed", "open", "connected"}
    /\ reconnectTimer_ \in {"idle", "immediate", "interval"}
    /\ beatTimer_ \in BOOLEAN
    /\ writeQueue_ \in Seq(Frame)
    /\ writing_ \in BOOLEAN
    /\ decoder_ \in {"nobody", "current", "earlier"}
    /\ pending \in [Operation -> Nat]
    /\ ready \in Seq(HandlerType)
    /\ process \in {"running", "terminated", "undefined"}
    /\ attempt \in {0, 1}

(* The reconnect loop is never lost: as long as the transport is not        *)
(* stopped, a reconnect is scheduled, a connect is in progress or a read    *)
(* watches the connection, whatever order errors, aborted operations and    *)
(* timers are handled in.                                                   *)
NeverStuck ==
    process = "running" /\ state_ # "Stopped" =>
      \/ reconnectTimer_ # "idle" \/ InQueue("reconnect") > 0
      \/ pending["connect"] > 0 \/ InQueue("connect") > 0
      \/ pending["read"] > 0 \/ InQueue("read") > 0

(* No frame is stranded: while writeQueue_ holds one, a write is            *)
(* outstanding or its handler is due, which will send the rest or clear it, *)
(* or a failed read or connect is due, which will clear it.                 *)
NothingStranded ==
    process = "running" /\ state_ # "Stopped" /\ writeQueue_ # <<>> =>
      \/ pending["write"] > 0 \/ InQueue("write") > 0
      \/ \E i \in DOMAIN ready :
           ready[i].op \in {"read", "connect"} /\ ~ready[i].ok

(* Every disconnect is followed by a new attempt to connect.                *)
Retries ==
    state_ = "Disconnected" ~>
      (state_ \in {"Connecting", "Stopped"} \/ process # "running")

(* README, MapTransport: on any read or write error the state reverts to    *)
(* DISCONNECTED and a reconnect is scheduled.  In no order of the handlers  *)
(* does an error end in undefined behaviour instead.                        *)
DefinedBehaviour == process # "undefined"

(* README, MapTransport: after an error the connection is established anew, *)
(* when the network completes every connect that is left to it.             *)
Reconnects ==
    state_ = "Disconnected" ~>
       (socket_ = "connected" \/ state_ = "Stopped" \/ process # "running")
=============================================================================
