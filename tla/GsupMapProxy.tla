---------------------------- MODULE GsupMapProxy ----------------------------
(***************************************************************************)
(* The program main() assembles: Proxy between IpaServer and MapTransport,  *)
(* for the requests of the SGSNs.  Proxy calls send() of a transport, which *)
(* only posts a function to the io_context; what the function does depends  *)
(* on the state of the transport when its turn comes.  ready is the queue   *)
(* of the io_context, with the posted functions and the handlers that       *)
(* decide when MapTransport is Active.  The handlers that only call Proxy   *)
(* (a read from an SGSN or from the HLR, main's timer) run between them at  *)
(* any time, which includes every order in which they can be queued.        *)
(*                                                                          *)
(* MapTransport is reduced to what send() and the order of its handlers     *)
(* depend on, IpaServer to the table that send() looks up.  Modules         *)
(* MapTransport and IpaServer have the rest.                                *)
(***************************************************************************)
EXTENDS Proxy, SequencesExt

CONSTANTS MaxSessions,  \* bound on the connections accepted
          MaxConnects   \* bound on the expiries of reconnectTimer_ in ready

ASSUME SessionsAssumption == MaxSessions \in Nat /\ Client = 1 .. MaxSessions
ASSUME ConnectsAssumption == MaxConnects \in Nat

VARIABLES state_,           \* of MapTransport; AspUp counts as Connecting
          socket_,          \* closed, opening, connected, unwritable, broken
          reconnectTimer_,  \* whether a wait is outstanding
          session,          \* connection -> the ClientId its lambdas hold
          sessions_,        \* ClientId -> connection
          ready,            \* the functions that are due, in order
          sent,             \* requests whose Invoke was written
          asker,            \* request -> the connection it came from
          heard,            \* request -> the connections told the answer
          nacked            \* requests nackAllPendingTransactions answered

linkVars == <<state_, socket_, reconnectTimer_>>
sessionVars == <<session, sessions_>>
ghosts == <<sent, asker, heard, nacked>>
programVars == <<vars, linkVars, sessionVars, ready, ghosts>>

ProgramInit ==
    /\ Init
    /\ state_ = "Disconnected" /\ socket_ = "closed"
    /\ reconnectTimer_ = TRUE
    /\ session = <<>> /\ sessions_ = EmptyMap
    /\ ready = <<>>
    /\ sent = {} /\ asker = <<>> /\ heard = <<>> /\ nacked = {}

Due(call, req, to) == [call |-> call, req |-> req, to |-> to]

SendMap(req) == Due("MapTransport::send", req, 0)

SendGsup(req, client) == Due("IpaServer::send", req, client)

EnqueueGsup(req, connection) == Due("IpaSession::sendGsup", req, connection)

(* The handlers of the reconnect timer, of async_connect, of a read that    *)
(* delivered the ASP-AC ACK, and of a read or write that failed.            *)
Connect == Due("connect", 0, 0)
OnConnect == Due("onConnect", 0, 0)
OnConnectError == Due("onConnect: error", 0, 0)
AspAcAck == Due("ASPAC_ACK", 0, 0)
Failed == Due("operation failed", 0, 0)

Runs(f) == ready # <<>> /\ Head(ready) = f

RunsCall(call) == ready # <<>> /\ Head(ready).call = call

Answered == {n \in DOMAIN answers : answers'[n] # answers[n]}

(* The calls of send() the handler of Proxy made, in any order: that of     *)
(* nackAllPendingTransactions is the order of a hash table.                 *)
Posts ==
    SetToSeqs({SendMap(i.req) : i \in invokes' \ invokes} \cup
              {SendGsup(n, Last(answers'[n]).client) : n \in Answered})

-----------------------------------------------------------------------------
(* Handlers of Proxy, called by a transport or by main's timer.             *)

(* A session that has left the table may still pass GSUP on.                *)
SgsnAsks ==
    /\ \E connection \in DOMAIN session, type \in SgsnTypes, imsi \in Imsi :
         /\ HandleGsupRequest(session[connection], type, imsi)
         /\ asker' = Append(asker, connection)
    /\ heard' = Append(heard, <<>>)
    /\ \E calls \in Posts : ready' = ready \o calls
    /\ UNCHANGED <<linkVars, sessionVars, sent, nacked>>

HlrAnswersSent ==
    /\ \E i \in invokes : i.req \in sent /\ HlrAnswersInvoke(i)
    /\ \E calls \in Posts : ready' = ready \o calls
    /\ UNCHANGED <<linkVars, sessionVars, ghosts>>

ExpiryTick ==
    /\ Tick
    /\ \E calls \in Posts : ready' = ready \o calls
    /\ UNCHANGED <<linkVars, sessionVars, ghosts>>

ClockElapses == Elapse /\ UNCHANGED <<linkVars, sessionVars, ready, ghosts>>

-----------------------------------------------------------------------------
(* MapTransport.                                                            *)

(* A read is outstanding unless its handler, or onConnect, is due.          *)
Reading == ~Contains(ready, OnConnect) /\ ~Contains(ready, AspAcAck)

(* What close() fails: a connect, or the read of a connected socket and the *)
(* write, if there is one.  After a write error there is none.              *)
AbortedRead == IF Reading THEN <<Failed>> ELSE <<>>

Aborted ==
    CASE socket_ = "opening" -> {<<OnConnectError>>}
      [] socket_ = "connected" -> {AbortedRead, Append(AbortedRead, Failed)}
      [] socket_ = "unwritable" -> {AbortedRead}
      [] OTHER -> {<<>>}

(* The error branch of the read and of the write handler.                   *)
OperationFailed ==
    /\ Runs(Failed)
    /\ state_' = "Disconnected"
    /\ socket_' = "closed"
    /\ NackAllPendingTransactions
    /\ \E aborted \in Aborted, calls \in Posts :
         ready' = Tail(ready) \o aborted \o calls
    /\ reconnectTimer_' = TRUE
    /\ nacked' = nacked \cup Answered
    /\ UNCHANGED <<sessionVars, sent, asker, heard>>

(* connect(): without an address of the gateway onConnect() is posted with  *)
(* the error, and the socket is left as it is.  A socket that cannot be     *)
(* opened is a connect that fails at once.                                  *)
RunConnect ==
    /\ Runs(Connect)
    /\ state_' = "Connecting"
    /\ \/ /\ socket_' = "opening"
          /\ \E aborted \in Aborted : ready' = Tail(ready) \o aborted
       \/ /\ ready' = Append(Tail(ready), OnConnectError)
          /\ UNCHANGED socket_
    /\ UNCHANGED <<vars, reconnectTimer_, sessionVars, ghosts>>

(* startRead(): the read fails at once on a socket that is not usable.      *)
StartRead == IF socket_ \in {"closed", "broken"} THEN <<Failed>> ELSE <<>>

RunOnConnect ==
    /\ Runs(OnConnect)
    /\ state_' = "Connecting"
    /\ ready' = Tail(ready) \o StartRead
    /\ UNCHANGED <<vars, socket_, reconnectTimer_, sessionVars, ghosts>>

(* The disconnect callback is not called.                                   *)
RunOnConnectError ==
    /\ Runs(OnConnectError)
    /\ state_' = "Disconnected"
    /\ reconnectTimer_' = TRUE
    /\ ready' = Tail(ready)
    /\ UNCHANGED <<vars, socket_, sessionVars, ghosts>>

RunAspAcAck ==
    /\ Runs(AspAcAck)
    /\ state_' = "Active"
    /\ ready' = Tail(ready) \o StartRead
    /\ UNCHANGED <<vars, socket_, reconnectTimer_, sessionVars, ghosts>>

(* Mutant: the posted function does not test state_, so that what it       *)
(* queues while disconnected is written to the next connection.            *)
RunSendMapUnchecked ==
    /\ RunsCall("MapTransport::send")
    /\ sent' = sent \cup {Head(ready).req}
    /\ ready' = Tail(ready)
    /\ UNCHANGED <<vars, linkVars, sessionVars, asker, heard, nacked>>

(* The function send() posts: it drops the message unless the state is      *)
(* Active.  The write fails unless the socket is connected or will be.      *)
(* After a write error the frame waits in writeQueue_, which the handler of *)
(* the error clears.                                                        *)
RunSendMap ==
    /\ RunsCall("MapTransport::send")
    /\ \/ /\ state_ = "Active" /\ socket_ \in {"connected", "opening"}
          /\ sent' = sent \cup {Head(ready).req}
          /\ ready' = Tail(ready)
       \/ /\ state_ = "Active" /\ socket_ \notin {"connected", "unwritable"}
          /\ ready' = Append(Tail(ready), Failed)
          /\ UNCHANGED sent
       \/ /\ state_ # "Active" \/ socket_ = "unwritable"
          /\ ready' = Tail(ready)
          /\ UNCHANGED sent
    /\ UNCHANGED <<vars, linkVars, sessionVars, asker, heard, nacked>>

(* What the timer and the network complete.                                 *)
TimerExpires ==
    /\ reconnectTimer_
    /\ Len(SelectSeq(ready, LAMBDA f : f = Connect)) < MaxConnects
    /\ reconnectTimer_' = FALSE
    /\ ready' = Append(ready, Connect)
    /\ UNCHANGED <<vars, state_, socket_, sessionVars, ghosts>>

Completes(handlers, socket) ==
    /\ socket_' = socket
    /\ ready' = ready \o handlers
    /\ UNCHANGED <<vars, state_, reconnectTimer_, sessionVars, ghosts>>

ConnectCompletes ==
    /\ socket_ = "opening"
    /\ \/ Completes(<<OnConnect>>, "connected")
       \/ Completes(<<OnConnectError>>, "closed")

AckArrives ==
    /\ socket_ \in {"connected", "unwritable"} /\ state_ # "Active" /\ Reading
    /\ Completes(<<AspAcAck>>, socket_)

(* A write fails while what the peer sent before can still be read.         *)
WriteFails ==
    /\ socket_ = "connected" /\ ~Contains(ready, OnConnect)
    /\ Completes(<<Failed>>, "unwritable")

(* The connection ends: the read fails, if there is one.                    *)
LinkFails ==
    /\ socket_ \in {"connected", "unwritable"}
    /\ Completes(IF Reading THEN <<Failed>> ELSE <<>>, "broken")

-----------------------------------------------------------------------------
(* IpaServer.                                                               *)

(* Mutant: the first ClientId that is not in use.                          *)
nextClientIdReused ==
    CHOOSE id \in Client : /\ id \notin DOMAIN sessions_
                           /\ \A j \in 1 .. id - 1 : j \in DOMAIN sessions_

nextClientId_ == Len(session) + 1

(* A connection is accepted and completes the CCM handshake.                *)
SessionReady ==
    /\ Len(session) < MaxSessions
    /\ session' = Append(session, nextClientId_)
    /\ sessions_' = Assign(sessions_, nextClientId_, Len(session) + 1)
    /\ UNCHANGED <<vars, linkVars, ready, ghosts>>

SessionDisconnects(id) ==
    /\ sessions_' = Without(sessions_, {id})
    /\ UNCHANGED <<vars, linkVars, session, ready, ghosts>>

(* The function send() posts for a ClientId: it drops the message when the  *)
(* session is gone, or passes it on to sendGsup(), which posts again and    *)
(* keeps the session alive until then.                                      *)
RunSendGsup ==
    /\ RunsCall("IpaServer::send")
    /\ ready' = IF Head(ready).to \in DOMAIN sessions_
                  THEN Append(Tail(ready), EnqueueGsup(Head(ready).req,
                                             sessions_[Head(ready).to]))
                  ELSE Tail(ready)
    /\ UNCHANGED <<vars, linkVars, sessionVars, ghosts>>

RunEnqueueGsup ==
    /\ RunsCall("IpaSession::sendGsup")
    /\ heard' = [heard EXCEPT ![Head(ready).req] = Append(@, Head(ready).to)]
    /\ ready' = Tail(ready)
    /\ UNCHANGED <<vars, linkVars, sessionVars, sent, asker, nacked>>

-----------------------------------------------------------------------------

(* io_context::run() takes the next function of the queue.                  *)
Run ==
    \/ RunSendMap
    \/ RunSendGsup
    \/ RunEnqueueGsup
    \/ RunConnect
    \/ RunOnConnect
    \/ RunOnConnectError
    \/ RunAspAcAck
    \/ OperationFailed

ProgramNext ==
    \/ SgsnAsks
    \/ HlrAnswersSent
    \/ ExpiryTick
    \/ ClockElapses
    \/ TimerExpires
    \/ ConnectCompletes
    \/ AckArrives
    \/ WriteFails
    \/ LinkFails
    \/ SessionReady
    \/ \E id \in DOMAIN sessions_ : SessionDisconnects(id)
    \/ Run

(* The clock runs, main re-arms its timer, and io_context::run() serves the *)
(* queue.  Nothing is assumed of the HLR, of the link or of the SGSNs.      *)
ProgramSpec ==
    /\ ProgramInit /\ [][ProgramNext]_programVars
    /\ WF_programVars(ClockElapses)
    /\ WF_programVars(ExpiryTick)
    /\ WF_programVars(Run)

-----------------------------------------------------------------------------
(* Properties.                                                              *)

(* An answer reaches the connection the request came from and no other, at  *)
(* most once, although it is looked up by ClientId only when the posted     *)
(* function runs, and connections come and go in the meantime.              *)
HeardByAsker ==
    \A n \in DOMAIN heard : heard[n] = <<>> \/ heard[n] = <<asker[n]>>

(* A request that was answered with an error because the link to the HLR    *)
(* was lost is not handed to the HLR over a connection that has begun to    *)
(* activate: the function that would have sent its Invoke runs before       *)
(* onConnect() of any later connection.  It may be written earlier, when an *)
(* ASP-AC ACK read before a write error makes MapTransport Active while the *)
(* next connection is being opened.                                         *)
NackedNotOnActiveLink ==
    [][\A n \in (sent' \ sent) \cap nacked :
         socket_ = "opening" \/ Contains(ready, OnConnect)]_programVars

(* An SGSN that stays connected hears of every request it made, however     *)
(* often the link to the HLR fails and whatever was dropped on the way,     *)
(* unless no answer could be encoded.                                       *)
AskerHears ==
    \A n \in 1 .. MaxRequests :
      (n \in DOMAIN requests /\ Forwarded(n))
        ~> (n \in DOMAIN heard /\
              \/ heard[n] # <<>>
              \/ n \in dropped
              \/ \A id \in DOMAIN sessions_ : sessions_[id] # asker[n])
=============================================================================
