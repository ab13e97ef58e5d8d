# TLA+ models of gsup-map-proxy

The proxy stands between SGSNs, which speak GSUP over IPA, and an HLR, which
speaks MAP over TCAP, SCCP and M3UA. These modules model its control: what it
remembers about a request, which messages it sends to whom, and what its two
transports do when connections fail; and its codecs, octet by octet. TLC checks
them on small instances. With TLAPS, the safety properties of the routing core,
of both transports and of the assembled program are proved for every value of the
constants, among them that the core, and the program built around it, implement an
abstract request service; and so are the reassembly of both protocols' frames, and
that whatever the peers send, the HLR is addressed as configured.

## 1. The system

Everything runs on one `io_context` thread: a handler is never interrupted, but
handlers, timers and completed operations meet in any order.

| Component | State | Operations | Talks to |
|---|---|---|---|
| `Proxy` | `pendingOps_` (TID → operation), `hlrTx_` (IMSI → HLR Invoke) | `handleGsupPayload`, `handleMapPayload`, `nackAllPendingTransactions`, `expireSgsnTransactions`, `expireHlrTransactions` | both transports by `send` and callbacks |
| `TransactionManager` | `tidCounter_`, `invokeIdCounter_`, `transactions_` | `allocate`, `find`, `complete`, `expireStale` | called by `Proxy` |
| `Converter` | none | `gsupToMap`, `mapToGsup`, `mapInvokeToGsup`, `gsupToMapResult` | called by `Proxy` |
| `MapTransport` | `state_`, socket, two timers, `writeQueue_`, `writing_`, `decoder_` | connect, read, write, beat, `send`, `stop` | Signalling Gateway; `Proxy` by callbacks |
| `IpaServer` | `allSessions_`, `sessions_`, acceptor | accept, `send`, `stop` | its sessions; `Proxy` by callback |
| `IpaSession` | `state_`, `writeQueue_`, `writing_`, `decoder_` | handshake, read, write, `sendGsup`, `stop` | SGSN; `IpaServer` by callbacks |
| codecs (GSUP, MAP, BER, IPA, M3UA, SCCP) | stream decoders: a buffer | encode, decode | called by all of the above |
| `main` | expiry timer | tick every 5 s | `Proxy` |

A request of an SGSN gets a TID, is registered in two tables, and becomes a MAP
Invoke. One of three things ends it: the HLR's answer, the HLR transport's
disconnect, or the expiry after 30 s. An Invoke of the HLR is recorded under its
IMSI and broadcast to all SGSNs; the first answer about that IMSI ends it.

What is hard here: an answer racing an expiry or a disconnect; answers that
come late, twice, or from the wrong SGSN; a TID space that wraps; a restart that
forgets everything; errors on a read and on a write that each close the socket
under the other; handlers that are queued when the connection they belong to is
torn down; a handshake that overlaps with traffic; a `send` that is only posted
and meets another state of the transport when its turn comes; encodings that
change at 128, 256 or an odd number of digits. `PROJECT.json` lists these
hazards with their lines and the properties that watch them.

What makes each part correct:

- `Proxy`: every forwarded request has exactly one fate, and its answer reaches
  the SGSN that asked, of the right type; the HLR gets at most one answer to an
  Invoke; nothing is kept for ever.
- `TransactionManager`: a registered transaction is never changed or redirected.
- `MapTransport`: as long as it is not stopped it is connected or on its way to
  be; what it queued is being written.
- `IpaServer`, `IpaSession`: exactly the identified, connected sessions are
  routed to; one write at a time; a lost connection is noticed.
- codecs: what one peer means is what the other decodes, wherever the streams are
  cut.
- the program: an answer reaches the connection that asked, whatever happens
  between the handler that posts it and the one that writes it.

## 2. The modules

| Module | Models |
|---|---|
| `Converter` | message types of both protocols, the conversions between them, and what the codecs lose or refuse |
| `UnorderedMap` | `std::unordered_map` as the proxy uses it |
| `TransactionManager` | the counters and the table; its member functions as operators |
| `Proxy` | the handlers as actions, the peers' inputs, the properties |
| `RequestService` | what the proxy promises the SGSNs, abstractly |
| `ProxyRestart` | `Proxy` in a process that may be restarted |
| `MapTransport` | the HLR-facing transport on an `io_context` |
| `IpaServer` | the SGSN-facing transport with its sessions on an `io_context` |
| `GsupMapProxy` | the program: `Proxy` between reduced forms of its two transports |
| `Octets`, `BerCodec`, `MapCodec`, `GsupCodec`, `ScccpCodec`, `M3uaCodec`, `IpaCodec` | the codecs, one module per source file, as operators on sequences of octets |
| `PackedDigits` | two digits to an octet, as three of the codecs have them |
| `Codecs` | the codecs of the two links under the names of their namespaces |
| `MessageConverter` | `Converter` on whole messages |
| `DataPath` | the way of octets through all of these, in both directions |
| `MCProxy`, `MCProxyRestart`, `MCMapTransport`, `MCIpaServer`, `MCGsupMapProxy`, `MCDataPath` | inputs for TLC |
| `ProxyProofs`, `ServiceProofs` | the theorems about `Proxy` |
| `MapTransportProofs`, `IpaServerProofs` | the theorems about the transports |
| `GsupMapProxyProofs` | the theorems about the program |
| `Iteration` | what a decoder's loop computes, for any body: two lemmas to instantiate |
| `FramingProofs` | the theorems about `IpaCodec`, `M3uaCodec` and `ScccpCodec` |
| `DataPathProofs` | the theorems about `DataPath` |

Operators marked `Mutant` are deliberate mistakes, one for each property: put in
the place of the definition that follows them, they make TLC report that
property violated. No specification uses them.

### Converter, TransactionManager, Proxy

A GSUP type is a procedure and a direction, as in its encoding. A conversion
that throws is the set of types it accepts and its value on them. The fields the
routing never reads are one bit, `fits`: whether `gsup::encode` accepts them. An
IMSI is a model value; `LongImsi` are those of more than 15 digits, which decode
and do not encode, and `NoImsi` the empty string of a message without one. A TCAP
ReturnError has no operation (`decodedOperation`) and no answer has an IMSI of its
own. `map::decode` merges all components of a message, so each is then what a
component in front of the answer left (`front`), and only if that is nothing
either does the code take it from its tables (`AnswerImsi`, `AnswerOperation`). An
invoke id of the HLR is cast to eight bits when it is decoded
(`decodedInvokeId`).

| Action | Code |
|---|---|
| `HandleGsupRequest` | `handleGsupPayload` for a request: allocate, convert, register, send, or complete after a `ConversionError` |
| `HandleMapAnswer` | `handleMapPayload` for an answer whose TID is pending |
| `HandleHlrInitiated` | `handleMapPayload` for an Invoke |
| `HandleGsupHlrResponse` | `handleGsupPayload` for an SGSN's answer to a broadcast |
| `NackAllPendingTransactions` | the disconnect callback |
| `Tick` | the expiry timer of `main`: both expiries |
| `Elapse` | the clock |

A handler that returns without changing state is a stuttering step. `invokes`
and `broadcasts` never shrink: a peer may answer anything it was ever sent, at
any time, any number of times, or never. That covers loss, duplication and
reordering in the transports, and answers by several SGSNs to one broadcast.
`requests`, `owner`, `answers`, `dropped`, `hlrInvokes` and `hlrAnswers` are
history for the properties; no guard on the program's own steps reads them. The
HLR's own transaction identifier of an Invoke is its index in `hlrInvokes`.

Three constants restrict the HLR, not the proxy. `HlrConforms`: it answers the
operation it was asked. `HlrBundles` lifts a restriction: it may put components in
front of an answer, with any operation and any IMSI; without it, it sends one
component per message. `HlrSerial`: it starts no operation for an IMSI while the
proxy still tracks one. The HLR's invoke ids are from `HlrInvokeId`, any of
TCAP's -128..127. A property that needs a restriction says so: that an answer is
about the subscriber of its request needs `~HlrBundles`, that it is of its
procedure, and that only what does not fit in GSUP goes unanswered, needs
`HlrPlain`, which is `HlrConforms` without `HlrBundles`. That a request has one
fate and that its answer goes to the SGSN that asked need neither. A message whose
last component is an Invoke is an Invoke, whatever is in front of it.

### MapTransport, IpaServer

Boost.Asio is external and modelled by its contract. An operation is outstanding
until it completes; its result is then fixed and its handler is appended to
`ready`, the FIFO queue one thread serves. `close()` and `cancel()` fail what is
outstanding and do not reach a handler that is queued. Operations aborted by one
`close()` are queued in the order read, connect, write. An operation started on
a closed socket fails at once. A timer has at most one wait outstanding, since
`expires_after` replaces it; the code drops aborted waits, so they are not
modelled.

Undefined behaviour ends a behaviour of the model with `process = "undefined"`:
`pop_front` on an empty queue, or a frame destroyed while a write uses it. An
exception that leaves a handler ends it with `"terminated"`. There is one
`readBuf_`, so a second read may replace what a queued handler has yet to look
at (`Overwritten`). Behind bytes of an earlier connection the decoder may find
anything (`Decoded`).

`IpaServer` keeps every session it ever accepted: a session that left both
tables lives on while an operation or a handler holds it. The sessions of a table
are visited in any order, as a hash table has them: a broadcast and `stop()` queue
what they cause in each of the possible orders (`SetToSeqs`).

### RequestService

The abstract specification knows requests, the open ones, and answers. `Ask`
adds a request; `Settle` closes any set of open ones, each with exactly one right
answer, or without one where the service may refuse. Which subscribers and types
an answer may have is a parameter (`AnswerImsis`, `AnswerTypes`): those of the
request where the HLR is restricted as above. `Proxy` implements it under
the mapping `open <- the requests whose transaction is registered`
(`ImplementsService`): a MAP answer settles one request, an expiry or a
disconnect any number, and everything else the proxy does is a stuttering step.

### GsupMapProxy

`send` of either transport only posts a function. `ready` holds these functions
and the handlers that decide when `MapTransport` is Active, in the order of the
`io_context`. A handler of `Proxy` is one action that appends what it sends; the
disconnect callback runs inside the error handler, as in the code.

| Action | Code |
|---|---|
| `SgsnAsks`, `HlrAnswersSent`, `ExpiryTick` | the actions of `Proxy`, and the sends they post |
| `RunSendMap` | the function `MapTransport::send` posts: drop unless Active, else write |
| `RunSendGsup`, `RunEnqueueGsup` | the functions `IpaServer::send` and `IpaSession::sendGsup` post |
| `OperationFailed` | the error branches of read and write: disconnect, nack, reconnect |
| `RunConnect`, `RunOnConnect`, `RunOnConnectError`, `RunAspAcAck` | the way back to Active; without an address of the gateway `connect` leaves the socket as it is |
| `SessionReady`, `SessionDisconnects` | the session table |

`asker`, `heard` and `nacked` are history; `sent` is what the HLR got, which
restricts what it may answer. The transports are reduced to
what a send depends on: no heartbeats, no partial messages, no `stop()`, and AspUp
and Connecting are one state. A write may fail with its connection (`LinkFails`)
or before it, while the peer's octets can still be read (`WriteFails`). `close()`
fails the read, and a write if there is one (`Aborted`). The
composition has the requests of SGSNs; HLR-initiated Invokes are in `Proxy` and
`DataPath`.

### The codecs and DataPath

A function that may throw yields a set: its result, or nothing. An optional
field is a sequence of at most one value, a string of digits the sequence of what
its characters are worth (`ch - '0'`, for every character). Encoders and decoders
are separate translations of separate code; nothing in a decoder refers to its
encoder. A loop of the code that runs until its input is used up is a `While` of
`Octets` with as many turns as the input can need (an M3UA parameter takes four
octets or more, a BER or GSUP element two, an IPA frame three); a turn with nothing
left to take changes nothing. `uint8_t`'s `|` and `&` are `bitOr` and `bitAnd`.
Where a throw is caught, the handler is a `Try`. `DataPath` runs them as the program does: octets arrive in pieces, a
stream decoder collects them, every whole message goes through decoding,
conversion and encoding, and the other peer decodes what comes out. A peer's
message is recorded with what it means (`GsupSays`, `MapSays`: subject,
procedure, outcome, vectors, numbers; not the domain and the PDP contexts, which
the converter drops), independently of its encoding; the properties compare
meanings. What the peers make of the octets is the same
decoders again, standing for conforming ones.

## 3. What TLC checks

| Run | Bounds | Shows |
|---|---|---|
| `sgsn` | an HLR that answers what it was asked, one component per message; 3 requests of every type, 2 SGSNs, a valid and an over-long IMSI, TID space 4 | `MapsInSync`, `TidsCorrelate`, `Accounted`, `RightClient`, `RightType`, `ImplementsService`: one fate per request, the right receiver, the right type, and nothing an SGSN could see that the abstract service does not do |
| `hlr` | 3 Invokes with positive and negative invoke ids; 1 request of either of 2 SGSNs with a valid or an over-long IMSI; an HLR that answers with any operation and any components in front | `HlrAnsweredOnce` while Invokes overwrite each other; `Accounted`, `RightClient`: one fate and the right receiver whatever the HLR sends; `EveryRequestSettles`, `HlrTableDrains` whatever the peers do |
| `wrap` | 4 requests in a TID space of 3 | `TypeOK`, `PendingUntouched` across the wrap-around |
| `errors` | all faults, all chunks, `stop()` at any time | `TypeOK`, `NeverStuck`, `NothingStranded`, `Retries` |
| `sessions` | 2 sessions, all frames, broadcasts and targeted sends, `stop()` | `TypeOK`, `RoutesToReady`, `IdentifiedFirst`, `OneWriteInFlight`, `Watched` |
| `wire` | 3 messages, at most 2 per side, out of 7 requests, 3 kinds of SGSN answers, 4 Invokes, 8 results, a ping and a heartbeat; reads of 9 or 64 and of 23 or 150 octets | `Translated`, `NothingHeldBack`, `HlrAddressed` |
| `program` | 2 connections, 1 request, one reconnect due at a time, a link whose writes or reads may fail at any time | `HeardByAsker`, `NackedNotOnActiveLink`, `AskerHears` |

Why the bounds suffice for what they are meant to reach. Three requests are one
pending, one answered and one being answered, with two owners for them, which
the run treats as symmetric (it has no liveness property). Ages
stop at the first expired value, since the code only compares with the timeout.
A TID space of 3 has two usable TIDs, so the third request meets TID 0 and a TID
that may be pending. In `hlr` a front may carry another subscriber's IMSI, one that does
not encode, any operation, or nothing. Three Invokes are an overwritten one, its
successor and one after an expiry. `MaxQueue`, `MaxReady` and `MaxTimers` bound inputs only, never
what a handler does: a stale handler behind an error takes two handlers in the
queue, and two reconnects in flight take two timer expiries. The cuts of `wire`
split a message in its header and in its body, and put two messages into one
read; its messages have lengths, identifiers and digits on both sides of 127,
255 and even, and a result too long for a UDT. Three messages are a request, its
answer and one that overlaps. In `program` a connection may
be lost and the other accepted while the request of the first is under way, and
the reconnects a write error starts twice can meet in the queue; requests meet
each other in `Proxy`, where `sgsn` has three. Two reconnects due at a time
(`MaxConnects = 2`) pass too in four to five minutes, and so do the two safety
properties with two requests of one connection.
`CHECK_DEADLOCK FALSE` in the transports' configurations is for a process that ended, a stopped transport, and a server
that has accepted all the bound allows.

Fairness. `Proxy`: the clock runs and the expiry timer, which re-arms itself in
every tick, fires (`WF` of `Elapse` and `Tick`). Nothing is assumed of the
peers. `MapTransport`: the thread serves its queue, the reconnect timer expires,
and each connect completes, with success or failure as `Faults` allows, unless
it is aborted first. The last is stated for each attempt (`attempt` tells two
consecutive ones apart): the network owes an answer to a connect that is left to
it, and nothing to one that `close()` aborts. `GsupMapProxy`: the clock, the
expiry timer and the thread that serves the queue; nothing of the link, the HLR
or the SGSNs. `IpaServer` assumes only that the thread serves its queue and has
no liveness property; `DataPath` assumes nothing and has none either.

### Where the code and its documents disagree

Each of these runs checks one sentence of the repository's documents or comments
and ends in a counterexample.

| Run | The document | The code |
|---|---|---|
| `serial` | the IMSI correlates answers if the HLR has one operation per IMSI | a second SGSN's answer to an earlier Invoke answers the current one |
| `restart` | TIDs are random, so none the HLR holds is reused | they count from 1 in every process |
| `undefined` | any error leads to a reconnect | a completed write's handler pops from the queue a read error cleared |
| `storm` | the connection will be re-established | one write error starts two reconnects that can abort each other for ever |
| `globaltitle` | `hlrGt` is an E.164 title, by default +49161000000 | the '+' is packed as a digit worth -5, and no message carries the title's digits |

More disagreements have no run. In the models a handler reaches them in a few
steps: a read that is queued when a write error clears the decoder feeds it
afterwards, although "no stale data leaks into a new connection"
(`MapTransport!OnRead`, `decoder_ = "earlier"`), and if that read holds the ASP-AC
ACK, a request already answered with an error may be written ahead of everything
else to the connection being opened (`GsupMapProxy!RunSendMap`, the case
`NackedNotOnActiveLink` leaves open); an Invoke in front of a ReturnError leaves
its operation, and the SGSN gets the error of that procedure, although the code
means to "recover from context" and the stored operation is said to give "the
correct GSUP error message type" (`AnswerOperation`), and in front of either
answer it leaves its IMSI, which the SGSN then gets for its subscriber's
(`AnswerImsi`); an Invoke with the id -1 is answered under 255, although the caller
supplies it "from the original MAP Invoke" (`decodedInvokeId`); an oversized M3UA message ends
the process, since `next()` is outside the try block, although its peer "will be
disconnected" (`process = "terminated"`); an `ID_RESP` that arrives after a write
error makes a stopped session Ready again (`IpaServer!ProcessFrames`). Plain in
the source: a `DeleteDataRequest`, listed as supported from SGSN to HLR, has no
case in `gsupToMap` and gets no answer (`RejectRequest`); a reconnect never waits
`reconnectInterval`, since `state_` is `Disconnected` at every call of
`scheduleConnect`; an accept error ends the accept loop (`OnAcceptFailed`).

`storm` runs without connect faults, so that only the transport itself can keep
a connect from succeeding. `stop()` is meant for use outside `run()`; the runs
with `CanStop` call it between handlers.

## 4. What is proved

Thirty-one theorems, in seven modules, and the lemmas they rest on. Every safety
property a passing run checks is proved except `Translated` and `NothingHeldBack` of `DataPath`.

### Proxy

`ProxyProofs` and `ServiceProofs` hold nine theorems about `Proxy!Spec`, for all
sets of clients and IMSIs, all timeouts, any `TidSpace > 1`, any bound on
requests and Invokes, and an HLR with or without `HlrConforms` and `HlrBundles`.

- `TypeCorrect`: `TypeOK` is inductive. It says that `owner` knows every
  registered TID, without which the answers an expiry sends could not be typed.
- `TablesAgree`, `TidsIdentify`, `OneFate`, `RightReceiver`, `RightProcedure`: if
  no TID is drawn twice (`NoTidReuse`: fewer requests than TIDs), then
  `MapsInSync`, `TidsCorrelate`, `Accounted`, `RightClient` and `RightType`
  always hold, each with the restriction of the HLR it states (`~HlrBundles` for
  the subscriber of an answer, `HlrPlain` for its procedure), and none for the
  receiver and the one fate. Alone they are not inductive: an answer is found by TID, so one
  must know that the TID identifies the request. All five follow from
  `CorrelationInv`: `TypeOK`, `MapsInSync`, `TidsCorrelate` (the TID is the
  request's number; what is registered under it, its operation and every Invoke
  carrying it agree with the request) and the fate of each request, one at a time
  (`RequestOK`). The proof has one lemma per action; the answer lemmas rest on
  `ConverterRoundTrip`: `mapToGsup` accepts whatever operation `gsupToMap`
  produced and gives back the procedure.
- `ServiceImplemented`: under the same condition `Proxy` implements
  `RequestService`. Every step is mapped under `CorrelationInv`, where the open
  requests are exactly the registered TIDs: `HandleGsupRequest` is an `Ask`,
  `HandleMapAnswer` settles one request, `NackAllPendingTransactions` all and
  `Tick` the expired ones, the rest leaves what the SGSNs see unchanged.
- `HlrAtMostOnce`: `HlrAnsweredOnce`. `HlrInv` adds that an entry of `hlrTx_` is
  under the IMSI of the Invoke it names and carries its invoke id, as cast, so no two
  entries name the same Invoke, and that every broadcast is an Invoke received.
- `PendingStable`: `PendingUntouched`, a step property, from `TypeOK`. It needs
  no assumption on TIDs: `emplace` is what keeps a pending transaction when the
  counter wraps into it.

`NoTidReuse` is needed: after a wrap into a pending TID two requests share one
transaction. In the program the counter has 2^32 - 1 values and a transaction
lives about 35 s, so a collision of live TIDs takes more than 10^8 requests per
second; the theorem's condition is stronger, as late answers may be arbitrarily
late.

### MapTransport

`TransportTypes`, `NeverStuckAlways`, `NothingStrandedAlways`, for every set of
faults and chunks and all bounds. `NeverStuck` and `NothingStranded` are not
inductive, since a handler acts on the variables and not on what caused it to be
queued. `IInv` adds what ties the two together:

- `writing_` says exactly whether `writeQueue_` is empty. Otherwise `enqueue`
  might not start the write that `NothingStranded` promises.
- Nothing is outstanding on a closed socket, and a stopped transport's socket is
  closed. So a `close()` leaves every operation in the queue, as a failed
  handler, and a read watches a connection or is due to fail.
- A running, disconnected transport has a reconnect scheduled or due. Every error
  branch establishes it; `connect()` is the only step that takes the reconnect
  away, and it leaves `Disconnected`. Without it, the read that ends quietly when
  it finds `Disconnected` could be the last one to watch.

The queue is only ever looked at through "some handler of this operation is due"
and "one that failed is due" (`HasOp`, `HasFailed`), and one lemma says what an
append, a concatenation and a tail do to these (`Keeps`).

### IpaServer

`ServerTypes`, `RoutesToReadyAlways`, `IdentifiedFirstAlways`,
`OneWriteInFlightAlways`, `WatchedAlways`, for any number of sessions, any chunks
and all bounds. `IInv` says it of each session separately (`SessionInv`) and adds
that a session in `allSessions_` has not stopped, that a Ready session has
identified itself, and that a queued `enqueue` names a session that has
(`GoodQueue`). The first is why a stopped session that becomes Ready again does
not spoil the routing table: it left `allSessions_` before. The last is needed because
`send` looks at the state and only posts the enqueue: the session must not be
able to lose its handshake in between. Handlers are counted (`CountIn`), and
`stop()` aborts an operation of a session at most once in whatever order the
sessions are visited (`CountInOrder`).

### The program

- `ProgramImplementsProxy`: the steps of `GsupMapProxy` are steps of `Proxy`, or
  leave its variables alone. What is inductive for `Proxy` is therefore inductive
  for the program: `TypeOK` and `CorrelationInv` are reused and not proved again.
- `ProgramServes`: with `NoTidReuse` the program implements `RequestService`, the
  two refinements composed: program steps are `Proxy` steps (under `SessionsOK`,
  since the ClientId of a request must be one of `Client`), and those are steps of
  the service (under `CorrelationInv`).
- `NackedStaysOff`: `NackedNotOnActiveLink`, with TIDs reused or not. `LinkInv`:
  unless the socket is closed or being opened, every posted send of a nacked
  request has an `onConnect` queued behind it. A nack closes the socket, so it
  holds when the request is nacked; a completed connect queues its `onConnect`
  behind everything that is there; and a queue that is served keeps it.
- `AskerAlone`: `HeardByAsker`, with `NoTidReuse`. `DeliveryInv`: an answer that
  is posted but not yet told is under way once, to the ClientId its request came
  with, which is the connection's number and is never given to another
  (`SessionsOK`); one that was told is not under way. It rests on `CorrelationInv`:
  that a request is answered once is what makes the answer in the queue unique.

Both invariants look at the queue through `Follows`: what a step leaves of the
queue keeps the promises of the old one, so that each action needs one lemma for
both.

### The stream decoders

- `IpaReassembles`, `M3uaReassembles`: of a stream that begins with an encoded
  message, whatever follows, `next()` returns the message and leaves exactly what
  follows; of any proper prefix of a message it keeps every octet and returns
  nothing. Together they say that TCP's segments do not matter, which the `wire`
  run tries with four sizes of reads.
- `IpaProgress`, `M3uaProgress`: on any buffer, well-formed or not, what `next()`
  takes is a prefix, and what it returns is what that prefix encodes (for IPA,
  exactly the octets `encode` writes; for M3UA, what `decode` makes of it). A
  message takes at least a header's octets, so the loops over `next()` end. An M3UA
  length below 8 takes as many octets as it says and returns nothing, so a length
  of 0 leaves the decoder where it is.

The limits are those of the decoders: 4095 octets of IPA payload, 64 KiB of M3UA
message. `IpaCodec::encode` accepts sixteen times as much, which its own decoder
would refuse. The proofs go through the numbers in network order (`WrittenTwo`,
`WrittenFour`, `ReadTwo`) and the pieces of a sequence (`TakenAndLeft`,
`FrameAndRest`).

### Loops over data

`Iteration` has the two lemmas all proofs about a decoder's loop need. It is
parameterised by the loop's body and by what a turn is to keep, and a proof
instantiates it: the library's induction rules take an operator as a parameter,
which the provers cannot instantiate, but an `INSTANCE` can.

- `LoopPath`: if no turn throws, the loop yields exactly what its turns lead to.
- `LoopKeeps`: what every turn keeps holds of all the loop yields.

Both are inductions over the number of turns, done once for a set of numbers
(`SetInduction`, from the well-foundedness of `<`).

### The codecs, there and back

- `AddressRoundTrip`: `decodeAddress` after `encodeAddress` gives back a title of
  any length, digit for digit. The code keeps the parity in two places, the
  encoding scheme and the indicator of the nature of the address, and reads the
  second one.
- `UdtRoundTrip`: a UDT's two addresses and its data come back, for all titles
  whose packed digits fit in front of the data's one-octet pointer (242 octets
  together). Data of more than 255 octets is cut to its length modulo 256: what
  the length octet says.
- `DataRoundTrip`: all fields of a DATA message come back, with or without a
  routing context and whatever follows it in the stream, up to 64 KiB;
  `M3uaDecoder` throws for a longer one, which `encode` writes nevertheless.
- `BerRoundTrip`: `readTlv` gives back the element `writeTlv` wrote and leaves
  exactly what follows it, for any tag and up to 65535 octets: `writeLength` has
  three forms (one, two and three octets) and `readLength` reads the count of the
  length octets from the first.

### The wire

- `FrameAddressed`: of a frame of `MapTransport::send` the gateway reads the
  configured addresses and the payload, cut as above.
- `WireAddressed`: `HlrAddressed` holds of `DataPath!Spec`, for all messages the
  peers may send, all cuts of the streams and all bounds.

Both suppose `Configured`: the titles have digits only, fit in a UDT, and the
routing context, if there is one, has 32 bits. The code enforces none of it. The
fit is far from any E.164 number of 15 digits; that there are digits only is what
the `+` of the default title violates, and the run `globaltitle` is the
counterexample.

`HlrAddressed` alone is not inductive: what the HLR reads depends on the octets of
the payload, these on the message that the converter made, and that one on what a
decoder returned for octets which arrived in pieces, or, for a result, on what
`hlrTx_` remembers of an earlier Invoke. `WireInv` adds that both streams and both
decoders' buffers are octets (nothing is said of their content), that `tidCounter_`
is a natural number, and that every entry of `hlrTx_` has identifiers that can be
encoded. The argument then follows the data:

1. `GsupDecoded`, `MapDecoded`: whatever octets a decoder is given, the fields the
   proxy uses of what it returns are what they should be: octets in every octet
   string and one-octet field, an invoke id of eight bits. Each loop of the
   decoders is an instance of `Iteration`, from the elements of one vector to the
   fields of a TCAP message.
2. `RequestOut`, `ResultOut`: the converter makes of such a message one whose
   fields can be encoded, and by `MapEncoded` its encoding is octets, far fewer than
   an M3UA length can count.
3. `FrameAddressed` says how such a payload is read, and `RequestSound`,
   `ResponseSound`, `MapSound` that a handler hands on nothing else.
4. `DrainSound`: so does the loop over `next()`, for any number of messages in a
   read, by `LoopKeeps` once more.

### What the proofs rest on

The assumptions are the modules' own on their constants (named `ASSUME`s, which TLC
evaluates in every run) and `NoTidReuse` where a theorem says so. The bounds
`MaxRequests`, `MaxHlrInvokes`, `MaxSessions`, `MaxQueue`, `MaxReady`, `MaxTimers`,
`MaxConnects`, `MaxSent` and `MaxTotal` are constants of the specifications; the
theorems hold for every value of them. `WireAddressed` and `FrameAddressed` suppose
`Configured` besides. Each inductive invariant was checked by TLC, as an invariant,
on the instance of the component's run before it was proved.

Only model-checked:

- the liveness properties (`EveryRequestSettles`, `HlrTableDrains`, `Retries`,
  `AskerHears`): the prover has no rule for fairness;
- `Translated` and `NothingHeldBack` of `DataPath`. They compare what was said with
  what was heard, so they need the round trip of every field of every message
  through `GsupCodec`, `MessageConverter` and `MapCodec`, of which only the SCCP and
  M3UA layers are proved here; and they hold of peers that send what `MCDataPath`
  has, not of all messages: one whose MAP encoding passes 255 octets is cut by the
  UDT's length octet (`UdtRoundTrip`) and is not heard as it was said;
- that the runs with a counterexample have one.

## 5. Not modelled

- Logging, command line and signals; the choice between TCP and SCTP;
  `isdnToBcd` and `bcdToIsdn`, which nothing calls.
- Malformed input on the wire. The decoders have their error branches, but the
  peers of `DataPath` send well-formed messages (an XUDT and the messages the
  converter refuses among them); what an exception does to the process is in
  `MapTransport` and `IpaServer`. A UDT whose address ends early makes
  `decodeUdt` read past a buffer; that outcome is left out.
- The exception of `IpaCodec::encode` at a payload of more than 65535 octets: what
  the proxy encodes came through a UDT of 255.
- Numbers are TLC's, of 32 bits: TIDs on the wire stay below 2^31.
- PDP contexts are decoded and encoded but never relayed by the converter, so no
  property is about them.
- In the composition: HLR-initiated Invokes and `stop()`, which `Proxy` and
  `MapTransport` have.

## 6. Plan

1. The round trip of a sequence of `BerCodec`'s elements (`readTlvs`, from
   `BerRoundTrip`) and of an IMSI (`bcdToImsi` after `packBcd`) with `LoopPath`,
   then of one MAP operation at a time; with those, `Translated` for messages of
   up to 255 octets.
2. Invokes of the HLR in `GsupMapProxy`.
