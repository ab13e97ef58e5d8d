------------------------------- MODULE Proxy -------------------------------
(***************************************************************************)
(* proxy/Proxy: the coordinator between the SGSN-facing and the HLR-facing  *)
(* transport.  Every handler runs to completion on the one io_context       *)
(* thread, so every handler is one action.  A handler that returns without  *)
(* changing anything (a message that does not decode, an answer for no      *)
(* pending transaction, an Invoke with an operation the converter rejects,  *)
(* a TCAP Abort or Reject, which map::decode reports as such an Invoke) is  *)
(* a stuttering step and has no action.                                     *)
(*                                                                          *)
(* The transports are asynchronous and lossy.  A MAP Invoke or a broadcast  *)
(* GSUP request that was handed to one stays in invokes or broadcasts for   *)
(* ever: the peer may answer it at any time, more than once, or never.      *)
(***************************************************************************)
EXTENDS Converter, TransactionManager, Sequences

CONSTANTS Client,         \* ClientIds of the SGSN sessions
          SgsnTypes,      \* GSUP types the SGSNs send on their own account
          HlrProcs,       \* procedures the HLR starts
          HlrTimeout,     \* expireHlrTransactions' timeout
          HlrInvokeId,    \* invoke ids the HLR chooses for its Invokes
          HlrConforms,    \* the HLR answers with the operation it was asked
          HlrBundles,     \* the HLR may send components in front of an answer
          HlrSerial,      \* the HLR starts one operation per IMSI at a time
          MaxRequests,    \* bound on the GSUP requests of a behaviour
          MaxHlrInvokes   \* bound on the HLR's Invokes of a behaviour

ASSUME SgsnTypesAssumption ==
    /\ SgsnTypes \subseteq MessageType
    /\ \A t \in SgsnTypes : ~isHlrInitiatedGsupType(t)
ASSUME HlrProcsAssumption == HlrProcs \subseteq MapInvokeProcs
ASSUME HlrTimeoutAssumption == HlrTimeout \in Nat
ASSUME HlrInvokeIdAssumption == HlrInvokeId \subseteq -128 .. 127
ASSUME HlrAssumption ==
    HlrConforms \in BOOLEAN /\ HlrBundles \in BOOLEAN /\ HlrSerial \in BOOLEAN
ASSUME BoundsAssumption == MaxRequests \in Nat /\ MaxHlrInvokes \in Nat

VARIABLES pendingOps_,  \* TID -> MAP operation
          hlrTx_,       \* IMSI -> HlrTxEntry
          invokes,      \* MAP Invokes handed to hlrTransport_
          broadcasts    \* HLR Invokes broadcast through sgsnTransport_

(* History: what was asked and what was answered, in either direction.      *)
VARIABLES requests,     \* the GSUP requests in order of arrival
          owner,        \* TID -> the request that registered it last
          answers,      \* request -> the GSUP answers sent to it
          dropped,      \* requests whose answer could not be built
          hlrInvokes,   \* the Invokes of the HLR; the index is their TID
          hlrAnswers    \* HLR Invoke -> the MAP answers sent to it

sgsnHistory == <<requests, owner, answers, dropped>>
hlrHistory == <<hlrInvokes, hlrAnswers>>
vars == <<txMgrVars, pendingOps_, hlrTx_, invokes, broadcasts,
          sgsnHistory, hlrHistory>>

(* The operations the HLR may start.                                        *)
HlrOperation == {OperationOf[p] : p \in MapInvokeProcs}

HlrTxEntry == [mapTransactionId : Nat, mapInvokeId : DecodedInvokeId,
               mapOperation : MapOperation, age : 0 .. HlrTimeout + 1]

Init ==
    /\ TxMgrInit
    /\ pendingOps_ = EmptyMap
    /\ hlrTx_ = EmptyMap
    /\ invokes = {}
    /\ broadcasts = {}
    /\ requests = <<>>
    /\ owner = EmptyMap
    /\ answers = <<>>
    /\ dropped = {}
    /\ hlrInvokes = <<>>
    /\ hlrAnswers = <<>>

-----------------------------------------------------------------------------
(* SGSN-initiated requests.                                                 *)

(* handleGsupPayload after decoding, for a request it can convert: register *)
(* the transaction and its operation, hand the Invoke to the HLR transport. *)
(* The invoke id is the registered transaction's, not the one just drawn.   *)
ForwardRequest(tid, n, type, imsi, registered) ==
    /\ type \in GsupToMapTypes
    /\ transactions_' = registered
    /\ pendingOps_' = Assign(pendingOps_, tid, gsupToMap(type))
    /\ invokes' = invokes \cup
         {[req |-> n, tid |-> tid, invokeId |-> registered[tid].mapInvokeId,
           operation |-> gsupToMap(type), imsi |-> imsi]}
    /\ owner' = IF tid \in DOMAIN transactions_ THEN owner
                                                ELSE Assign(owner, tid, n)

(* Mutant: no complete() after a ConversionError.                          *)
RejectRequestUncompleted(tid, type, registered) ==
    /\ type \notin GsupToMapTypes
    /\ transactions_' = registered
    /\ UNCHANGED <<pendingOps_, invokes, owner>>

(* The same for a request gsupToMap rejects: the identifiers are spent, and *)
(* the sender is told nothing.                                              *)
RejectRequest(tid, type, registered) ==
    /\ type \notin GsupToMapTypes
    /\ transactions_' = Without(registered, {tid})
    /\ UNCHANGED <<pendingOps_, invokes, owner>>

HandleGsupRequest(client, type, imsi) ==
    LET tid        == nextTid
        n          == Len(requests) + 1
        registered == allocate(imsi, client)
    IN  /\ ~isHlrInitiatedGsupType(type)
        /\ Len(requests) < MaxRequests
        /\ CountersAdvance
        /\ \/ ForwardRequest(tid, n, type, imsi, registered)
           \/ RejectRequest(tid, type, registered)
        /\ requests' = Append(requests, [client |-> client, type |-> type,
                                         imsi |-> imsi, tid |-> tid])
        /\ answers' = Append(answers, <<>>)
        /\ UNCHANGED <<hlrTx_, broadcasts, dropped, hlrHistory>>

(* Mutant: the answer goes to some client.                                 *)
GsupAnswerMisdirected(tid, imsi, operation, component) ==
    [client |-> CHOOSE client \in Client : TRUE,
     imsi   |-> imsi,
     type   |-> mapToGsup(operation, component)]

(* The GSUP message sent to the SGSN for the transaction tid.               *)
GsupAnswer(tid, imsi, operation, component) ==
    [client |-> transactions_[tid].clientContext,
     imsi   |-> imsi,
     type   |-> mapToGsup(operation, component)]

(* An answer carries no IMSI and a ReturnError no operation.  Each comes    *)
(* from the tables, but only if no component in front of the answer has     *)
(* left another.                                                            *)
AnswerImsi(tid, front) ==
    IF front.imsi = NoImsi THEN transactions_[tid].imsi ELSE front.imsi

AnswerOperation(tid, component, carried, front) ==
    LET decoded == decodedOperation(component, carried, front)
    IN  IF decoded = "Unknown" /\ tid \in DOMAIN pendingOps_
          THEN pendingOps_[tid] ELSE decoded

(* handleMapPayload for a message that ends in a ReturnResult or            *)
(* ReturnError for Invoke i, and whose transaction is pending.  Conversion  *)
(* and encoding may fail; the transaction is over either way.               *)
HandleMapAnswer(i, component, carried, front, fits) ==
    LET tid       == i.tid
        imsi      == AnswerImsi(tid, front)
        operation == AnswerOperation(tid, component, carried, front)
    IN  /\ tid \in DOMAIN transactions_
        /\ IF mapToGsupAccepts(operation) /\ gsupEncodes(imsi, fits)
             THEN /\ answers' = [answers EXCEPT ![i.req] =
                       Append(@, GsupAnswer(tid, imsi, operation, component))]
                  /\ UNCHANGED dropped
             ELSE /\ dropped' = dropped \cup {i.req}
                  /\ UNCHANGED answers
        /\ pendingOps_' = Without(pendingOps_, {tid})
        /\ transactions_' = Without(transactions_, {tid})
        /\ UNCHANGED <<tidCounter_, invokeIdCounter_, hlrTx_, invokes,
                       broadcasts, requests, owner, hlrHistory>>

(* Mutant: the error is built without pendingOps_.                         *)
ErrorEncodesAsDecoded(tid) ==
    /\ mapToGsupAccepts(decodedOperation("ReturnError", pendingOps_[tid], Alone))
    /\ gsupEncodes(transactions_[tid].imsi, TRUE)

(* The error a transaction ends with when the HLR does not answer it; an    *)
(* answer that cannot be encoded is swallowed by catch (...) {}.            *)
ErrorEncodes(tid) ==
    /\ mapToGsupAccepts(pendingOps_[tid])
    /\ gsupEncodes(transactions_[tid].imsi, TRUE)

AnswerWithErrors(tids) ==
    /\ answers' = [n \in DOMAIN answers |->
         LET tid == requests[n].tid
         IN  IF tid \in tids /\ owner[tid] = n /\ ErrorEncodes(tid)
               THEN Append(answers[n],
                           GsupAnswer(tid, transactions_[tid].imsi,
                                      pendingOps_[tid], "ReturnError"))
               ELSE answers[n]]
    /\ dropped' = dropped \cup
         {owner[tid] : tid \in {t \in tids : ~ErrorEncodes(t)}}

(* Mutant: no complete() for the transactions that were answered.          *)
NackAllUncompleted ==
    LET nacked == DOMAIN pendingOps_ \cap DOMAIN transactions_
    IN  /\ AnswerWithErrors(nacked)
        /\ pendingOps_' = EmptyMap
        /\ UNCHANGED <<txMgrVars, hlrTx_, invokes, broadcasts, requests,
                       owner, hlrHistory>>

(* The disconnect callback of the HLR transport.  hlrTx_ is left alone.     *)
NackAllPendingTransactions ==
    LET nacked == DOMAIN pendingOps_ \cap DOMAIN transactions_
    IN  /\ AnswerWithErrors(nacked)
        /\ transactions_' = Without(transactions_, nacked)
        /\ pendingOps_' = EmptyMap
        /\ UNCHANGED <<tidCounter_, invokeIdCounter_, hlrTx_, invokes,
                       broadcasts, requests, owner, hlrHistory>>

-----------------------------------------------------------------------------
(* HLR-initiated operations.                                                *)

(* handleHlrInitiated for a message that ends in an Invoke: operation and   *)
(* IMSI are those map::decode leaves, whatever is in front of it.  The      *)
(* entry of the IMSI is overwritten, and erased again when the GSUP request *)
(* cannot be encoded.                                                       *)
HandleHlrInitiated(proc, imsi, invokeId, fits) ==
    LET operation == OperationOf[proc]
        k         == Len(hlrInvokes) + 1
    IN  /\ Len(hlrInvokes) < MaxHlrInvokes
        /\ HlrSerial => imsi \notin DOMAIN hlrTx_
        /\ IF gsupEncodes(imsi, fits)
             THEN /\ hlrTx_' = Assign(hlrTx_, imsi,
                        [mapTransactionId |-> k,
                         mapInvokeId |-> decodedInvokeId(invokeId),
                         mapOperation |-> operation, age |-> 0])
                  /\ broadcasts' = broadcasts \cup {k}
             ELSE /\ hlrTx_' = Without(hlrTx_, {imsi})
                  /\ UNCHANGED broadcasts
        /\ hlrInvokes' = Append(hlrInvokes,
                [operation |-> operation, imsi |-> imsi, invokeId |-> invokeId])
        /\ hlrAnswers' = Append(hlrAnswers, <<>>)
        /\ UNCHANGED <<txMgrVars, pendingOps_, invokes, sgsnHistory>>

(* handleGsupHlrResponse for an SGSN's answer to broadcast k.  The entry is *)
(* found by IMSI alone: neither its operation nor the sender is compared.   *)
HandleGsupHlrResponse(k, dir) ==
    LET imsi   == hlrInvokes[k].imsi
        type   == [proc |-> mapInvokeToGsup(hlrInvokes[k].operation).proc,
                   dir |-> dir]
        entry  == hlrTx_[imsi]
        result == gsupToMapResult(type)
    IN  /\ imsi \in DOMAIN hlrTx_
        /\ hlrTx_' = Without(hlrTx_, {imsi})
        /\ hlrAnswers' = [hlrAnswers EXCEPT ![entry.mapTransactionId] =
             Append(@, [invokeId |-> entry.mapInvokeId,
                        operation |-> decodedOperation(result.component,
                                                       result.operation, Alone),
                        from |-> k])]
        /\ UNCHANGED <<txMgrVars, pendingOps_, invokes, broadcasts,
                       sgsnHistory, hlrInvokes>>

-----------------------------------------------------------------------------
(* Time.                                                                    *)

(* Mutant: the tick forgets expireSgsnTransactions.                        *)
TickHlrOnly ==
    /\ hlrTx_' = Without(hlrTx_,
                   {i \in DOMAIN hlrTx_ : hlrTx_[i].age > HlrTimeout})
    /\ UNCHANGED <<txMgrVars, pendingOps_, invokes, broadcasts, sgsnHistory,
                   hlrHistory>>

(* Mutant: the tick forgets expireHlrTransactions.                         *)
TickSgsnOnly ==
    /\ AnswerWithErrors(expireStale \cap DOMAIN pendingOps_)
    /\ transactions_' = Without(transactions_, expireStale)
    /\ pendingOps_' = Without(pendingOps_, expireStale)
    /\ UNCHANGED <<tidCounter_, invokeIdCounter_, hlrTx_, invokes, broadcasts,
                   requests, owner, hlrHistory>>

(* main's expiry timer, every 5 s: expireSgsnTransactions, then             *)
(* expireHlrTransactions, which tells nobody.  An expired transaction       *)
(* without an operation is removed without an answer.                       *)
Tick ==
    /\ AnswerWithErrors(expireStale \cap DOMAIN pendingOps_)
    /\ transactions_' = Without(transactions_, expireStale)
    /\ pendingOps_' = Without(pendingOps_, expireStale)
    /\ hlrTx_' = Without(hlrTx_,
                   {i \in DOMAIN hlrTx_ : hlrTx_[i].age > HlrTimeout})
    /\ UNCHANGED <<tidCounter_, invokeIdCounter_, invokes, broadcasts,
                   requests, owner, hlrHistory>>

(* The clock advances; a tick may come late, so nothing bounds it.          *)
Elapse ==
    /\ transactions_' = Older(transactions_, Timeout)
    /\ hlrTx_' = Older(hlrTx_, HlrTimeout)
    /\ UNCHANGED <<tidCounter_, invokeIdCounter_, pendingOps_, invokes,
                   broadcasts, sgsnHistory, hlrHistory>>

-----------------------------------------------------------------------------

(* What the components in front of an answer may leave in it.  The          *)
(* operation of a ReturnResult replaces theirs.                             *)
Fronts(component) ==
    IF HlrBundles
      THEN [imsi : Imsi \cup {NoImsi},
            operation : IF component = "ReturnError" THEN MapOperation
                                                     ELSE {"Unknown"}]
      ELSE {Alone}

(* The operation an answer to i carries; what a ReturnError is given here   *)
(* is not read.                                                             *)
Carried(i, component) ==
    IF HlrConforms \/ component = "ReturnError" THEN {i.operation}
                                                ELSE MapOperation

(* The fields to fit are those of the operation the answer carries, or,     *)
(* when they may come from the components in front, of the one converted.   *)
AnswerFits(i, component, carried, front) ==
    FitChoices(component, IF HlrBundles
                            THEN AnswerOperation(i.tid, component, carried, front)
                            ELSE carried)

HlrAnswersInvoke(i) ==
    \E component \in {"ReturnResult", "ReturnError"} :
      \E front \in Fronts(component), carried \in Carried(i, component) :
        \E fits \in AnswerFits(i, component, carried, front) :
          HandleMapAnswer(i, component, carried, front, fits)

HlrAnswers == \E i \in invokes : HlrAnswersInvoke(i)

HlrInvokes ==
    \E proc \in HlrProcs, imsi \in Imsi, invokeId \in HlrInvokeId :
      \E fits \in FitChoices("Invoke", OperationOf[proc]) :
        HandleHlrInitiated(proc, imsi, invokeId, fits)

Next ==
    \/ \E client \in Client, type \in SgsnTypes, imsi \in Imsi :
         HandleGsupRequest(client, type, imsi)
    \/ HlrAnswers
    \/ NackAllPendingTransactions
    \/ HlrInvokes
    \/ \E k \in broadcasts, dir \in {"Result", "Error"} :
         HandleGsupHlrResponse(k, dir)
    \/ Tick
    \/ Elapse

(* The clock runs, and the expiry timer re-arms itself after every tick.    *)
Spec == Init /\ [][Next]_vars /\ WF_vars(Elapse) /\ WF_vars(Tick)

(* No TID is drawn twice in the life of the process.                        *)
NoTidReuse == MaxRequests < TidSpace

(* The HLR answers the operation it was asked, in a message of its own.     *)
HlrPlain == HlrConforms /\ ~HlrBundles

-----------------------------------------------------------------------------
(* Properties.                                                              *)

Answer == [client : Client, imsi : Imsi, type : MessageType]

(* Every variable has its type.  No transaction is ever registered under    *)
(* TID 0 or with an invoke id outside 1..127, and the tables never refer to *)
(* a request or to an Invoke of the HLR that was not received.              *)
TxTypeOK ==
    /\ tidCounter_ \in 0 .. TidSpace - 1
    /\ invokeIdCounter_ \in 1 .. MaxInvokeId + 1
    /\ DOMAIN transactions_ \subseteq Tid
    /\ \A tid \in DOMAIN transactions_ :
         transactions_[tid] \in PendingTransaction(Imsi, Client)
    /\ DOMAIN pendingOps_ \subseteq Tid
    /\ \A tid \in DOMAIN pendingOps_ : pendingOps_[tid] \in MapOperation

SgsnTypeOK ==
    /\ requests \in Seq([client : Client, type : SgsnTypes, imsi : Imsi,
                         tid : Tid])
    /\ invokes \subseteq [req : 1 .. Len(requests), tid : Tid,
                          invokeId : InvokeId, operation : MapOperation,
                          imsi : Imsi]
    /\ DOMAIN owner \subseteq Tid
    /\ DOMAIN transactions_ \subseteq DOMAIN owner
    /\ \A tid \in DOMAIN owner : owner[tid] \in 1 .. Len(requests)
    /\ answers \in Seq(Seq(Answer))
    /\ Len(answers) = Len(requests)
    /\ dropped \subseteq 1 .. Len(requests)

HlrTypeOK ==
    /\ hlrInvokes \in Seq([operation : HlrOperation, imsi : Imsi,
                           invokeId : HlrInvokeId])
    /\ hlrAnswers \in Seq(Seq([invokeId : DecodedInvokeId,
                               operation : MapOperation,
                               from : 1 .. Len(hlrInvokes)]))
    /\ Len(hlrAnswers) = Len(hlrInvokes)
    /\ broadcasts \subseteq 1 .. Len(hlrInvokes)
    /\ DOMAIN hlrTx_ \subseteq Imsi
    /\ \A imsi \in DOMAIN hlrTx_ :
         /\ hlrTx_[imsi] \in HlrTxEntry
         /\ hlrTx_[imsi].mapTransactionId \in 1 .. Len(hlrInvokes)

TypeOK == TxTypeOK /\ SgsnTypeOK /\ HlrTypeOK

(* A pending transaction has an operation, and an operation has a pending   *)
(* transaction: txMgr_ and pendingOps_ are always updated together, so no   *)
(* transaction expires without an answer and no operation leaks.            *)
MapsInSync == DOMAIN pendingOps_ = DOMAIN transactions_

Forwarded(n) == requests[n].type \in GsupToMapTypes

Pending(n) ==
    /\ requests[n].tid \in DOMAIN transactions_
    /\ owner[requests[n].tid] = n

Refused(r) ==
    \/ r.imsi \in LongImsi
    \/ FALSE \in FitChoices("ReturnResult", gsupToMap(r.type))

Unencodable(n) == Refused(requests[n])

(* As long as no TID is used twice, the TID is the number of the request:   *)
(* what is registered under it, the operation kept beside it and every      *)
(* Invoke that carries it belong to that request and agree with it.         *)
TidsCorrelate ==
    /\ Len(requests) <= MaxRequests
    /\ Len(requests) < MaxRequests => tidCounter_ = Len(requests) + 1
    /\ \A n \in 1 .. Len(requests) : requests[n].tid = n
    /\ \A tid \in DOMAIN owner : owner[tid] = tid
    /\ \A tid \in DOMAIN transactions_ :
         /\ tid \in DOMAIN owner
         /\ Forwarded(tid)
         /\ transactions_[tid].clientContext = requests[tid].client
         /\ transactions_[tid].imsi = requests[tid].imsi
         /\ pendingOps_[tid] = gsupToMap(requests[tid].type)
    /\ \A i \in invokes :
         /\ i.req = i.tid
         /\ i.tid \in DOMAIN owner
         /\ Forwarded(i.req)
         /\ i.operation = gsupToMap(requests[i.req].type)

(* Every request handed to the HLR is in exactly one of three places: still *)
(* pending, answered exactly once, or given up because no answer could be   *)
(* encoded.  A late or repeated answer of the HLR, an expiry and a          *)
(* disconnect never answer a request twice between them, and never lose it. *)
Accounted ==
    \A n \in 1 .. Len(requests) :
      IF ~Forwarded(n) THEN answers[n] = <<>> /\ n \notin dropped
      ELSE \/ Pending(n) /\ answers[n] = <<>> /\ n \notin dropped
           \/ ~Pending(n) /\ Len(answers[n]) = 1 /\ n \notin dropped
           \/ /\ ~Pending(n) /\ answers[n] = <<>> /\ n \in dropped
              /\ HlrPlain => Unencodable(n)

(* Whatever the HLR sends, the answer to a request goes to the SGSN that    *)
(* asked.  It is about the subscriber it asked for as long as the HLR sends *)
(* its answers alone: the IMSI of an Invoke in front of an answer would be  *)
(* taken for the answer's.                                                  *)
RightClient ==
    \A n \in 1 .. Len(requests) : \A j \in 1 .. Len(answers[n]) :
      /\ answers[n][j].client = requests[n].client
      /\ ~HlrBundles => answers[n][j].imsi = requests[n].imsi

(* With an HLR that answers the operation it was asked, in a message of its *)
(* own, an answer is the result or the error of the procedure the SGSN      *)
(* requested, although a TCAP ReturnError does not say which operation      *)
(* failed.                                                                  *)
RightType ==
    HlrPlain =>
      \A n \in 1 .. Len(requests) : \A j \in 1 .. Len(answers[n]) :
        answers[n][j].type \in {expectedGsupResult(requests[n].type),
                                expectedGsupError(requests[n].type)}

(* The HLR gets at most one answer for each of its Invokes, none while the  *)
(* Invoke is still tracked, with the invoke id it chose as map::decode cast *)
(* it, and made from an SGSN's answer about the same subscriber.            *)
HlrAnsweredOnce ==
    /\ \A k \in 1 .. Len(hlrInvokes) :
         /\ Len(hlrAnswers[k]) <= 1
         /\ \A j \in 1 .. Len(hlrAnswers[k]) :
              /\ hlrAnswers[k][j].invokeId
                   = decodedInvokeId(hlrInvokes[k].invokeId)
              /\ hlrInvokes[hlrAnswers[k][j].from].imsi = hlrInvokes[k].imsi
    /\ \A imsi \in DOMAIN hlrTx_ :
         hlrAnswers[hlrTx_[imsi].mapTransactionId] = <<>>

(* README, HLR-initiated transactions: the IMSI correlates an SGSN's answer *)
(* with the Invoke it answers, as long as the HLR has at most one operation *)
(* active per IMSI.                                                         *)
HlrAnswerGenuine ==
    HlrSerial =>
      \A k \in 1 .. Len(hlrInvokes) : \A j \in 1 .. Len(hlrAnswers[k]) :
        hlrAnswers[k][j].from = k

(* The request service as the proxy offers it: a request is open while its  *)
(* transaction is registered.                                               *)
ServiceRequest == [client : Client, type : SgsnTypes, imsi : Imsi, tid : Tid]

Service == INSTANCE RequestService WITH
    Request     <- ServiceRequest,
    Accepted    <- {r \in ServiceRequest : r.type \in GsupToMapTypes},
    Refusable   <- {r \in ServiceRequest : HlrPlain => Refused(r)},
    AnswerImsis <- [i \in Imsi |-> IF HlrBundles THEN Imsi ELSE {i}],
    AnswerTypes <- [t \in SgsnTypes |->
                      IF HlrPlain
                        THEN {expectedGsupResult(t), expectedGsupError(t)}
                        ELSE MessageType],
    open        <- {n \in DOMAIN requests : Pending(n)}

(* The proxy implements the request service: a request is open from the     *)
(* moment handleGsupPayload registers it until a MAP answer, the expiry     *)
(* tick or the disconnect of the HLR removes its transaction, and whatever  *)
(* the HLR sends, each of these steps answers exactly the requests whose    *)
(* transactions it removes.  Only a request whose answer may not fit in     *)
(* GSUP goes unanswered, unless the HLR answers with another operation or   *)
(* with components in front, which may also change the subscriber and the   *)
(* type of an answer.                                                       *)
ImplementsService == Service!Safety

(* A pending transaction is never redirected: as long as its TID is         *)
(* registered it belongs to the same client, subscriber and invoke id, and  *)
(* it only grows older.  It also holds when TIDs wrap around into TIDs that *)
(* are still pending.                                                       *)
PendingUntouched ==
    [][\A tid \in DOMAIN transactions_ \cap DOMAIN transactions_' :
         /\ transactions_'[tid].age >= transactions_[tid].age
         /\ [transactions_'[tid] EXCEPT !.age = 0]
              = [transactions_[tid] EXCEPT !.age = 0]]_vars

(* Every request handed to the HLR is eventually answered or given up, even *)
(* when the HLR never answers: the expiry timer sees to it.                 *)
EveryRequestSettles ==
    \A n \in 1 .. MaxRequests :
      (n \in DOMAIN requests /\ Forwarded(n))
        ~> (n \in DOMAIN answers /\ (answers[n] # <<>> \/ n \in dropped))

(* No Invoke of the HLR is tracked for ever, even when no SGSN answers it.  *)
HlrTableDrains ==
    \A k \in 1 .. MaxHlrInvokes :
      (\E imsi \in DOMAIN hlrTx_ : hlrTx_[imsi].mapTransactionId = k)
        ~> (\A imsi \in DOMAIN hlrTx_ : hlrTx_[imsi].mapTransactionId # k)
=============================================================================
