---------------------------- MODULE ProxyProofs ----------------------------
(***************************************************************************)
(* Proofs about module Proxy.                                               *)
(***************************************************************************)
EXTENDS Proxy, TLAPS

-----------------------------------------------------------------------------
(* The tables.                                                              *)

LEMMA EmptyMapFacts == DOMAIN EmptyMap = {}
  BY DEF EmptyMap

(* The empty sequence has no index; a sequence of one element has one.     *)
LEMMA EmptyIndices == \A j \in 1 .. Len(<<>>) : FALSE
<1>1. Len(<<>>) = 0
  OBVIOUS
<1> QED
  BY <1>1

LEMMA SingleIndex ==
  ASSUME NEW a
  PROVE  Append(<<>>, a) = <<a>> /\ Len(<<a>>) = 1 /\ <<a>>[1] = a
  OBVIOUS

(* A function on 1 .. m is a sequence of length m.                          *)
LEMMA FunctionIsSeq ==
  ASSUME NEW S, NEW m \in Nat, NEW f \in [1 .. m -> S]
  PROVE  f \in Seq(S) /\ Len(f) = m
  OBVIOUS

-----------------------------------------------------------------------------
(* The converter.                                                           *)

(* Each switch of the converter maps a procedure to a MAP operation.        *)
LEMMA OperationOfType == \A p \in Procedure : OperationOf[p] \in MapOperation
  BY DEF OperationOf, Procedure, MapOperation

(* The operation a request was converted to is one that mapToGsup converts  *)
(* back, to the answer of the same procedure.                               *)
LEMMA ConverterRoundTrip ==
  ASSUME NEW type \in GsupToMapTypes, NEW component
  PROVE  /\ mapToGsupAccepts(gsupToMap(type))
         /\ gsupToMap(type) # "Unknown"
         /\ gsupToMap(type) \in MapOperation
         /\ mapToGsup(gsupToMap(type), component)
              \in {expectedGsupResult(type), expectedGsupError(type)}
<1>1. /\ type.proc \in MapToGsupProcs
      /\ type.proc \in Procedure
  BY DEF GsupToMapTypes, MapToGsupProcs, Procedure
<1>2. \A p, q \in MapToGsupProcs :
        OperationOf[p] = OperationOf[q] => p = q
  BY DEF OperationOf, MapToGsupProcs, Procedure
<1>3. \A p \in MapToGsupProcs : OperationOf[p] # "Unknown"
  BY DEF OperationOf, MapToGsupProcs, Procedure
<1>4. (CHOOSE p \in MapToGsupProcs : OperationOf[p] = gsupToMap(type))
        = type.proc
  BY <1>1, <1>2 DEF gsupToMap
<1> QED
  BY <1>1, <1>3, <1>4, OperationOfType
     DEF gsupToMap, mapToGsupAccepts, mapToGsup, expectedGsupResult,
         expectedGsupError

(* What mapToGsup returns is a GSUP message type.                           *)
LEMMA MapToGsupType ==
  ASSUME NEW operation, NEW component, mapToGsupAccepts(operation)
  PROVE  mapToGsup(operation, component) \in MessageType
<1>1. (CHOOSE p \in MapToGsupProcs : OperationOf[p] = operation)
         \in MapToGsupProcs
  BY DEF mapToGsupAccepts
<1> QED
  BY <1>1 DEF mapToGsup, MessageType, Procedure, Direction, MapToGsupProcs

(* An operation the HLR may start is converted to and from GSUP.            *)
LEMMA InvokeTypes ==
  \A p \in MapInvokeProcs : p \in Procedure /\ OperationOf[p] \in MapOperation
  BY OperationOfType DEF MapInvokeProcs, Procedure

-----------------------------------------------------------------------------
(* Type correctness, for all values of the constants.                       *)

USE ImsiAssumption, TidSpaceAssumption, MaxInvokeIdAssumption,
    TimeoutAssumption, SgsnTypesAssumption, HlrProcsAssumption,
    HlrTimeoutAssumption, HlrAssumption, BoundsAssumption

(* The cast of an invoke id of the HLR gives an octet.                      *)
LEMMA InvokeIdCast ==
  ASSUME NEW id \in HlrInvokeId
  PROVE  decodedInvokeId(id) \in DecodedInvokeId
  BY HlrInvokeIdAssumption DEF decodedInvokeId, DecodedInvokeId

LEMMA InitTypes == Init => TypeOK
  BY EmptyMapFacts
     DEF Init, TxMgrInit, TypeOK, TxTypeOK, SgsnTypeOK, HlrTypeOK

(* What an allocation registers is a transaction under a valid TID.         *)
LEMMA AllocateTypes ==
  ASSUME TxTypeOK, NEW imsi \in Imsi, NEW client \in Client
  PROVE  /\ nextTid \in Tid
         /\ nextInvokeId \in InvokeId
         /\ DOMAIN allocate(imsi, client) = DOMAIN transactions_ \cup {nextTid}
         /\ \A tid \in DOMAIN allocate(imsi, client) :
              allocate(imsi, client)[tid] \in PendingTransaction(Imsi, Client)
         /\ (nextTid + 1) % TidSpace \in 0 .. TidSpace - 1
         /\ nextInvokeId + 1 \in 1 .. MaxInvokeId + 1
<1>1. nextTid \in Tid /\ nextInvokeId \in InvokeId
  BY DEF TxTypeOK, nextTid, nextInvokeId, Tid, InvokeId
<1>2. (nextTid + 1) % TidSpace \in 0 .. TidSpace - 1
  BY <1>1 DEF Tid
<1>3. nextInvokeId + 1 \in 1 .. MaxInvokeId + 1
  BY <1>1 DEF InvokeId
<1> DEFINE new == [mapInvokeId |-> nextInvokeId, imsi |-> imsi,
                   clientContext |-> client, age |-> 0]
<1>4. new \in PendingTransaction(Imsi, Client)
  BY <1>1 DEF PendingTransaction, Age
<1> HIDE DEF new
<1>5. CASE nextTid \in DOMAIN transactions_
  BY <1>1, <1>2, <1>3, <1>5 DEF allocate, Emplace, TxTypeOK
<1>6. CASE nextTid \notin DOMAIN transactions_
  <2>1. allocate(imsi, client) = Assign(transactions_, nextTid, new)
    BY <1>6 DEF allocate, Emplace, new
  <2> QED
    BY <1>1, <1>2, <1>3, <1>4, <1>6, <2>1 DEF TxTypeOK, Assign
<1> QED
  BY <1>5, <1>6

LEMMA RequestTypes ==
  ASSUME TypeOK, NEW client \in Client, NEW type \in SgsnTypes,
         NEW imsi \in Imsi, HandleGsupRequest(client, type, imsi)
  PROVE  TypeOK'
<1> DEFINE n == Len(requests) + 1
           registered == allocate(imsi, client)
           r == [client |-> client, type |-> type, imsi |-> imsi,
                 tid |-> nextTid]
<1>0. /\ requests' = Append(requests, r)
      /\ answers' = Append(answers, <<>>)
      /\ CountersAdvance
      /\ UNCHANGED <<hlrTx_, broadcasts, dropped, hlrInvokes, hlrAnswers>>
      /\ \/ ForwardRequest(nextTid, n, type, imsi, registered)
         \/ RejectRequest(nextTid, type, registered)
  BY DEF HandleGsupRequest, hlrHistory
<1>a. /\ nextTid \in Tid
      /\ DOMAIN registered = DOMAIN transactions_ \cup {nextTid}
      /\ \A tid \in DOMAIN registered :
           registered[tid] \in PendingTransaction(Imsi, Client)
      /\ (nextTid + 1) % TidSpace \in 0 .. TidSpace - 1
      /\ nextInvokeId + 1 \in 1 .. MaxInvokeId + 1
  BY AllocateTypes DEF TypeOK
<1> HIDE DEF registered
<1>b. r \in [client : Client, type : SgsnTypes, imsi : Imsi, tid : Tid]
  BY <1>a
<1> HIDE DEF r
<1>c. /\ requests' \in Seq([client : Client, type : SgsnTypes, imsi : Imsi,
                            tid : Tid])
      /\ Len(requests') = Len(requests) + 1
      /\ Len(requests) \in Nat
  BY <1>0, <1>b DEF TypeOK, SgsnTypeOK
<1>d. /\ answers' \in Seq(Seq(Answer))
      /\ Len(answers') = Len(requests')
  <2>1. answers \in Seq(Seq(Answer)) /\ <<>> \in Seq(Answer)
    BY DEF TypeOK, SgsnTypeOK
  <2> QED
    BY <1>0, <1>c, <2>1 DEF TypeOK, SgsnTypeOK
<1>e. dropped' \subseteq 1 .. Len(requests')
  BY <1>0, <1>c DEF TypeOK, SgsnTypeOK
<1>f. HlrTypeOK'
  BY <1>0 DEF TypeOK, HlrTypeOK
<1>g. /\ tidCounter_' \in 0 .. TidSpace - 1
      /\ invokeIdCounter_' \in 1 .. MaxInvokeId + 1
  BY <1>0, <1>a DEF CountersAdvance
<1>1. CASE ForwardRequest(nextTid, n, type, imsi, registered)
  <2>1. gsupToMap(type) \in MapOperation
    BY <1>1, ConverterRoundTrip DEF ForwardRequest
  <2>2. TxTypeOK'
    BY <1>1, <1>a, <1>g, <2>1
       DEF TypeOK, TxTypeOK, ForwardRequest, Assign
  <2>3. registered[nextTid].mapInvokeId \in InvokeId
    BY <1>a DEF PendingTransaction
  <2>4. invokes' \subseteq [req : 1 .. Len(requests'), tid : Tid,
                            invokeId : InvokeId, operation : MapOperation,
                            imsi : Imsi]
    <3>1. SUFFICES ASSUME NEW i \in invokes'
                   PROVE  i \in [req : 1 .. Len(requests'), tid : Tid,
                                 invokeId : InvokeId,
                                 operation : MapOperation, imsi : Imsi]
      OBVIOUS
    <3>2. CASE i \in invokes
      BY <1>c, <3>2 DEF TypeOK, SgsnTypeOK
    <3>3. CASE i = [req |-> n, tid |-> nextTid,
                    invokeId |-> registered[nextTid].mapInvokeId,
                    operation |-> gsupToMap(type), imsi |-> imsi]
      BY <1>a, <1>c, <2>1, <2>3, <3>3
    <3> QED
      BY <1>1, <3>2, <3>3 DEF ForwardRequest
  <2>5. /\ DOMAIN owner' \subseteq Tid
        /\ DOMAIN transactions_' \subseteq DOMAIN owner'
        /\ \A tid \in DOMAIN owner' : owner'[tid] \in 1 .. Len(requests')
    <3>1. CASE nextTid \in DOMAIN transactions_
      BY <1>1, <1>a, <1>c, <3>1 DEF ForwardRequest, TypeOK, SgsnTypeOK
    <3>2. CASE nextTid \notin DOMAIN transactions_
      BY <1>1, <1>a, <1>c, <3>2
         DEF ForwardRequest, TypeOK, SgsnTypeOK, Assign
    <3> QED
      BY <3>1, <3>2
  <2> QED
    BY <1>c, <1>d, <1>e, <1>f, <2>2, <2>4, <2>5 DEF TypeOK, SgsnTypeOK
<1>2. CASE RejectRequest(nextTid, type, registered)
  <2>1. /\ DOMAIN transactions_' = DOMAIN transactions_ \ {nextTid}
        /\ \A tid \in DOMAIN transactions_' :
             transactions_'[tid] \in PendingTransaction(Imsi, Client)
        /\ UNCHANGED <<pendingOps_, invokes, owner>>
    BY <1>2, <1>a DEF RejectRequest, Without, Restrict
  <2> QED
    BY <1>c, <1>d, <1>e, <1>f, <1>g, <2>1 DEF TypeOK, TxTypeOK, SgsnTypeOK
<1> QED
  BY <1>0, <1>1, <1>2

(* Removing transactions and their operations keeps the types of both.      *)
LEMMA RemovalTypes ==
  ASSUME TypeOK, NEW K, NEW L,
         transactions_' = Without(transactions_, K),
         pendingOps_' = Without(pendingOps_, L),
         UNCHANGED <<tidCounter_, invokeIdCounter_, owner>>
  PROVE  /\ TxTypeOK'
         /\ DOMAIN transactions_' \subseteq DOMAIN owner'
  BY DEF TypeOK, TxTypeOK, SgsnTypeOK, Without, Restrict

(* What is sent for a pending transaction is an answer.                     *)
LEMMA GsupAnswerType ==
  ASSUME TypeOK, NEW tid \in DOMAIN transactions_, NEW imsi \in Imsi,
         NEW operation, NEW component, mapToGsupAccepts(operation)
  PROVE  GsupAnswer(tid, imsi, operation, component) \in Answer
<1>1. transactions_[tid] \in PendingTransaction(Imsi, Client)
  BY DEF TypeOK, TxTypeOK
<1>2. mapToGsup(operation, component) \in MessageType
  BY MapToGsupType
<1> QED
  BY <1>1, <1>2 DEF GsupAnswer, Answer, PendingTransaction

(* Whatever is in front of an answer, its subscriber is an IMSI.            *)
LEMMA AnswerImsiType ==
  ASSUME TypeOK, NEW tid \in DOMAIN transactions_, NEW component,
         NEW front \in Fronts(component)
  PROVE  AnswerImsi(tid, front) \in Imsi
<1>1. transactions_[tid].imsi \in Imsi
  BY DEF TypeOK, TxTypeOK, PendingTransaction
<1>2. front.imsi \in Imsi \cup {NoImsi}
  BY DEF Fronts, Alone
<1> QED
  BY <1>1, <1>2 DEF AnswerImsi

LEMMA MapAnswerTypes ==
  ASSUME TypeOK, NEW i \in invokes, NEW component, NEW carried,
         NEW front \in Fronts(component), NEW fits,
         HandleMapAnswer(i, component, carried, front, fits)
  PROVE  TypeOK'
<1>1. i.tid \in DOMAIN transactions_ /\ i.req \in 1 .. Len(requests)
  BY DEF HandleMapAnswer, TypeOK, SgsnTypeOK
<1>2. TxTypeOK' /\ DOMAIN transactions_' \subseteq DOMAIN owner'
  BY RemovalTypes DEF HandleMapAnswer
<1>3. HlrTypeOK'
  BY DEF HandleMapAnswer, hlrHistory, TypeOK, HlrTypeOK
<1>4. /\ answers' \in Seq(Seq(Answer))
      /\ Len(answers') = Len(answers)
      /\ dropped' \subseteq 1 .. Len(requests)
  <2>1. answers \in Seq(Seq(Answer)) /\ Len(answers) = Len(requests)
    BY DEF TypeOK, SgsnTypeOK
  <2>2. CASE UNCHANGED answers /\ dropped' = dropped \cup {i.req}
    BY <1>1, <2>1, <2>2 DEF TypeOK, SgsnTypeOK
  <2>3. ASSUME NEW operation, mapToGsupAccepts(operation),
               UNCHANGED dropped,
               answers' = [answers EXCEPT ![i.req] =
                             Append(@, GsupAnswer(i.tid, AnswerImsi(i.tid, front),
                                                  operation, component))]
        PROVE  /\ answers' \in Seq(Seq(Answer))
               /\ Len(answers') = Len(answers)
               /\ dropped' \subseteq 1 .. Len(requests)
    <3> DEFINE a == GsupAnswer(i.tid, AnswerImsi(i.tid, front), operation,
                               component)
    <3>1. a \in Answer
      BY <1>1, <2>3, GsupAnswerType, AnswerImsiType
    <3> HIDE DEF a
    <3>2. answers[i.req] \in Seq(Answer)
      BY <1>1, <2>1
    <3>3. Append(answers[i.req], a) \in Seq(Answer)
      BY <3>1, <3>2
    <3>4. answers' = [answers EXCEPT ![i.req] = Append(answers[i.req], a)]
      BY <2>3 DEF a
    <3>5. /\ answers' \in Seq(Seq(Answer))
          /\ Len(answers') = Len(answers)
      BY <1>1, <2>1, <3>3, <3>4
    <3> QED
      BY <2>3, <3>5 DEF TypeOK, SgsnTypeOK
  <2> QED
    BY <2>2, <2>3 DEF HandleMapAnswer
<1> QED
  BY <1>2, <1>3, <1>4 DEF HandleMapAnswer, TypeOK, SgsnTypeOK

(* Answering pending transactions with errors keeps the types of answers    *)
(* and dropped.                                                             *)
LEMMA ErrorAnswerTypes ==
  ASSUME TypeOK, NEW tids,
         tids \subseteq DOMAIN transactions_ \cap DOMAIN pendingOps_,
         AnswerWithErrors(tids)
  PROVE  /\ answers' \in Seq(Seq(Answer))
         /\ Len(answers') = Len(answers)
         /\ dropped' \subseteq 1 .. Len(requests)
<1>1. /\ answers \in Seq(Seq(Answer))
      /\ DOMAIN answers = 1 .. Len(answers)
      /\ Len(answers) \in Nat
  BY DEF TypeOK, SgsnTypeOK
<1>2. \A n \in 1 .. Len(answers) : answers'[n] \in Seq(Answer)
  <2> TAKE n \in 1 .. Len(answers)
  <2> DEFINE tid == requests[n].tid
             e == GsupAnswer(tid, transactions_[tid].imsi, pendingOps_[tid],
                             "ReturnError")
  <2>1. answers[n] \in Seq(Answer)
    BY <1>1
  <2>2. tid \in tids /\ ErrorEncodes(tid) => e \in Answer
    <3>1. tid \in tids => transactions_[tid].imsi \in Imsi
      BY DEF TypeOK, TxTypeOK, PendingTransaction
    <3> QED
      BY <3>1, GsupAnswerType DEF ErrorEncodes
  <2>3. answers'[n] = answers[n]
        \/ (tid \in tids /\ ErrorEncodes(tid)
              /\ answers'[n] = Append(answers[n], e))
    BY <1>1 DEF AnswerWithErrors
  <2> HIDE DEF e, tid
  <2>4. CASE answers'[n] = answers[n]
    BY <2>1, <2>4
  <2>5. CASE /\ tid \in tids /\ ErrorEncodes(tid)
             /\ answers'[n] = Append(answers[n], e)
    <3>1. e \in Answer
      BY <2>2, <2>5
    <3>2. Append(answers[n], e) \in Seq(Answer)
      BY <2>1, <3>1
    <3> QED
      BY <2>5, <3>2
  <2> QED
    BY <2>3, <2>4, <2>5
<1>3. answers' = [n \in 1 .. Len(answers) |-> answers'[n]]
  BY <1>1 DEF AnswerWithErrors
<1>4. answers' \in Seq(Seq(Answer)) /\ Len(answers') = Len(answers)
  <2>1. answers' \in [1 .. Len(answers) -> Seq(Answer)]
    BY <1>2, <1>3
  <2> QED
    BY <1>1, <2>1, FunctionIsSeq
<1>5. dropped' \subseteq 1 .. Len(requests)
  BY DEF AnswerWithErrors, TypeOK, SgsnTypeOK
<1> QED
  BY <1>4, <1>5

LEMMA NackTypes == TypeOK /\ NackAllPendingTransactions => TypeOK'
<1> SUFFICES ASSUME TypeOK, NackAllPendingTransactions PROVE TypeOK'
  OBVIOUS
<1>1. /\ answers' \in Seq(Seq(Answer))
      /\ Len(answers') = Len(answers)
      /\ dropped' \subseteq 1 .. Len(requests)
  BY ErrorAnswerTypes DEF NackAllPendingTransactions
<1>2. TxTypeOK' /\ DOMAIN transactions_' \subseteq DOMAIN owner'
  BY EmptyMapFacts
     DEF NackAllPendingTransactions, TypeOK, TxTypeOK, SgsnTypeOK,
         Without, Restrict
<1>3. HlrTypeOK'
  BY DEF NackAllPendingTransactions, hlrHistory, TypeOK, HlrTypeOK
<1> QED
  BY <1>1, <1>2, <1>3 DEF NackAllPendingTransactions, TypeOK, SgsnTypeOK

LEMMA TickTypes == TypeOK /\ Tick => TypeOK'
<1> SUFFICES ASSUME TypeOK, Tick PROVE TypeOK'
  OBVIOUS
<1>1. /\ answers' \in Seq(Seq(Answer))
      /\ Len(answers') = Len(answers)
      /\ dropped' \subseteq 1 .. Len(requests)
  BY ErrorAnswerTypes DEF Tick, expireStale
<1>2. TxTypeOK' /\ DOMAIN transactions_' \subseteq DOMAIN owner'
  BY RemovalTypes DEF Tick
<1>3. HlrTypeOK'
  BY DEF Tick, hlrHistory, TypeOK, HlrTypeOK, Without, Restrict
<1> QED
  BY <1>1, <1>2, <1>3 DEF Tick, TypeOK, SgsnTypeOK

LEMMA ElapseTypes == TypeOK /\ Elapse => TypeOK'
<1> SUFFICES ASSUME TypeOK, Elapse PROVE TypeOK'
  OBVIOUS
<1>1. TxTypeOK' /\ DOMAIN transactions_' \subseteq DOMAIN owner'
  <2>1. DOMAIN transactions_' = DOMAIN transactions_
    BY DEF Elapse, Older
  <2>2. ASSUME NEW tid \in DOMAIN transactions_
        PROVE  transactions_'[tid] \in PendingTransaction(Imsi, Client)
    <3>1. transactions_[tid] \in PendingTransaction(Imsi, Client)
      BY DEF TypeOK, TxTypeOK
    <3> QED
      BY <3>1 DEF Elapse, Older, PendingTransaction, Age
  <2> QED
    BY <2>1, <2>2 DEF Elapse, sgsnHistory, TypeOK, TxTypeOK, SgsnTypeOK
<1>2. HlrTypeOK'
  <2>1. DOMAIN hlrTx_' = DOMAIN hlrTx_
    BY DEF Elapse, Older
  <2>2. ASSUME NEW imsi \in DOMAIN hlrTx_
        PROVE  /\ hlrTx_'[imsi] \in HlrTxEntry
               /\ hlrTx_'[imsi].mapTransactionId \in 1 .. Len(hlrInvokes)
    <3>1. /\ hlrTx_[imsi] \in HlrTxEntry
          /\ hlrTx_[imsi].mapTransactionId \in 1 .. Len(hlrInvokes)
      BY DEF TypeOK, HlrTypeOK
    <3> QED
      BY <3>1 DEF Elapse, Older, HlrTxEntry
  <2> QED
    BY <2>1, <2>2 DEF Elapse, hlrHistory, TypeOK, HlrTypeOK
<1> QED
  BY <1>1, <1>2 DEF Elapse, sgsnHistory, TypeOK, SgsnTypeOK

(* The actions of the HLR-initiated direction change no other table.        *)
LEMMA HlrInvokeTypes ==
  ASSUME TypeOK, NEW proc \in HlrProcs, NEW imsi \in Imsi,
         NEW invokeId \in HlrInvokeId, NEW fits,
         HandleHlrInitiated(proc, imsi, invokeId, fits)
  PROVE  TypeOK'
<1> DEFINE operation == OperationOf[proc]
           k == Len(hlrInvokes) + 1
           inv == [operation |-> operation, imsi |-> imsi, invokeId |-> invokeId]
           entry == [mapTransactionId |-> k,
                     mapInvokeId |-> decodedInvokeId(invokeId),
                     mapOperation |-> operation, age |-> 0]
           A(m) == [invokeId : DecodedInvokeId, operation : MapOperation,
                    from : 1 .. m]
<1>1. operation \in MapOperation /\ operation \in HlrOperation
  BY InvokeTypes DEF HlrOperation
<1>2. /\ hlrInvokes' = Append(hlrInvokes, inv)
      /\ hlrAnswers' = Append(hlrAnswers, <<>>)
  BY DEF HandleHlrInitiated
<1>3. /\ hlrInvokes \in Seq([operation : HlrOperation, imsi : Imsi,
                             invokeId : HlrInvokeId])
      /\ inv \in [operation : HlrOperation, imsi : Imsi, invokeId : HlrInvokeId]
      /\ Len(hlrInvokes) \in Nat
  BY <1>1 DEF TypeOK, HlrTypeOK
<1> HIDE DEF inv
<1>4. /\ hlrInvokes' \in Seq([operation : HlrOperation, imsi : Imsi,
                              invokeId : HlrInvokeId])
      /\ Len(hlrInvokes') = k
  BY <1>2, <1>3
<1>5. /\ hlrAnswers' \in Seq(Seq(A(k)))
      /\ Len(hlrAnswers') = k
  <2>1. /\ hlrAnswers \in Seq(Seq(A(Len(hlrInvokes))))
        /\ Len(hlrAnswers) = Len(hlrInvokes)
    BY DEF TypeOK, HlrTypeOK
  <2>2. A(Len(hlrInvokes)) \subseteq A(k)
    BY <1>3
  <2> HIDE DEF A
  <2>3. Seq(A(Len(hlrInvokes))) \subseteq Seq(A(k))
    BY <2>2
  <2>4. hlrAnswers \in Seq(Seq(A(k)))
    BY <2>1, <2>3
  <2>5. <<>> \in Seq(A(k))
    OBVIOUS
  <2> QED
    BY <1>2, <1>3, <2>1, <2>4, <2>5
<1>6. broadcasts' \subseteq 1 .. k
  <2>1. broadcasts' \subseteq broadcasts \cup {k}
    BY DEF HandleHlrInitiated
  <2>2. broadcasts \subseteq 1 .. Len(hlrInvokes)
    BY DEF TypeOK, HlrTypeOK
  <2> QED
    BY <1>3, <2>1, <2>2
<1>7. /\ DOMAIN hlrTx_' \subseteq Imsi
      /\ \A i \in DOMAIN hlrTx_' : /\ hlrTx_'[i] \in HlrTxEntry
                                   /\ hlrTx_'[i].mapTransactionId \in 1 .. k
  <2>1. entry \in HlrTxEntry /\ entry.mapTransactionId \in 1 .. k
    BY <1>1, <1>3, InvokeIdCast DEF HlrTxEntry
  <2>2. \/ hlrTx_' = Assign(hlrTx_, imsi, entry)
        \/ hlrTx_' = Without(hlrTx_, {imsi})
    BY DEF HandleHlrInitiated
  <2> HIDE DEF entry
  <2>3. CASE hlrTx_' = Assign(hlrTx_, imsi, entry)
    BY <1>3, <2>1, <2>3 DEF TypeOK, HlrTypeOK, Assign
  <2>4. CASE hlrTx_' = Without(hlrTx_, {imsi})
    BY <1>3, <2>4 DEF TypeOK, HlrTypeOK, Without, Restrict
  <2> QED
    BY <2>2, <2>3, <2>4
<1>8. HlrTypeOK'
  BY <1>4, <1>5, <1>6, <1>7 DEF HlrTypeOK
<1>9. TxTypeOK' /\ SgsnTypeOK'
  BY DEF HandleHlrInitiated, txMgrVars, sgsnHistory, TypeOK, TxTypeOK,
         SgsnTypeOK
<1> QED
  BY <1>8, <1>9 DEF TypeOK

LEMMA HlrResponseTypes ==
  ASSUME TypeOK, NEW k \in broadcasts, NEW dir \in {"Result", "Error"},
         HandleGsupHlrResponse(k, dir)
  PROVE  TypeOK'
<1> DEFINE imsi == hlrInvokes[k].imsi
           type == [proc |-> mapInvokeToGsup(hlrInvokes[k].operation).proc,
                    dir |-> dir]
           entry == hlrTx_[imsi]
           result == gsupToMapResult(type)
           a == [invokeId |-> entry.mapInvokeId,
                 operation |-> decodedOperation(result.component,
                                                result.operation, Alone),
                 from |-> k]
           A == [invokeId : DecodedInvokeId, operation : MapOperation,
                 from : 1 .. Len(hlrInvokes)]
           j == entry.mapTransactionId
<1>1. /\ imsi \in DOMAIN hlrTx_
      /\ hlrTx_' = Without(hlrTx_, {imsi})
      /\ hlrAnswers' = [hlrAnswers EXCEPT ![j] = Append(@, a)]
      /\ UNCHANGED <<hlrInvokes, broadcasts>>
  BY DEF HandleGsupHlrResponse
<1>2. type.proc \in Procedure
  <2>0. k \in 1 .. Len(hlrInvokes)
    BY DEF TypeOK, HlrTypeOK
  <2> DEFINE I == [operation : HlrOperation, imsi : Imsi, invokeId : HlrInvokeId]
  <2>a. hlrInvokes \in Seq(I)
    BY DEF TypeOK, HlrTypeOK
  <2> HIDE DEF I
  <2>b. hlrInvokes[k] \in I
    BY <2>0, <2>a
  <2>1. hlrInvokes[k].operation \in HlrOperation
    BY <2>b DEF I
  <2>2. (CHOOSE p \in MapInvokeProcs : OperationOf[p] = hlrInvokes[k].operation)
           \in MapInvokeProcs
    BY <2>1 DEF HlrOperation
  <2> QED
    BY <2>2, InvokeTypes DEF mapInvokeToGsup
<1>3. a.operation \in MapOperation
  BY <1>2, OperationOfType DEF gsupToMapResult, decodedOperation, Alone,
                                MapOperation
<1>4. entry \in HlrTxEntry /\ j \in 1 .. Len(hlrInvokes)
  BY <1>1 DEF TypeOK, HlrTypeOK
<1>5. a \in A
  BY <1>3, <1>4 DEF HlrTxEntry, TypeOK, HlrTypeOK
<1> HIDE DEF a, j
<1>6. /\ hlrAnswers \in Seq(Seq(A))
      /\ Len(hlrAnswers) = Len(hlrInvokes)
  BY DEF TypeOK, HlrTypeOK
<1> HIDE DEF A
<1>7. hlrAnswers[j] \in Seq(A)
  BY <1>4, <1>6
<1>8. Append(hlrAnswers[j], a) \in Seq(A)
  BY <1>5, <1>7
<1>9. /\ hlrAnswers' \in Seq(Seq(A))
      /\ Len(hlrAnswers') = Len(hlrInvokes)
  <2>1. hlrAnswers' = [hlrAnswers EXCEPT ![j] = Append(hlrAnswers[j], a)]
    BY <1>1
  <2> QED
    BY <1>4, <1>6, <1>8, <2>1
<1>10. HlrTypeOK'
  BY <1>1, <1>9 DEF A, TypeOK, HlrTypeOK, Without, Restrict
<1>11. TxTypeOK' /\ SgsnTypeOK'
  BY DEF HandleGsupHlrResponse, txMgrVars, sgsnHistory, TypeOK, TxTypeOK,
         SgsnTypeOK
<1> QED
  BY <1>10, <1>11 DEF TypeOK

(* Every step keeps the types.                                              *)
LEMMA NextTypes == TypeOK /\ [Next]_vars => TypeOK'
<1> SUFFICES ASSUME TypeOK, [Next]_vars PROVE TypeOK'
  OBVIOUS
<1>1. ASSUME NEW client \in Client, NEW type \in SgsnTypes, NEW imsi \in Imsi,
             HandleGsupRequest(client, type, imsi)
      PROVE  TypeOK'
  BY <1>1, RequestTypes
<1>2. CASE HlrAnswers
  BY <1>2, MapAnswerTypes DEF HlrAnswers, HlrAnswersInvoke
<1>3. CASE NackAllPendingTransactions
  BY <1>3, NackTypes
<1>4. CASE HlrInvokes
  BY <1>4, HlrInvokeTypes DEF HlrInvokes
<1>5. ASSUME NEW k \in broadcasts, NEW dir \in {"Result", "Error"},
             HandleGsupHlrResponse(k, dir)
      PROVE  TypeOK'
  BY <1>5, HlrResponseTypes
<1>6. CASE Tick
  BY <1>6, TickTypes
<1>7. CASE Elapse
  BY <1>7, ElapseTypes
<1>8. CASE UNCHANGED vars
  BY <1>8 DEF vars, txMgrVars, sgsnHistory, hlrHistory, TypeOK, TxTypeOK,
              SgsnTypeOK, HlrTypeOK
<1> QED
  BY <1>1, <1>2, <1>3, <1>4, <1>5, <1>6, <1>7, <1>8 DEF Next

(* In every reachable state every table of the proxy is well typed: TIDs    *)
(* are never 0, the proxy's invoke ids stay in 1..127 and the HLR's are     *)
(* kept as one octet, whatever the peers send and however often the TID     *)
(* counter wraps around.                                                    *)
THEOREM TypeCorrect == Spec => []TypeOK
<1>1. Init => TypeOK
  BY InitTypes
<1>2. TypeOK /\ [Next]_vars => TypeOK'
  BY NextTypes
<1> QED
  BY <1>1, <1>2, PTL DEF Spec

-----------------------------------------------------------------------------
(* Correlation, as long as no TID is drawn twice.                           *)

(* What one request must look like: its answers are the right ones, and it  *)
(* is pending, answered or given up.  The three invariants about requests   *)
(* are this predicate for every request.                                    *)
RequestOK(n) ==
    /\ IF ~Forwarded(n) THEN answers[n] = <<>> /\ n \notin dropped
       ELSE \/ Pending(n) /\ answers[n] = <<>> /\ n \notin dropped
            \/ ~Pending(n) /\ Len(answers[n]) = 1 /\ n \notin dropped
            \/ /\ ~Pending(n) /\ answers[n] = <<>> /\ n \in dropped
               /\ HlrPlain => Unencodable(n)
    /\ \A j \in 1 .. Len(answers[n]) :
         /\ answers[n][j].client = requests[n].client
         /\ ~HlrBundles => answers[n][j].imsi = requests[n].imsi
         /\ HlrPlain => answers[n][j].type
                          \in {expectedGsupResult(requests[n].type),
                               expectedGsupError(requests[n].type)}

CorrelationInv ==
    /\ TypeOK
    /\ MapsInSync
    /\ TidsCorrelate
    /\ \A n \in 1 .. Len(requests) : RequestOK(n)

LEMMA CorrelationInit == Init => CorrelationInv
<1> SUFFICES ASSUME Init PROVE CorrelationInv
  OBVIOUS
<1>1. TypeOK
  BY InitTypes
<1>2. requests = <<>> /\ Len(requests) = 0
  BY DEF Init
<1>3. MapsInSync
  BY DEF Init, TxMgrInit, MapsInSync
<1>4. TidsCorrelate
  BY <1>2, EmptyMapFacts DEF Init, TxMgrInit, TidsCorrelate
<1> QED
  BY <1>1, <1>2, <1>3, <1>4 DEF CorrelationInv

(* The fields of a request have their types.                                *)
LEMMA RequestFields ==
  ASSUME TypeOK, NEW n \in 1 .. Len(requests)
  PROVE  /\ requests[n].client \in Client
         /\ requests[n].type \in SgsnTypes
         /\ requests[n].imsi \in Imsi
         /\ requests[n].tid \in Tid
         /\ Len(requests) \in Nat
         /\ n \in DOMAIN requests /\ n \in DOMAIN answers
         /\ answers[n] \in Seq(Answer)
<1> DEFINE R == [client : Client, type : SgsnTypes, imsi : Imsi, tid : Tid]
<1>1. requests \in Seq(R)
  BY DEF TypeOK, SgsnTypeOK
<1>2. /\ n \in DOMAIN answers
      /\ answers[n] \in Seq(Answer)
  BY <1>1 DEF TypeOK, SgsnTypeOK
<1> HIDE DEF R
<1>3. requests[n] \in R /\ Len(requests) \in Nat /\ n \in DOMAIN requests
  BY <1>1
<1> QED
  BY <1>2, <1>3 DEF R

(* With correlated TIDs a request is pending iff its number is registered.  *)
LEMMA PendingIsRegistered ==
  ASSUME CorrelationInv
  PROVE  /\ \A n \in 1 .. Len(requests) :
              Pending(n) <=> n \in DOMAIN transactions_
         /\ \A tid \in DOMAIN transactions_ :
              /\ tid \in 1 .. Len(requests)
              /\ owner[tid] = tid
              /\ requests[tid].tid = tid
<1>1. \A tid \in DOMAIN transactions_ :
        tid \in DOMAIN owner /\ owner[tid] = tid /\ owner[tid] \in 1 .. Len(requests)
  BY DEF CorrelationInv, TidsCorrelate, TypeOK, SgsnTypeOK
<1>2. \A n \in 1 .. Len(requests) : requests[n].tid = n
  BY DEF CorrelationInv, TidsCorrelate
<1> QED
  BY <1>1, <1>2 DEF Pending

(* A pending request has no answer yet and was not given up.                *)
LEMMA PendingUnanswered ==
  ASSUME CorrelationInv, NEW tid \in DOMAIN transactions_
  PROVE  answers[tid] = <<>> /\ tid \notin dropped /\ Forwarded(tid)
<1>1. tid \in 1 .. Len(requests) /\ Pending(tid)
  BY PendingIsRegistered
<1>2. Forwarded(tid)
  BY DEF CorrelationInv, TidsCorrelate
<1>3. RequestOK(tid)
  BY <1>1 DEF CorrelationInv
<1> QED
  BY <1>1, <1>2, <1>3 DEF RequestOK

(* A request keeps its status when nothing about it changes.                *)
LEMMA RequestKept ==
  ASSUME NEW n, RequestOK(n), requests'[n] = requests[n],
         answers'[n] = answers[n], n \in dropped' <=> n \in dropped,
         Pending(n)' <=> Pending(n)
  PROVE  RequestOK(n)'
  BY DEF RequestOK, Forwarded, Unencodable, Refused

LEMMA RequestCorrelates ==
  ASSUME NoTidReuse, CorrelationInv, TypeOK',
         NEW client \in Client, NEW type \in SgsnTypes, NEW imsi \in Imsi,
         HandleGsupRequest(client, type, imsi)
  PROVE  CorrelationInv'
<1> DEFINE r == [client |-> client, type |-> type, imsi |-> imsi,
                 tid |-> nextTid]
           tx == [mapInvokeId |-> nextInvokeId, imsi |-> imsi,
                  clientContext |-> client, age |-> 0]
           registered == allocate(imsi, client)
<1>0. TypeOK /\ MapsInSync /\ TidsCorrelate
  BY DEF CorrelationInv
<1>a. Len(requests) \in Nat /\ Len(requests) < MaxRequests
  BY <1>0 DEF HandleGsupRequest, TypeOK, SgsnTypeOK
<1>b. PICK n \in Nat : n = Len(requests) + 1
  BY <1>a
<1>1. Len(requests) \in Nat /\ n = Len(requests) + 1 /\ n <= MaxRequests
  BY <1>a, <1>b
<1>2. nextTid = n /\ tidCounter_ = n
  BY <1>0, <1>1 DEF HandleGsupRequest, TidsCorrelate, nextTid
<1>3. n \notin DOMAIN transactions_ /\ n \notin DOMAIN owner
  <2>1. \A tid \in DOMAIN owner : tid \in 1 .. Len(requests)
    BY <1>0 DEF TidsCorrelate, TypeOK, SgsnTypeOK
  <2>2. n \notin DOMAIN owner
    BY <1>1, <2>1
  <2> QED
    BY <1>0, <2>2 DEF TidsCorrelate
<1>4. registered = Assign(transactions_, n, tx)
  BY <1>2, <1>3 DEF allocate, Emplace
<1>5. /\ requests' = Append(requests, r)
      /\ answers' = Append(answers, <<>>)
      /\ tidCounter_' = (n + 1) % TidSpace
      /\ dropped' = dropped
      /\ \/ ForwardRequest(n, n, type, imsi, registered)
         \/ RejectRequest(n, type, registered)
  BY <1>1, <1>2 DEF HandleGsupRequest, CountersAdvance
<1>6. /\ Len(requests') = n
      /\ \A m \in 1 .. Len(requests) : requests'[m] = requests[m]
      /\ requests'[n] = r
  <2>1. requests \in Seq([client : Client, type : SgsnTypes, imsi : Imsi,
                          tid : Tid])
    BY <1>0 DEF TypeOK, SgsnTypeOK
  <2> HIDE DEF r
  <2> QED
    BY <1>1, <1>5, <2>1
<1>7. /\ \A m \in 1 .. Len(requests) : answers'[m] = answers[m]
      /\ answers'[n] = <<>>
  <2>1. answers \in Seq(Seq(Answer)) /\ Len(answers) = Len(requests)
    BY <1>0 DEF TypeOK, SgsnTypeOK
  <2> QED
    BY <1>1, <1>5, <2>1
<1>8. n < MaxRequests => tidCounter_' = n + 1
  <2>1. ASSUME n < MaxRequests PROVE (n + 1) % TidSpace = n + 1
    BY <1>1, <2>1 DEF NoTidReuse
  <2> QED
    BY <1>5, <2>1
<1>9. r.tid = n /\ r.client = client /\ r.imsi = imsi /\ r.type = type
  BY <1>2
<1> HIDE DEF r
<1>10. \A m \in 1 .. n : requests'[m].tid = m
  BY <1>0, <1>1, <1>6, <1>9 DEF TidsCorrelate
<1>11. n \notin dropped
  BY <1>0, <1>1 DEF TypeOK, SgsnTypeOK
<1>12. \A m \in 1 .. n : m = n \/ m \in 1 .. Len(requests)
  BY <1>1
<1>13. \A tid \in DOMAIN transactions_ : tid \in 1 .. Len(requests)
  BY PendingIsRegistered
<1>14. \A i \in invokes : i.req \in 1 .. Len(requests)
  BY <1>0 DEF TypeOK, SgsnTypeOK
<1>15. CASE ForwardRequest(n, n, type, imsi, registered)
  <2> DEFINE new == [req |-> n, tid |-> n,
                     invokeId |-> registered[n].mapInvokeId,
                     operation |-> gsupToMap(type), imsi |-> imsi]
  <2>1. /\ DOMAIN transactions_' = DOMAIN transactions_ \cup {n}
        /\ transactions_'[n] = tx
        /\ \A tid \in DOMAIN transactions_ : transactions_'[tid] = transactions_[tid]
    BY <1>3, <1>4, <1>15 DEF ForwardRequest, Assign
  <2>2. /\ DOMAIN pendingOps_' = DOMAIN pendingOps_ \cup {n}
        /\ pendingOps_'[n] = gsupToMap(type)
        /\ \A tid \in DOMAIN transactions_ : pendingOps_'[tid] = pendingOps_[tid]
    BY <1>0, <1>3, <1>15 DEF ForwardRequest, Assign, MapsInSync
  <2>3. /\ DOMAIN owner' = DOMAIN owner \cup {n}
        /\ owner'[n] = n
        /\ \A tid \in DOMAIN owner : owner'[tid] = owner[tid]
    BY <1>3, <1>15 DEF ForwardRequest, Assign
  <2>4. invokes' = invokes \cup {new} /\ type \in GsupToMapTypes
    BY <1>15 DEF ForwardRequest
  <2>5. MapsInSync'
    BY <1>0, <2>1, <2>2 DEF MapsInSync
  <2>6. TidsCorrelate'
    <3>1. \A tid \in DOMAIN transactions_' :
            /\ tid \in DOMAIN owner'
            /\ Forwarded(tid)'
            /\ transactions_'[tid].clientContext = requests'[tid].client
            /\ transactions_'[tid].imsi = requests'[tid].imsi
            /\ pendingOps_'[tid] = gsupToMap(requests'[tid].type)
      BY <1>0, <1>6, <1>9, <1>13, <2>1, <2>2, <2>3, <2>4
         DEF TidsCorrelate, Forwarded
    <3>2. \A i \in invokes' :
            /\ i.req = i.tid
            /\ i.tid \in DOMAIN owner'
            /\ Forwarded(i.req)'
            /\ i.operation = gsupToMap(requests'[i.req].type)
      BY <1>0, <1>6, <1>9, <1>14, <2>3, <2>4 DEF TidsCorrelate, Forwarded
    <3>3. \A tid \in DOMAIN owner' : owner'[tid] = tid
      BY <1>0, <2>3 DEF TidsCorrelate
    <3> QED
      BY <1>1, <1>6, <1>8, <1>10, <3>1, <3>2, <3>3 DEF TidsCorrelate
  <2>7. ASSUME NEW m \in 1 .. Len(requests) PROVE RequestOK(m)'
    <3>1. RequestOK(m)
      BY DEF CorrelationInv
    <3>2. m # n /\ requests[m].tid = m
      BY <1>0, <1>1 DEF TidsCorrelate
    <3>3. Pending(m)' <=> Pending(m)
      BY <1>0, <1>6, <2>1, <2>3, <3>2 DEF Pending, TidsCorrelate
    <3> QED
      BY <1>5, <1>6, <1>7, <3>1, <3>3, RequestKept
  <2>8. RequestOK(n)'
    <3>1. Pending(n)' /\ Forwarded(n)'
      BY <1>6, <1>9, <2>1, <2>3, <2>4 DEF Pending, Forwarded
    <3>2. n \notin dropped' /\ answers'[n] = <<>>
      BY <1>5, <1>7, <1>11
    <3>3. \A j \in 1 .. Len(answers'[n]) : FALSE
      BY <3>2, EmptyIndices
    <3> QED
      BY <3>1, <3>2, <3>3 DEF RequestOK
  <2> QED
    BY <1>6, <1>12, <2>5, <2>6, <2>7, <2>8 DEF CorrelationInv
<1>16. CASE RejectRequest(n, type, registered)
  <2>1. /\ DOMAIN transactions_' = DOMAIN transactions_
        /\ \A tid \in DOMAIN transactions_ : transactions_'[tid] = transactions_[tid]
        /\ UNCHANGED <<pendingOps_, invokes, owner>>
        /\ type \notin GsupToMapTypes
    BY <1>3, <1>4, <1>16 DEF RejectRequest, Without, Restrict, Assign
  <2>2. MapsInSync'
    BY <1>0, <2>1 DEF MapsInSync
  <2>3. TidsCorrelate'
    <3>1. \A tid \in DOMAIN transactions_' :
            /\ tid \in DOMAIN owner'
            /\ Forwarded(tid)'
            /\ transactions_'[tid].clientContext = requests'[tid].client
            /\ transactions_'[tid].imsi = requests'[tid].imsi
            /\ pendingOps_'[tid] = gsupToMap(requests'[tid].type)
      BY <1>0, <1>6, <1>13, <2>1 DEF TidsCorrelate, Forwarded
    <3>2. \A i \in invokes' :
            /\ i.req = i.tid
            /\ i.tid \in DOMAIN owner'
            /\ Forwarded(i.req)'
            /\ i.operation = gsupToMap(requests'[i.req].type)
      BY <1>0, <1>6, <1>14, <2>1 DEF TidsCorrelate, Forwarded
    <3> QED
      BY <1>0, <1>1, <1>6, <1>8, <1>10, <2>1, <3>1, <3>2 DEF TidsCorrelate
  <2>4. ASSUME NEW m \in 1 .. Len(requests) PROVE RequestOK(m)'
    <3>1. RequestOK(m)
      BY DEF CorrelationInv
    <3>2. Pending(m)' <=> Pending(m)
      BY <1>6, <2>1 DEF Pending
    <3> QED
      BY <1>5, <1>6, <1>7, <3>1, <3>2, RequestKept
  <2>5. RequestOK(n)'
    <3>1. ~Forwarded(n)'
      BY <1>6, <1>9, <2>1 DEF Forwarded
    <3>2. n \notin dropped' /\ answers'[n] = <<>>
      BY <1>5, <1>7, <1>11
    <3>3. \A j \in 1 .. Len(answers'[n]) : FALSE
      BY <3>2, EmptyIndices
    <3> QED
      BY <3>1, <3>2, <3>3 DEF RequestOK
  <2> QED
    BY <1>6, <1>12, <2>2, <2>3, <2>4, <2>5 DEF CorrelationInv
<1> QED
  BY <1>5, <1>15, <1>16

(* A forwarded request that got one right answer and is no longer pending,  *)
(* or that was given up for a reason, is in order.                          *)
LEMMA RequestAnswered ==
  ASSUME NEW n, NEW a, Forwarded(n)', ~Pending(n)', answers'[n] = <<a>>,
         n \notin dropped',
         a.client = requests'[n].client,
         ~HlrBundles => a.imsi = requests'[n].imsi,
         HlrPlain => a.type \in {expectedGsupResult(requests'[n].type),
                                 expectedGsupError(requests'[n].type)}
  PROVE  RequestOK(n)'
<1>1. Len(answers'[n]) = 1 /\ answers'[n][1] = a
  BY SingleIndex
<1>2. \A j \in 1 .. Len(answers'[n]) : answers'[n][j] = a
  BY <1>1
<1> QED
  BY <1>1, <1>2 DEF RequestOK

LEMMA RequestDropped ==
  ASSUME NEW n, Forwarded(n)', ~Pending(n)', answers'[n] = <<>>,
         n \in dropped', HlrPlain => Unencodable(n)'
  PROVE  RequestOK(n)'
<1>1. \A j \in 1 .. Len(answers'[n]) : FALSE
  BY EmptyIndices
<1> QED
  BY <1>1 DEF RequestOK

(* Removing transactions together with their operations keeps the tables    *)
(* correlated, and makes exactly these requests no longer pending.          *)
LEMMA RemovalCorrelates ==
  ASSUME CorrelationInv, NEW K,
         transactions_' = Without(transactions_, K),
         pendingOps_' = Without(pendingOps_, K),
         UNCHANGED <<tidCounter_, requests, owner, invokes>>
  PROVE  /\ MapsInSync'
         /\ TidsCorrelate'
         /\ \A n \in 1 .. Len(requests) : Pending(n)' <=> Pending(n) /\ n \notin K
<1>0. MapsInSync /\ TidsCorrelate
  BY DEF CorrelationInv
<1>1. /\ DOMAIN transactions_' = DOMAIN transactions_ \ K
      /\ DOMAIN pendingOps_' = DOMAIN pendingOps_ \ K
      /\ \A tid \in DOMAIN transactions_' :
           /\ transactions_'[tid] = transactions_[tid]
           /\ pendingOps_'[tid] = pendingOps_[tid]
  BY <1>0 DEF MapsInSync, Without, Restrict
<1>2. MapsInSync'
  BY <1>0, <1>1 DEF MapsInSync
<1>3. TidsCorrelate'
  BY <1>0, <1>1 DEF TidsCorrelate, Forwarded
<1>4. ASSUME NEW n \in 1 .. Len(requests)
      PROVE  Pending(n)' <=> Pending(n) /\ n \notin K
  BY <1>0, <1>1 DEF Pending, TidsCorrelate
<1> QED
  BY <1>2, <1>3, <1>4

LEMMA MapAnswerCorrelates ==
  ASSUME CorrelationInv, TypeOK', NEW i \in invokes,
         NEW component \in {"ReturnResult", "ReturnError"},
         NEW front \in Fronts(component),
         NEW carried \in Carried(i, component),
         NEW fits \in AnswerFits(i, component, carried, front),
         HandleMapAnswer(i, component, carried, front, fits)
  PROVE  CorrelationInv'
<1>0. TypeOK /\ MapsInSync /\ TidsCorrelate
  BY DEF CorrelationInv
<1>a. i.tid \in DOMAIN transactions_
  BY DEF HandleMapAnswer
<1>b. i.tid \in 1 .. Len(requests)
  BY <1>a, PendingIsRegistered
<1>c. PICK t \in 1 .. Len(requests) : t = i.tid
  BY <1>b
<1> DEFINE imsi == AnswerImsi(t, front)
           operation == AnswerOperation(t, component, carried, front)
           a == GsupAnswer(t, imsi, operation, component)
           ok == mapToGsupAccepts(operation) /\ gsupEncodes(imsi, fits)
<1>1. /\ t \in DOMAIN transactions_ /\ i.req = t
      /\ i.operation = gsupToMap(requests[t].type)
      /\ Forwarded(t)
  BY <1>0, <1>a, <1>c DEF TidsCorrelate
<1>2. /\ IF ok THEN answers' = [answers EXCEPT ![t] = Append(@, a)]
                    /\ UNCHANGED dropped
               ELSE dropped' = dropped \cup {t} /\ UNCHANGED answers
      /\ transactions_' = Without(transactions_, {t})
      /\ pendingOps_' = Without(pendingOps_, {t})
      /\ UNCHANGED <<tidCounter_, requests, owner, invokes>>
  BY <1>1, <1>c DEF HandleMapAnswer
<1>3. /\ MapsInSync' /\ TidsCorrelate'
      /\ \A n \in 1 .. Len(requests) : Pending(n)' <=> Pending(n) /\ n # t
  BY <1>2, RemovalCorrelates
<1>4. answers[t] = <<>> /\ t \notin dropped
  BY <1>1, PendingUnanswered
<1>d. ~HlrBundles => front = Alone
  BY DEF Fronts
<1>e. ~HlrBundles => imsi = requests[t].imsi
  BY <1>0, <1>1, <1>d DEF AnswerImsi, Alone, TidsCorrelate
<1>5. HlrPlain => operation = gsupToMap(requests[t].type)
  <2>1. /\ t \in DOMAIN pendingOps_
        /\ pendingOps_[t] = gsupToMap(requests[t].type)
    BY <1>0, <1>1 DEF MapsInSync, TidsCorrelate
  <2>2. gsupToMap(requests[t].type) # "Unknown"
    BY <1>1, ConverterRoundTrip DEF Forwarded
  <2> QED
    BY <1>1, <1>d, <2>1, <2>2
       DEF HlrPlain, Carried, AnswerOperation, decodedOperation, Alone
<1>6. /\ a.client = requests[t].client
      /\ ~HlrBundles => a.imsi = requests[t].imsi
      /\ a.type = mapToGsup(operation, component)
  BY <1>0, <1>1, <1>e DEF GsupAnswer, TidsCorrelate
<1>7. HlrPlain => a.type \in {expectedGsupResult(requests[t].type),
                              expectedGsupError(requests[t].type)}
  BY <1>1, <1>5, <1>6, ConverterRoundTrip DEF Forwarded
<1>8. HlrPlain /\ ~ok => Unencodable(t)
  <2> SUFFICES ASSUME HlrPlain, ~ok PROVE Unencodable(t)
    OBVIOUS
  <2>1. mapToGsupAccepts(operation)
    BY <1>1, <1>5, ConverterRoundTrip DEF Forwarded
  <2>2. imsi = requests[t].imsi
    BY <1>e DEF HlrPlain
  <2>3. /\ carried = gsupToMap(requests[t].type)
        /\ fits \in FitChoices(component, carried)
    BY <1>1 DEF HlrPlain, Carried, AnswerFits
  <2>4. CASE fits = FALSE
    <3>1. component = "ReturnResult"
      BY <2>3, <2>4 DEF FitChoices
    <3> QED
      BY <2>3, <2>4, <3>1 DEF Unencodable, Refused
  <2>5. CASE requests[t].imsi \in LongImsi
    BY <2>5 DEF Unencodable, Refused
  <2>6. fits \in BOOLEAN
    BY <2>3 DEF FitChoices
  <2> QED
    BY <2>1, <2>2, <2>4, <2>5, <2>6 DEF gsupEncodes
<1> HIDE DEF a, ok, imsi, operation
<1>9. ASSUME NEW n \in 1 .. Len(requests), n # t PROVE RequestOK(n)'
  <2>1. RequestOK(n)
    BY DEF CorrelationInv
  <2>2. n \in DOMAIN answers
    BY <1>0, RequestFields
  <2>3. answers'[n] = answers[n] /\ (n \in dropped' <=> n \in dropped)
    <3>1. CASE ok
      BY <1>2, <1>9, <2>2, <3>1
    <3>2. CASE ~ok
      BY <1>2, <1>9, <3>2
    <3> QED
      BY <3>1, <3>2
  <2> QED
    BY <1>2, <1>3, <1>9, <2>1, <2>3, RequestKept
<1>10. RequestOK(t)'
  <2>1. Forwarded(t)' /\ ~Pending(t)' /\ requests' = requests
    BY <1>1, <1>2, <1>3 DEF Forwarded
  <2>2. CASE ok
    <3>1. t \in DOMAIN answers
      BY <1>0, RequestFields
    <3>2. answers'[t] = <<a>> /\ t \notin dropped'
      BY <1>2, <1>4, <2>2, <3>1, SingleIndex
    <3> QED
      BY <1>6, <1>7, <2>1, <3>2, RequestAnswered
  <2>3. CASE ~ok
    <3>1. answers'[t] = <<>> /\ t \in dropped'
      BY <1>2, <1>4, <2>3
    <3>2. HlrPlain => Unencodable(t)'
      BY <1>8, <2>1, <2>3 DEF Unencodable, Refused
    <3> QED
      BY <2>1, <3>1, <3>2, RequestDropped
  <2> QED
    BY <2>2, <2>3
<1> QED
  BY <1>2, <1>3, <1>9, <1>10 DEF CorrelationInv

(* Ending pending transactions with an error answers each of them once, or  *)
(* gives it up when its IMSI cannot be encoded.                             *)
LEMMA ErrorsCorrelate ==
  ASSUME CorrelationInv, TypeOK', NEW K, K \subseteq DOMAIN transactions_,
         AnswerWithErrors(K),
         transactions_' = Without(transactions_, K),
         pendingOps_' = Without(pendingOps_, K),
         UNCHANGED <<tidCounter_, requests, owner, invokes>>
  PROVE  CorrelationInv'
<1>0. TypeOK /\ MapsInSync /\ TidsCorrelate
  BY DEF CorrelationInv
<1>1. /\ MapsInSync' /\ TidsCorrelate'
      /\ \A n \in 1 .. Len(requests) : Pending(n)' <=> Pending(n) /\ n \notin K
  BY RemovalCorrelates
<1>2. ASSUME NEW t \in K
      PROVE  /\ t \in 1 .. Len(requests)
             /\ owner[t] = t /\ requests[t].tid = t
             /\ Forwarded(t)
             /\ pendingOps_[t] = gsupToMap(requests[t].type)
             /\ transactions_[t].clientContext = requests[t].client
             /\ transactions_[t].imsi = requests[t].imsi
             /\ answers[t] = <<>> /\ t \notin dropped
  <2>1. t \in 1 .. Len(requests) /\ owner[t] = t /\ requests[t].tid = t
    BY PendingIsRegistered
  <2>2. answers[t] = <<>> /\ t \notin dropped
    BY PendingUnanswered
  <2> QED
    BY <1>0, <2>1, <2>2 DEF TidsCorrelate
<1>3. \A n \in 1 .. Len(requests) : requests[n].tid = n /\ n \in DOMAIN answers
  BY <1>0, RequestFields DEF TidsCorrelate
<1>4. \A n \in 1 .. Len(requests) :
        /\ n \notin K => answers'[n] = answers[n]
        /\ n \in K /\ ErrorEncodes(n) =>
             answers'[n] = Append(answers[n],
                             GsupAnswer(n, transactions_[n].imsi,
                                        pendingOps_[n], "ReturnError"))
        /\ n \in K /\ ~ErrorEncodes(n) => answers'[n] = answers[n]
  BY <1>2, <1>3 DEF AnswerWithErrors
<1>5. \A n \in 1 .. Len(requests) :
        n \in dropped' <=> n \in dropped \/ (n \in K /\ ~ErrorEncodes(n))
  BY <1>2 DEF AnswerWithErrors
<1>6. ASSUME NEW n \in 1 .. Len(requests), n \notin K PROVE RequestOK(n)'
  <2>1. RequestOK(n)
    BY DEF CorrelationInv
  <2> QED
    BY <1>1, <1>4, <1>5, <1>6, <2>1, RequestKept
<1>7. ASSUME NEW n \in 1 .. Len(requests), n \in K PROVE RequestOK(n)'
  <2> DEFINE a == GsupAnswer(n, transactions_[n].imsi, pendingOps_[n],
                             "ReturnError")
  <2>1. Forwarded(n)' /\ ~Pending(n)' /\ requests' = requests
    BY <1>1, <1>2, <1>7 DEF Forwarded
  <2>2. CASE ErrorEncodes(n)
    <3>1. answers'[n] = <<a>> /\ n \notin dropped'
      BY <1>2, <1>4, <1>5, <1>7, <2>2, SingleIndex
    <3>2. /\ a.client = requests[n].client
          /\ a.imsi = requests[n].imsi
          /\ a.type = mapToGsup(gsupToMap(requests[n].type), "ReturnError")
      BY <1>2, <1>7 DEF GsupAnswer
    <3>3. a.type \in {expectedGsupResult(requests[n].type),
                      expectedGsupError(requests[n].type)}
      BY <1>2, <1>7, <3>2, ConverterRoundTrip DEF Forwarded
    <3> HIDE DEF a
    <3> QED
      BY <2>1, <3>1, <3>2, <3>3, RequestAnswered
  <2>3. CASE ~ErrorEncodes(n)
    <3>1. answers'[n] = <<>> /\ n \in dropped'
      BY <1>2, <1>4, <1>5, <1>7, <2>3
    <3>2. mapToGsupAccepts(pendingOps_[n])
      BY <1>2, <1>7, ConverterRoundTrip DEF Forwarded
    <3>3. requests[n].imsi \in LongImsi
      BY <1>2, <1>7, <2>3, <3>2 DEF ErrorEncodes, gsupEncodes
    <3>4. Unencodable(n)'
      BY <2>1, <3>3 DEF Unencodable, Refused
    <3> QED
      BY <2>1, <3>1, <3>4, RequestDropped
  <2> QED
    BY <2>2, <2>3
<1> QED
  BY <1>1, <1>6, <1>7 DEF CorrelationInv

LEMMA NackCorrelates ==
  ASSUME CorrelationInv, TypeOK', NackAllPendingTransactions
  PROVE  CorrelationInv'
<1> DEFINE K == DOMAIN pendingOps_ \cap DOMAIN transactions_
<1>1. MapsInSync
  BY DEF CorrelationInv
<1>2. pendingOps_' = Without(pendingOps_, K)
  <2>1. K = DOMAIN pendingOps_
    BY <1>1 DEF MapsInSync
  <2>2. DOMAIN pendingOps_ \ K = {}
    BY <2>1
  <2> QED
    BY <2>2 DEF NackAllPendingTransactions, EmptyMap, Without, Restrict
<1> QED
  BY <1>2, ErrorsCorrelate DEF NackAllPendingTransactions

LEMMA TickCorrelates ==
  ASSUME CorrelationInv, TypeOK', Tick
  PROVE  CorrelationInv'
<1>1. MapsInSync
  BY DEF CorrelationInv
<1>2. expireStale \subseteq DOMAIN transactions_
  BY DEF expireStale
<1>3. expireStale \cap DOMAIN pendingOps_ = expireStale
  BY <1>1, <1>2 DEF MapsInSync
<1> QED
  BY <1>2, <1>3, ErrorsCorrelate DEF Tick

(* The clock and the HLR-initiated direction leave requests alone.          *)
LEMMA OthersCorrelate ==
  ASSUME CorrelationInv, TypeOK',
         DOMAIN transactions_' = DOMAIN transactions_,
         \A tid \in DOMAIN transactions_ :
           /\ transactions_'[tid].clientContext = transactions_[tid].clientContext
           /\ transactions_'[tid].imsi = transactions_[tid].imsi,
         UNCHANGED <<tidCounter_, pendingOps_, invokes, requests, owner,
                     answers, dropped>>
  PROVE  CorrelationInv'
<1>1. MapsInSync' /\ TidsCorrelate'
  BY DEF CorrelationInv, MapsInSync, TidsCorrelate, Forwarded
<1>2. ASSUME NEW n \in 1 .. Len(requests) PROVE RequestOK(n)'
  <2>1. RequestOK(n)
    BY DEF CorrelationInv
  <2>2. Pending(n)' <=> Pending(n)
    BY DEF Pending
  <2> QED
    BY <2>1, <2>2, RequestKept
<1> QED
  BY <1>1, <1>2 DEF CorrelationInv

LEMMA CorrelationNext ==
  ASSUME NoTidReuse, CorrelationInv, [Next]_vars
  PROVE  CorrelationInv'
<1>0. TypeOK'
  BY NextTypes DEF CorrelationInv
<1>1. ASSUME NEW client \in Client, NEW type \in SgsnTypes, NEW imsi \in Imsi,
             HandleGsupRequest(client, type, imsi)
      PROVE  CorrelationInv'
  BY <1>0, <1>1, RequestCorrelates
<1>2. CASE HlrAnswers
  BY <1>0, <1>2, MapAnswerCorrelates DEF HlrAnswers, HlrAnswersInvoke
<1>3. CASE NackAllPendingTransactions
  BY <1>0, <1>3, NackCorrelates
<1>4. CASE HlrInvokes
  BY <1>0, <1>4, OthersCorrelate
     DEF HlrInvokes, HandleHlrInitiated, txMgrVars, sgsnHistory
<1>5. ASSUME NEW k \in broadcasts, NEW dir \in {"Result", "Error"},
             HandleGsupHlrResponse(k, dir)
      PROVE  CorrelationInv'
  BY <1>0, <1>5, OthersCorrelate
     DEF HandleGsupHlrResponse, txMgrVars, sgsnHistory
<1>6. CASE Tick
  BY <1>0, <1>6, TickCorrelates
<1>7. CASE Elapse
  <2>1. /\ DOMAIN transactions_' = DOMAIN transactions_
        /\ \A tid \in DOMAIN transactions_ :
             /\ transactions_'[tid].clientContext = transactions_[tid].clientContext
             /\ transactions_'[tid].imsi = transactions_[tid].imsi
    <3>1. \A tid \in DOMAIN transactions_ :
            transactions_[tid] \in PendingTransaction(Imsi, Client)
      BY DEF CorrelationInv, TypeOK, TxTypeOK
    <3> QED
      BY <1>7, <3>1 DEF Elapse, Older, PendingTransaction
  <2> QED
    BY <1>0, <1>7, <2>1, OthersCorrelate DEF Elapse, sgsnHistory
<1>8. CASE UNCHANGED vars
  BY <1>0, <1>8, OthersCorrelate DEF vars, txMgrVars, sgsnHistory
<1> QED
  BY <1>1, <1>2, <1>3, <1>4, <1>5, <1>6, <1>7, <1>8 DEF Next

LEMMA CorrelationAlways ==
  ASSUME NoTidReuse
  PROVE  Spec => []CorrelationInv
<1>1. Init => CorrelationInv
  BY CorrelationInit
<1>2. CorrelationInv /\ [Next]_vars => CorrelationInv'
  BY CorrelationNext
<1> QED
  BY <1>1, <1>2, PTL DEF Spec

(* As long as no TID is drawn twice, txMgr_ and pendingOps_ hold the same   *)
(* TIDs, through all the places that add to or erase from one of them.      *)
THEOREM TablesAgree ==
  ASSUME NoTidReuse
  PROVE  Spec => []MapsInSync
<1>1. CorrelationInv => MapsInSync
  BY DEF CorrelationInv
<1>2. Spec => []CorrelationInv
  BY CorrelationAlways
<1> QED
  BY <1>1, <1>2, PTL

(* A TID leads back to the request it was drawn for: what txMgr_ and        *)
(* pendingOps_ hold under it, and every Invoke that carries it, agree with  *)
(* that request.                                                            *)
THEOREM TidsIdentify ==
  ASSUME NoTidReuse
  PROVE  Spec => []TidsCorrelate
<1>1. CorrelationInv => TidsCorrelate
  BY DEF CorrelationInv
<1>2. Spec => []CorrelationInv
  BY CorrelationAlways
<1> QED
  BY <1>1, <1>2, PTL

(* Every request that was forwarded is pending, answered exactly once or    *)
(* given up for want of an encoding, whichever of the HLR's answer, the     *)
(* disconnect and the expiry comes first.                                   *)
THEOREM OneFate ==
  ASSUME NoTidReuse
  PROVE  Spec => []Accounted
<1>1. CorrelationInv => Accounted
  BY DEF CorrelationInv, RequestOK, Accounted
<1>2. Spec => []CorrelationInv
  BY CorrelationAlways
<1> QED
  BY <1>1, <1>2, PTL

(* Whatever the HLR sends, an answer goes to the SGSN that asked.  It is    *)
(* about the subscriber it asked for when the HLR sends one component per   *)
(* message: handleMapPayload takes the pending IMSI only if map::decode     *)
(* found none, and an Invoke in front of the answer would leave its own.    *)
THEOREM RightReceiver ==
  ASSUME NoTidReuse
  PROVE  Spec => []RightClient
<1>1. CorrelationInv => RightClient
  BY DEF CorrelationInv, RequestOK, RightClient
<1>2. Spec => []CorrelationInv
  BY CorrelationAlways
<1> QED
  BY <1>1, <1>2, PTL

(* An answer is the result or the error of the procedure that was asked     *)
(* for, when the HLR answers the operation it was asked, in a message of    *)
(* its own, also for a ReturnError, whose operation only pendingOps_ knows. *)
THEOREM RightProcedure ==
  ASSUME NoTidReuse
  PROVE  Spec => []RightType
<1>1. CorrelationInv => RightType
  BY DEF CorrelationInv, RequestOK, RightType
<1>2. Spec => []CorrelationInv
  BY CorrelationAlways
<1> QED
  BY <1>1, <1>2, PTL

-----------------------------------------------------------------------------
(* The HLR-initiated direction, without any assumption on TIDs.             *)

(* An entry of hlrTx_ agrees with the Invoke it stands for, so that two     *)
(* entries never stand for the same Invoke.                                 *)
HlrTracked ==
    \A imsi \in DOMAIN hlrTx_ :
      LET k == hlrTx_[imsi].mapTransactionId
      IN  /\ hlrInvokes[k].imsi = imsi
          /\ hlrTx_[imsi].mapInvokeId = decodedInvokeId(hlrInvokes[k].invokeId)
          /\ hlrAnswers[k] = <<>>

(* What the answers to Invoke k must look like.                             *)
InvokeOK(k) ==
    /\ Len(hlrAnswers[k]) <= 1
    /\ \A j \in 1 .. Len(hlrAnswers[k]) :
         /\ hlrAnswers[k][j].invokeId = decodedInvokeId(hlrInvokes[k].invokeId)
         /\ hlrInvokes[hlrAnswers[k][j].from].imsi = hlrInvokes[k].imsi

HlrInv ==
    /\ TypeOK
    /\ HlrTracked
    /\ \A k \in 1 .. Len(hlrInvokes) : InvokeOK(k)

LEMMA HlrInitInv == Init => HlrInv
<1> SUFFICES ASSUME Init PROVE HlrInv
  OBVIOUS
<1>1. Len(hlrInvokes) = 0 /\ DOMAIN hlrTx_ = {}
  BY EmptyMapFacts DEF Init
<1> QED
  BY <1>1, InitTypes DEF HlrInv, HlrTracked

(* An answer names an Invoke that was received.                             *)
LEMMA AnswerOrigin ==
  ASSUME TypeOK, NEW k \in 1 .. Len(hlrInvokes),
         NEW j \in 1 .. Len(hlrAnswers[k])
  PROVE  hlrAnswers[k][j].from \in 1 .. Len(hlrInvokes)
<1> DEFINE A == [invokeId : DecodedInvokeId, operation : MapOperation,
                 from : 1 .. Len(hlrInvokes)]
<1>1. hlrAnswers \in Seq(Seq(A)) /\ Len(hlrAnswers) = Len(hlrInvokes)
  BY DEF TypeOK, HlrTypeOK
<1> HIDE DEF A
<1>2. hlrAnswers[k] \in Seq(A)
  BY <1>1
<1>3. hlrAnswers[k][j] \in A
  BY <1>2
<1> QED
  BY <1>3 DEF A

LEMMA HlrInvokeKeepsInv ==
  ASSUME HlrInv, TypeOK', NEW proc \in HlrProcs, NEW imsi \in Imsi,
         NEW invokeId \in HlrInvokeId, NEW fits,
         HandleHlrInitiated(proc, imsi, invokeId, fits)
  PROVE  HlrInv'
<1> DEFINE inv == [operation |-> OperationOf[proc], imsi |-> imsi,
                   invokeId |-> invokeId]
<1>0. TypeOK /\ HlrTracked
  BY DEF HlrInv
<1>a. Len(hlrInvokes) \in Nat
  BY <1>0 DEF TypeOK, HlrTypeOK
<1>b. PICK k \in Nat : k = Len(hlrInvokes) + 1
  BY <1>a
<1>1. /\ hlrInvokes' = Append(hlrInvokes, inv)
      /\ hlrAnswers' = Append(hlrAnswers, <<>>)
      /\ \/ hlrTx_' = Assign(hlrTx_, imsi,
              [mapTransactionId |-> k,
               mapInvokeId |-> decodedInvokeId(invokeId),
               mapOperation |-> OperationOf[proc], age |-> 0])
         \/ hlrTx_' = Without(hlrTx_, {imsi})
  BY <1>b DEF HandleHlrInitiated
<1>2. inv.imsi = imsi /\ inv.invokeId = invokeId
  OBVIOUS
<1> HIDE DEF inv
<1>3. /\ Len(hlrInvokes') = k
      /\ \A m \in 1 .. Len(hlrInvokes) : hlrInvokes'[m] = hlrInvokes[m]
      /\ hlrInvokes'[k] = inv
  <2>1. hlrInvokes \in Seq([operation : HlrOperation, imsi : Imsi,
                            invokeId : HlrInvokeId])
    BY <1>0 DEF TypeOK, HlrTypeOK
  <2> QED
    BY <1>1, <1>b, <2>1
<1>4. /\ \A m \in 1 .. Len(hlrInvokes) : hlrAnswers'[m] = hlrAnswers[m]
      /\ hlrAnswers'[k] = <<>>
  <2> DEFINE A == [invokeId : DecodedInvokeId, operation : MapOperation,
                   from : 1 .. Len(hlrInvokes)]
  <2>1. hlrAnswers \in Seq(Seq(A)) /\ Len(hlrAnswers) = Len(hlrInvokes)
    BY <1>0 DEF TypeOK, HlrTypeOK
  <2> HIDE DEF A
  <2> QED
    BY <1>1, <1>b, <2>1
<1>5. \A i \in DOMAIN hlrTx_ : hlrTx_[i].mapTransactionId \in 1 .. Len(hlrInvokes)
  BY <1>0 DEF TypeOK, HlrTypeOK
<1>6. HlrTracked'
  <2> SUFFICES ASSUME NEW i \in DOMAIN hlrTx_'
               PROVE  /\ hlrInvokes'[hlrTx_'[i].mapTransactionId].imsi = i
                      /\ hlrTx_'[i].mapInvokeId
                           = decodedInvokeId(
                               hlrInvokes'[hlrTx_'[i].mapTransactionId].invokeId)
                      /\ hlrAnswers'[hlrTx_'[i].mapTransactionId] = <<>>
    BY DEF HlrTracked
  <2>1. \/ i \in DOMAIN hlrTx_ /\ hlrTx_'[i] = hlrTx_[i]
        \/ /\ i = imsi
           /\ hlrTx_'[i] = [mapTransactionId |-> k,
                            mapInvokeId |-> decodedInvokeId(invokeId),
                            mapOperation |-> OperationOf[proc], age |-> 0]
    BY <1>1 DEF Assign, Without, Restrict
  <2>2. CASE i \in DOMAIN hlrTx_ /\ hlrTx_'[i] = hlrTx_[i]
    BY <1>0, <1>3, <1>4, <1>5, <2>2 DEF HlrTracked
  <2>3. CASE /\ i = imsi
             /\ hlrTx_'[i] = [mapTransactionId |-> k,
                              mapInvokeId |-> decodedInvokeId(invokeId),
                              mapOperation |-> OperationOf[proc], age |-> 0]
    BY <1>2, <1>3, <1>4, <2>3
  <2> QED
    BY <2>1, <2>2, <2>3
<1>7. ASSUME NEW m \in 1 .. Len(hlrInvokes) PROVE InvokeOK(m)'
  <2>1. InvokeOK(m)
    BY DEF HlrInv
  <2>2. \A j \in 1 .. Len(hlrAnswers[m]) :
          hlrAnswers[m][j].from \in 1 .. Len(hlrInvokes)
    BY <1>0, AnswerOrigin
  <2> QED
    BY <1>3, <1>4, <2>1, <2>2 DEF InvokeOK
<1>8. InvokeOK(k)'
  <2>1. Len(hlrAnswers'[k]) = 0 /\ \A j \in 1 .. Len(hlrAnswers'[k]) : FALSE
    BY <1>4, EmptyIndices
  <2> QED
    BY <2>1 DEF InvokeOK
<1>9. \A m \in 1 .. k : m = k \/ m \in 1 .. Len(hlrInvokes)
  BY <1>a, <1>b
<1> QED
  BY <1>3, <1>6, <1>7, <1>8, <1>9 DEF HlrInv

LEMMA HlrResponseKeepsInv ==
  ASSUME HlrInv, TypeOK', NEW k \in broadcasts,
         NEW dir \in {"Result", "Error"}, HandleGsupHlrResponse(k, dir)
  PROVE  HlrInv'
<1>0. TypeOK /\ HlrTracked
  BY DEF HlrInv
<1> DEFINE imsi == hlrInvokes[k].imsi
<1>1. imsi \in DOMAIN hlrTx_
  BY DEF HandleGsupHlrResponse
<1>2. PICK t \in 1 .. Len(hlrInvokes) : t = hlrTx_[imsi].mapTransactionId
  BY <1>0, <1>1 DEF TypeOK, HlrTypeOK
<1> DEFINE result == gsupToMapResult(
                 [proc |-> mapInvokeToGsup(hlrInvokes[k].operation).proc,
                  dir |-> dir])
           a == [invokeId |-> hlrTx_[imsi].mapInvokeId,
                 operation |-> decodedOperation(result.component,
                                                result.operation, Alone),
                 from |-> k]
<1>3. /\ hlrTx_' = Without(hlrTx_, {imsi})
      /\ UNCHANGED hlrInvokes
      /\ hlrAnswers' = [hlrAnswers EXCEPT ![t] = Append(@, a)]
  BY <1>2 DEF HandleGsupHlrResponse
<1>4. a.invokeId = hlrTx_[imsi].mapInvokeId /\ a.from = k
  OBVIOUS
<1> HIDE DEF a
<1>5. /\ hlrInvokes[t].imsi = imsi
      /\ hlrTx_[imsi].mapInvokeId = decodedInvokeId(hlrInvokes[t].invokeId)
      /\ hlrAnswers[t] = <<>>
  BY <1>0, <1>1, <1>2 DEF HlrTracked
<1>6. DOMAIN hlrAnswers = 1 .. Len(hlrInvokes)
  <2> DEFINE A == [invokeId : DecodedInvokeId, operation : MapOperation,
                   from : 1 .. Len(hlrInvokes)]
  <2>1. hlrAnswers \in Seq(Seq(A)) /\ Len(hlrAnswers) = Len(hlrInvokes)
    BY <1>0 DEF TypeOK, HlrTypeOK
  <2> HIDE DEF A
  <2> QED
    BY <2>1
<1>7. /\ hlrAnswers'[t] = <<a>>
      /\ \A m \in 1 .. Len(hlrInvokes) : m # t => hlrAnswers'[m] = hlrAnswers[m]
  BY <1>3, <1>5, <1>6, SingleIndex
<1>8. HlrTracked'
  <2> SUFFICES ASSUME NEW i \in DOMAIN hlrTx_'
               PROVE  /\ hlrInvokes'[hlrTx_'[i].mapTransactionId].imsi = i
                      /\ hlrTx_'[i].mapInvokeId
                           = decodedInvokeId(
                               hlrInvokes'[hlrTx_'[i].mapTransactionId].invokeId)
                      /\ hlrAnswers'[hlrTx_'[i].mapTransactionId] = <<>>
    BY DEF HlrTracked
  <2>1. i \in DOMAIN hlrTx_ /\ i # imsi /\ hlrTx_'[i] = hlrTx_[i]
    BY <1>3 DEF Without, Restrict
  <2>2. hlrTx_[i].mapTransactionId \in 1 .. Len(hlrInvokes)
    BY <1>0, <2>1 DEF TypeOK, HlrTypeOK
  <2>3. hlrTx_[i].mapTransactionId # t
    BY <1>0, <1>5, <2>1 DEF HlrTracked
  <2> QED
    BY <1>0, <1>3, <1>7, <2>1, <2>2, <2>3 DEF HlrTracked
<1>9. ASSUME NEW m \in 1 .. Len(hlrInvokes), m # t PROVE InvokeOK(m)'
  BY <1>3, <1>7, <1>9 DEF HlrInv, InvokeOK
<1>10. InvokeOK(t)'
  <2>1. Len(hlrAnswers'[t]) = 1 /\ hlrAnswers'[t][1] = a
    BY <1>7, SingleIndex
  <2>2. \A j \in 1 .. Len(hlrAnswers'[t]) : hlrAnswers'[t][j] = a
    BY <2>1
  <2>3. hlrInvokes'[a.from].imsi = hlrInvokes'[t].imsi
    BY <1>3, <1>4, <1>5
  <2>4. a.invokeId = decodedInvokeId(hlrInvokes'[t].invokeId)
    BY <1>3, <1>4, <1>5
  <2>5. Len(hlrAnswers'[t]) <= 1
    BY <2>1
  <2>6. ASSUME NEW j \in 1 .. Len(hlrAnswers'[t])
        PROVE  /\ hlrAnswers'[t][j].invokeId
                    = decodedInvokeId(hlrInvokes'[t].invokeId)
               /\ hlrInvokes'[hlrAnswers'[t][j].from].imsi
                    = hlrInvokes'[t].imsi
    BY <2>2, <2>3, <2>4
  <2> QED
    BY <2>5, <2>6 DEF InvokeOK
<1> QED
  BY <1>3, <1>8, <1>9, <1>10 DEF HlrInv

(* Entries may expire, grow older or stay: no Invoke or answer changes.     *)
LEMMA OthersKeepHlrInv ==
  ASSUME HlrInv, TypeOK', DOMAIN hlrTx_' \subseteq DOMAIN hlrTx_,
         \A i \in DOMAIN hlrTx_' :
           /\ hlrTx_'[i].mapTransactionId = hlrTx_[i].mapTransactionId
           /\ hlrTx_'[i].mapInvokeId = hlrTx_[i].mapInvokeId,
         UNCHANGED <<hlrInvokes, hlrAnswers>>
  PROVE  HlrInv'
<1>1. HlrTracked'
  BY DEF HlrInv, HlrTracked
<1>2. \A k \in 1 .. Len(hlrInvokes') : InvokeOK(k)'
  BY DEF HlrInv, InvokeOK
<1> QED
  BY <1>1, <1>2 DEF HlrInv

LEMMA HlrNextInv == HlrInv /\ [Next]_vars => HlrInv'
<1> SUFFICES ASSUME HlrInv, [Next]_vars PROVE HlrInv'
  OBVIOUS
<1>0. TypeOK /\ TypeOK'
  BY NextTypes DEF HlrInv
<1>1. ASSUME NEW client \in Client, NEW type \in SgsnTypes, NEW imsi \in Imsi,
             HandleGsupRequest(client, type, imsi)
      PROVE  HlrInv'
  BY <1>0, <1>1, OthersKeepHlrInv DEF HandleGsupRequest, hlrHistory
<1>2. CASE HlrAnswers
  BY <1>0, <1>2, OthersKeepHlrInv
     DEF HlrAnswers, HlrAnswersInvoke, HandleMapAnswer, hlrHistory
<1>3. CASE NackAllPendingTransactions
  BY <1>0, <1>3, OthersKeepHlrInv DEF NackAllPendingTransactions, hlrHistory
<1>4. CASE HlrInvokes
  BY <1>0, <1>4, HlrInvokeKeepsInv DEF HlrInvokes
<1>5. ASSUME NEW k \in broadcasts, NEW dir \in {"Result", "Error"},
             HandleGsupHlrResponse(k, dir)
      PROVE  HlrInv'
  BY <1>0, <1>5, HlrResponseKeepsInv
<1>6. CASE Tick
  <2>1. /\ DOMAIN hlrTx_' \subseteq DOMAIN hlrTx_
        /\ \A i \in DOMAIN hlrTx_' : hlrTx_'[i] = hlrTx_[i]
    BY <1>6 DEF Tick, Without, Restrict
  <2> QED
    BY <1>0, <1>6, <2>1, OthersKeepHlrInv DEF Tick, hlrHistory
<1>7. CASE Elapse
  <2>1. /\ DOMAIN hlrTx_' = DOMAIN hlrTx_
        /\ \A i \in DOMAIN hlrTx_ :
             /\ hlrTx_'[i].mapTransactionId = hlrTx_[i].mapTransactionId
             /\ hlrTx_'[i].mapInvokeId = hlrTx_[i].mapInvokeId
    <3>1. \A i \in DOMAIN hlrTx_ : hlrTx_[i] \in HlrTxEntry
      BY <1>0 DEF TypeOK, HlrTypeOK
    <3> QED
      BY <1>7, <3>1 DEF Elapse, Older, HlrTxEntry
  <2> QED
    BY <1>0, <1>7, <2>1, OthersKeepHlrInv DEF Elapse, hlrHistory
<1>8. CASE UNCHANGED vars
  BY <1>0, <1>8, OthersKeepHlrInv DEF vars, hlrHistory
<1> QED
  BY <1>1, <1>2, <1>3, <1>4, <1>5, <1>6, <1>7, <1>8 DEF Next

(* The HLR gets at most one answer to each of its Invokes, with its invoke  *)
(* id as map::decode cast it and about its subscriber, however SGSN         *)
(* answers, expiries and further Invokes for the same subscriber            *)
(* interleave.                                                              *)
THEOREM HlrAtMostOnce == Spec => []HlrAnsweredOnce
<1>1. Init => HlrInv
  BY HlrInitInv
<1>2. HlrInv /\ [Next]_vars => HlrInv'
  BY HlrNextInv
<1>3. HlrInv => HlrAnsweredOnce
  BY DEF HlrInv, HlrTracked, InvokeOK, HlrAnsweredOnce
<1> QED
  BY <1>1, <1>2, <1>3, PTL DEF Spec

-----------------------------------------------------------------------------
(* Pending transactions are left alone.                                     *)

Untouched ==
    \A tid \in DOMAIN transactions_ \cap DOMAIN transactions_' :
      /\ transactions_'[tid].age >= transactions_[tid].age
      /\ [transactions_'[tid] EXCEPT !.age = 0]
           = [transactions_[tid] EXCEPT !.age = 0]

LEMMA EqualIsUntouched ==
  ASSUME TypeOK,
         \A tid \in DOMAIN transactions_ \cap DOMAIN transactions_' :
           transactions_'[tid] = transactions_[tid]
  PROVE  Untouched
<1>1. \A tid \in DOMAIN transactions_ : transactions_[tid].age \in Int
  BY DEF TypeOK, TxTypeOK, PendingTransaction, Age
<1> QED
  BY <1>1 DEF Untouched

LEMMA NextUntouched == TypeOK /\ [Next]_vars => Untouched
<1> SUFFICES ASSUME TypeOK, [Next]_vars PROVE Untouched
  OBVIOUS
<1>1. ASSUME NEW client \in Client, NEW type \in SgsnTypes, NEW imsi \in Imsi,
             HandleGsupRequest(client, type, imsi)
      PROVE  Untouched
  <2>1. \A tid \in DOMAIN transactions_ :
          allocate(imsi, client)[tid] = transactions_[tid]
    BY DEF allocate, Emplace, Assign
  <2>2. \/ transactions_' = allocate(imsi, client)
        \/ transactions_' = Without(allocate(imsi, client), {nextTid})
    BY <1>1 DEF HandleGsupRequest, ForwardRequest, RejectRequest
  <2> HIDE DEF allocate
  <2>3. \A tid \in DOMAIN transactions_ \cap DOMAIN transactions_' :
          transactions_'[tid] = transactions_[tid]
    BY <2>1, <2>2 DEF Without, Restrict
  <2> QED
    BY <2>3, EqualIsUntouched
<1>2. CASE HlrAnswers
  <2>1. \A tid \in DOMAIN transactions_' : transactions_'[tid] = transactions_[tid]
    BY <1>2 DEF HlrAnswers, HlrAnswersInvoke, HandleMapAnswer, Without, Restrict
  <2> QED
    BY <2>1, EqualIsUntouched
<1>3. CASE NackAllPendingTransactions
  <2>1. \A tid \in DOMAIN transactions_' : transactions_'[tid] = transactions_[tid]
    BY <1>3 DEF NackAllPendingTransactions, Without, Restrict
  <2> QED
    BY <2>1, EqualIsUntouched
<1>4. CASE HlrInvokes
  BY <1>4, EqualIsUntouched DEF HlrInvokes, HandleHlrInitiated, txMgrVars
<1>5. ASSUME NEW k \in broadcasts, NEW dir \in {"Result", "Error"},
             HandleGsupHlrResponse(k, dir)
      PROVE  Untouched
  BY <1>5, EqualIsUntouched DEF HandleGsupHlrResponse, txMgrVars
<1>6. CASE Tick
  <2>1. \A tid \in DOMAIN transactions_' : transactions_'[tid] = transactions_[tid]
    BY <1>6 DEF Tick, Without, Restrict
  <2> QED
    BY <2>1, EqualIsUntouched
<1>7. CASE Elapse
  <2> SUFFICES ASSUME NEW tid \in DOMAIN transactions_
               PROVE  /\ transactions_'[tid].age >= transactions_[tid].age
                      /\ [transactions_'[tid] EXCEPT !.age = 0]
                           = [transactions_[tid] EXCEPT !.age = 0]
    BY DEF Untouched
  <2>1. transactions_[tid] \in PendingTransaction(Imsi, Client)
    BY DEF TypeOK, TxTypeOK
  <2>2. transactions_'[tid] = [transactions_[tid] EXCEPT !.age =
                                 IF @ > Timeout THEN @ ELSE @ + 1]
    BY <1>7 DEF Elapse, Older
  <2>3. transactions_[tid].age \in Int
    BY <2>1 DEF PendingTransaction, Age
  <2>4. PICK x : /\ transactions_'[tid] = [transactions_[tid] EXCEPT !.age = x]
                 /\ x = transactions_[tid].age \/ x = transactions_[tid].age + 1
    BY <2>2
  <2>5. transactions_'[tid].age = x
    BY <2>1, <2>4 DEF PendingTransaction
  <2>6. transactions_'[tid].age >= transactions_[tid].age
    BY <2>3, <2>4, <2>5
  <2>7. [transactions_'[tid] EXCEPT !.age = 0]
          = [transactions_[tid] EXCEPT !.age = 0]
    BY <2>1, <2>4 DEF PendingTransaction
  <2> QED
    BY <2>6, <2>7
<1>8. CASE UNCHANGED vars
  BY <1>8, EqualIsUntouched DEF vars, txMgrVars
<1> QED
  BY <1>1, <1>2, <1>3, <1>4, <1>5, <1>6, <1>7, <1>8 DEF Next

(* A pending transaction is never redirected, for every size of the TID     *)
(* space and any number of requests: also when TransactionManager's counter *)
(* wraps around into identifiers that are still pending, emplace leaves     *)
(* them to their owner.                                                     *)
THEOREM PendingStable == Spec => PendingUntouched
<1>1. TypeOK /\ [Next]_vars => [Untouched]_vars
  BY NextUntouched
<1> QED
  BY <1>1, TypeCorrect, PTL DEF Spec, PendingUntouched, Untouched
=============================================================================
