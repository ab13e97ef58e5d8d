--------------------------- MODULE ServiceProofs ---------------------------
(***************************************************************************)
(* The proxy implements RequestService, as long as no TID is drawn twice.   *)
(* The step simulation rests on CorrelationInv of ProxyProofs: before and   *)
(* after a step, a request is open exactly when its number is registered,   *)
(* and RequestOK says what became of every other request.                   *)
(***************************************************************************)
EXTENDS ProxyProofs

Open == {n \in DOMAIN requests : Pending(n)}

(* The open requests are the registered TIDs.                               *)
LEMMA OpenIsRegistered == CorrelationInv => Open = DOMAIN transactions_
<1> SUFFICES ASSUME CorrelationInv PROVE Open = DOMAIN transactions_
  OBVIOUS
<1>1. DOMAIN requests = 1 .. Len(requests)
  BY DEF CorrelationInv, TypeOK, SgsnTypeOK
<1> QED
  BY <1>1, PendingIsRegistered DEF Open

LEMMA OpenIsRegisteredNext == (CorrelationInv => Open = DOMAIN transactions_)'
  BY OpenIsRegistered, PTL

LEMMA InitImplements == Init => Service!Init
  BY DEF Init, Service!Init

(* A request that is registered becomes open, one that is rejected does not.*)
LEMMA RequestImplementsAsk ==
  ASSUME NoTidReuse, CorrelationInv, CorrelationInv',
         NEW client \in Client, NEW type \in SgsnTypes, NEW imsi \in Imsi,
         HandleGsupRequest(client, type, imsi)
  PROVE  Service!Next
<1> DEFINE r == [client |-> client, type |-> type, imsi |-> imsi,
                 tid |-> nextTid]
           n == Len(requests) + 1
<1>0. TypeOK /\ TidsCorrelate
  BY DEF CorrelationInv
<1>1. Len(requests) \in Nat /\ Len(requests) < MaxRequests
  BY <1>0 DEF HandleGsupRequest, TypeOK, SgsnTypeOK
<1>2. nextTid = n
  BY <1>0, <1>1 DEF HandleGsupRequest, TidsCorrelate, nextTid
<1>3. n \notin DOMAIN transactions_
  BY <1>1, PendingIsRegistered
<1>4. nextTid \in Tid
  <2>1. TidSpace \in Nat /\ MaxRequests \in Nat
    BY TidSpaceAssumption, BoundsAssumption
  <2> QED
    BY <1>1, <1>2, <2>1 DEF NoTidReuse, Tid
<1>5. r \in ServiceRequest
  BY <1>4 DEF ServiceRequest
<1>6. /\ requests' = Append(requests, r)
      /\ answers' = Append(answers, <<>>)
      /\ dropped' = dropped
      /\ \/ ForwardRequest(n, n, type, imsi, allocate(imsi, client))
         \/ RejectRequest(n, type, allocate(imsi, client))
  BY <1>2 DEF HandleGsupRequest
<1>7. DOMAIN allocate(imsi, client) = DOMAIN transactions_ \cup {n}
  BY <1>2, <1>3 DEF allocate, Emplace, Assign
<1>8. DOMAIN transactions_' = IF type \in GsupToMapTypes
                                THEN DOMAIN transactions_ \cup {n}
                                ELSE DOMAIN transactions_
  BY <1>3, <1>6, <1>7 DEF ForwardRequest, RejectRequest, Without, Restrict
<1>9. Open = DOMAIN transactions_ /\ Open' = DOMAIN transactions_'
  BY OpenIsRegistered, OpenIsRegisteredNext
<1>10. r \in {q \in ServiceRequest : q.type \in GsupToMapTypes}
         <=> type \in GsupToMapTypes
  BY <1>5
<1> HIDE DEF r
<1>11. Service!Ask(r)
  BY <1>1, <1>6, <1>8, <1>9, <1>10 DEF Service!Ask, Open
<1> QED
  BY <1>5, <1>11 DEF Service!Next

(* A step that only closes requests, and touches no other, settles them.    *)
LEMMA ClosingImplementsSettle ==
  ASSUME CorrelationInv, CorrelationInv', requests' = requests,
         DOMAIN transactions_' \subseteq DOMAIN transactions_,
         \A n \in 1 .. Len(requests) :
           n \notin DOMAIN transactions_ \/ n \in DOMAIN transactions_'
             => answers'[n] = answers[n] /\ (n \in dropped' <=> n \in dropped)
  PROVE  Service!Next
<1> DEFINE settled == Open \ Open'
<1>1. Open = DOMAIN transactions_ /\ Open' = DOMAIN transactions_'
  BY OpenIsRegistered, OpenIsRegisteredNext
<1>2. TypeOK /\ TypeOK'
  BY DEF CorrelationInv
<1>3. /\ dropped \subseteq 1 .. Len(requests)
      /\ dropped' \subseteq 1 .. Len(requests)
      /\ DOMAIN answers = 1 .. Len(requests)
      /\ DOMAIN answers' = 1 .. Len(requests)
  BY <1>2 DEF TypeOK, SgsnTypeOK
<1>4. \A n \in 1 .. Len(requests) :
        n \in settled <=> n \in DOMAIN transactions_ /\ n \notin DOMAIN transactions_'
  BY <1>1
<1>5. \A n \in dropped : n \in dropped'
  BY <1>3, PendingUnanswered
<1>6. ASSUME NEW n \in settled
      PROVE  /\ Forwarded(n) /\ ~Pending(n)' /\ RequestOK(n)'
             /\ n \in 1 .. Len(requests)
             /\ n \notin dropped
  <2>1. n \in 1 .. Len(requests) /\ n \in DOMAIN transactions_
    BY <1>1, PendingIsRegistered
  <2>2. n \notin DOMAIN transactions_'
    BY <1>4, <2>1
  <2>3. ~Pending(n)'
    <3>1. n \in DOMAIN requests /\ DOMAIN requests' = DOMAIN requests
      BY <2>1, <1>2, RequestFields
    <3> QED
      BY <1>1, <2>2, <3>1 DEF Open
  <2>4. RequestOK(n)'
    BY <2>1 DEF CorrelationInv
  <2> QED
    BY <2>1, <2>3, <2>4, PendingUnanswered
<1>7. ASSUME NEW n \in dropped' \ dropped
      PROVE  /\ n \in settled
             /\ requests[n] \in {q \in ServiceRequest :
                                   HlrPlain => Refused(q)}
  <2>1. n \in settled
    BY <1>3, <1>4
  <2>2. HlrPlain => Unencodable(n)'
    <3>1. Forwarded(n)' /\ ~Pending(n)' /\ RequestOK(n)' /\ n \in dropped'
      BY <1>6, <2>1 DEF Forwarded
    <3> QED
      BY <3>1 DEF RequestOK
  <2>3. requests[n] \in ServiceRequest
    <3>1. requests \in Seq(ServiceRequest)
      BY <1>2 DEF TypeOK, SgsnTypeOK, ServiceRequest
    <3> QED
      BY <1>3, <3>1
  <2>4. HlrPlain => Refused(requests[n])
    BY <2>2 DEF Unencodable, Refused
  <2> QED
    BY <2>1, <2>3, <2>4
<1>8. ASSUME NEW n \in settled, n \notin dropped'
      PROVE  Len(answers'[n]) = 1 /\ Service!Right(answers'[n][1], requests[n])
  <2>1. n \in 1 .. Len(requests) /\ Forwarded(n)' /\ ~Pending(n)' /\ RequestOK(n)'
    BY <1>6 DEF Forwarded
  <2>2. Len(answers'[n]) = 1
    BY <1>8, <2>1 DEF RequestOK
  <2>3. /\ answers'[n][1].client = requests[n].client
        /\ ~HlrBundles => answers'[n][1].imsi = requests[n].imsi
        /\ HlrPlain => answers'[n][1].type
                         \in {expectedGsupResult(requests[n].type),
                              expectedGsupError(requests[n].type)}
    BY <2>1, <2>2 DEF RequestOK
  <2>4. answers'[n] \in Seq(Answer)
    BY <1>2, <1>3, <2>1 DEF TypeOK, SgsnTypeOK
  <2>5. answers'[n][1] \in Answer
    BY <2>2, <2>4
  <2>6. answers'[n][1].type \in MessageType /\ answers'[n][1].imsi \in Imsi
    BY <2>5 DEF Answer
  <2>7. requests[n].type \in SgsnTypes /\ requests[n].imsi \in Imsi
    BY <1>2, <2>1, RequestFields
  <2> QED
    BY <2>2, <2>3, <2>6, <2>7 DEF Service!Right
<1>9. \A n \in 1 .. Len(requests) : n \notin settled => answers'[n] = answers[n]
  BY <1>4
<1>10. \A n \in settled : n \in dropped' => answers'[n] = answers[n]
  <2> SUFFICES ASSUME NEW n \in settled, n \in dropped'
               PROVE  answers'[n] = answers[n]
    OBVIOUS
  <2>1. answers'[n] = <<>>
    BY <1>6 DEF RequestOK, Forwarded
  <2>2. answers[n] = <<>>
    BY <1>1, PendingUnanswered
  <2> QED
    BY <2>1, <2>2
<1>11. Open' = Open \ settled
  BY <1>1
<1> HIDE DEF settled
<1>12. Service!Settle(settled)
  BY <1>3, <1>5, <1>7, <1>8, <1>9, <1>10, <1>11 DEF Service!Settle, Open
<1>13. settled \in SUBSET Open
  BY DEF settled
<1> QED
  BY <1>12, <1>13 DEF Service!Next, Open

LEMMA MapAnswerImplements ==
  ASSUME CorrelationInv, CorrelationInv', HlrAnswers
  PROVE  Service!Next
<1>1. PICK i \in invokes : HlrAnswersInvoke(i)
  BY DEF HlrAnswers
<1>2. PICK component, carried, front, fits :
        HandleMapAnswer(i, component, carried, front, fits)
  BY <1>1 DEF HlrAnswersInvoke
<1>3. i.req = i.tid
  BY DEF CorrelationInv, TidsCorrelate
<1>4. /\ requests' = requests
      /\ i.tid \in DOMAIN transactions_
      /\ DOMAIN transactions_' = DOMAIN transactions_ \ {i.tid}
      /\ \/ dropped' = dropped \cup {i.tid} /\ answers' = answers
         \/ \E a : /\ dropped' = dropped
                   /\ answers' = [answers EXCEPT ![i.tid] = Append(@, a)]
  BY <1>2, <1>3 DEF HandleMapAnswer, Without, Restrict
<1>5. \A n \in 1 .. Len(requests) :
        n \notin DOMAIN transactions_ \/ n \in DOMAIN transactions_'
          => answers'[n] = answers[n] /\ (n \in dropped' <=> n \in dropped)
  <2> SUFFICES ASSUME NEW n \in 1 .. Len(requests), n # i.tid
               PROVE  answers'[n] = answers[n] /\ (n \in dropped' <=> n \in dropped)
    BY <1>4
  <2>1. n \in DOMAIN answers
    BY RequestFields DEF CorrelationInv
  <2> QED
    BY <1>4, <2>1
<1> QED
  BY <1>4, <1>5, ClosingImplementsSettle

(* Errors are sent for the transactions that are removed, and for no other. *)
LEMMA ErrorsImplement ==
  ASSUME CorrelationInv, CorrelationInv', NEW K,
         K \subseteq DOMAIN transactions_, AnswerWithErrors(K),
         transactions_' = Without(transactions_, K), requests' = requests
  PROVE  Service!Next
<1>1. DOMAIN transactions_' = DOMAIN transactions_ \ K
  BY DEF Without, Restrict
<1>2. ASSUME NEW n \in 1 .. Len(requests), n \notin K
      PROVE  answers'[n] = answers[n] /\ (n \in dropped' <=> n \in dropped)
  <2>1. n \in DOMAIN answers
    BY RequestFields DEF CorrelationInv
  <2>2. requests[n].tid = n
    BY DEF CorrelationInv, TidsCorrelate
  <2>3. \A tid \in K : owner[tid] = tid
    BY PendingIsRegistered
  <2> QED
    BY <1>2, <2>1, <2>2, <2>3 DEF AnswerWithErrors
<1> QED
  BY <1>1, <1>2, ClosingImplementsSettle

LEMMA NackImplements ==
  ASSUME CorrelationInv, CorrelationInv', NackAllPendingTransactions
  PROVE  Service!Next
  BY ErrorsImplement DEF NackAllPendingTransactions

LEMMA TickImplements ==
  ASSUME CorrelationInv, CorrelationInv', Tick
  PROVE  Service!Next
<1>1. expireStale \subseteq DOMAIN transactions_
  BY DEF expireStale
<1>2. expireStale \cap DOMAIN pendingOps_ = expireStale
  BY <1>1 DEF CorrelationInv, MapsInSync
<1> QED
  BY <1>1, <1>2, ErrorsImplement DEF Tick

(* The clock and the HLR-initiated direction are stuttering steps.          *)
LEMMA OthersStutter ==
  ASSUME CorrelationInv, CorrelationInv',
         DOMAIN transactions_' = DOMAIN transactions_, UNCHANGED sgsnHistory
  PROVE  UNCHANGED Service!vars
<1>1. Open' = Open
  BY OpenIsRegistered, OpenIsRegisteredNext
<1> QED
  BY <1>1 DEF Service!vars, Open, sgsnHistory

LEMMA NextImplements ==
  ASSUME NoTidReuse, CorrelationInv, [Next]_vars
  PROVE  [Service!Next]_(Service!vars)
<1>0. CorrelationInv'
  BY CorrelationNext
<1>1. ASSUME NEW client \in Client, NEW type \in SgsnTypes, NEW imsi \in Imsi,
             HandleGsupRequest(client, type, imsi)
      PROVE  Service!Next
  BY <1>0, <1>1, RequestImplementsAsk
<1>2. CASE HlrAnswers
  BY <1>0, <1>2, MapAnswerImplements
<1>3. CASE NackAllPendingTransactions
  BY <1>0, <1>3, NackImplements
<1>4. CASE HlrInvokes
  BY <1>0, <1>4, OthersStutter DEF HlrInvokes, HandleHlrInitiated, txMgrVars
<1>5. ASSUME NEW k \in broadcasts, NEW dir \in {"Result", "Error"},
             HandleGsupHlrResponse(k, dir)
      PROVE  UNCHANGED Service!vars
  BY <1>0, <1>5, OthersStutter DEF HandleGsupHlrResponse, txMgrVars
<1>6. CASE Tick
  BY <1>0, <1>6, TickImplements
<1>7. CASE Elapse
  BY <1>0, <1>7, OthersStutter DEF Elapse, Older
<1>8. CASE UNCHANGED vars
  BY <1>0, <1>8, OthersStutter DEF vars, txMgrVars
<1> QED
  BY <1>1, <1>2, <1>3, <1>4, <1>5, <1>6, <1>7, <1>8 DEF Next

(* As long as no TID is drawn twice, the handlers of the proxy, with its    *)
(* two tables, its wrapping counters, its timeouts and an HLR that answers  *)
(* late, twice or never, implement the service that answers each accepted   *)
(* request once, to whom it is due, or drops it where it may.  What an      *)
(* answer may say, and which requests may be dropped, depends on whether    *)
(* the HLR answers the operation it was asked, in a message of its own.     *)
THEOREM ServiceImplemented ==
  ASSUME NoTidReuse
  PROVE  Spec => ImplementsService
<1>1. Init => CorrelationInv /\ Service!Init
  BY CorrelationInit, InitImplements
<1>2. CorrelationInv /\ [Next]_vars => CorrelationInv'
  BY CorrelationNext
<1>3. CorrelationInv /\ [Next]_vars => [Service!Next]_(Service!vars)
  BY NextImplements
<1> QED
  BY <1>1, <1>2, <1>3, PTL DEF Spec, ImplementsService, Service!Safety
=============================================================================
