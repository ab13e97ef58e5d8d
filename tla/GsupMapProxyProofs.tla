------------------------- MODULE GsupMapProxyProofs -------------------------
(***************************************************************************)
(* Proofs about module GsupMapProxy: the program takes the steps of module  *)
(* Proxy, an answer reaches the connection that asked, and a request that   *)
(* was answered for want of a link is not sent on the next one.             *)
(***************************************************************************)
EXTENDS GsupMapProxy, ServiceProofs, FiniteSetTheorems, SequenceTheorems

USE ImsiAssumption, TidSpaceAssumption, MaxInvokeIdAssumption,
    TimeoutAssumption, SgsnTypesAssumption, HlrProcsAssumption,
    HlrTimeoutAssumption, HlrAssumption, BoundsAssumption,
    SessionsAssumption, ConnectsAssumption

-----------------------------------------------------------------------------
(* Queues of due functions.                                                 *)

CallName == {"MapTransport::send", "IpaServer::send", "IpaSession::sendGsup",
             "connect", "onConnect", "onConnect: error", "ASPAC_ACK",
             "operation failed"}

DueType == [call : CallName, req : Nat, to : Nat]

IsAnswer(f) == f.call \in {"IpaServer::send", "IpaSession::sendGsup"}

IsSend(f) == f.call = "MapTransport::send"

(* The answers that are under way in q are for requests in U, at most one   *)
(* for each, and on their way to the connection a gives for the request.    *)
Delivers(q, U, a) ==
    /\ \A i \in DOMAIN q : IsAnswer(q[i]) =>
         q[i].req \in U /\ q[i].to = a[q[i].req]
    /\ \A i, j \in DOMAIN q :
         IsAnswer(q[i]) /\ IsAnswer(q[j]) /\ q[i].req = q[j].req => i = j

(* Behind every function in q that would send a request in N, onConnect()   *)
(* is due.                                                                  *)
ConnectsAfter(q, N) ==
    \A i \in DOMAIN q : IsSend(q[i]) /\ q[i].req \in N =>
      \E j \in DOMAIN q : j > i /\ q[j] = OnConnect

(* The indices of a concatenation and of a tail.                            *)
LEMMA ConcatIndices ==
  ASSUME NEW q \in Seq(DueType), NEW r \in Seq(DueType)
  PROVE  /\ q \o r \in Seq(DueType)
         /\ Len(q) \in Nat /\ Len(r) \in Nat
         /\ DOMAIN q = 1 .. Len(q) /\ DOMAIN r = 1 .. Len(r)
         /\ DOMAIN (q \o r) = 1 .. Len(q) + Len(r)
         /\ \A i \in 1 .. Len(q) : (q \o r)[i] = q[i]
         /\ \A i \in 1 .. Len(r) : (q \o r)[Len(q) + i] = r[i]
         /\ \A i \in 1 .. Len(q) + Len(r) :
              i \in 1 .. Len(q) \/ i - Len(q) \in 1 .. Len(r)
<1>1. /\ Len(q) \in Nat /\ Len(r) \in Nat
      /\ DOMAIN q = 1 .. Len(q) /\ DOMAIN r = 1 .. Len(r)
  BY LenProperties
<1> QED
  BY <1>1, ConcatProperties

LEMMA TailIndices ==
  ASSUME NEW q \in Seq(DueType), q # <<>>
  PROVE  /\ Tail(q) \in Seq(DueType) /\ Head(q) \in DueType
         /\ Head(q) = q[1]
         /\ Len(q) \in Nat /\ Len(q) >= 1
         /\ DOMAIN q = 1 .. Len(q)
         /\ DOMAIN Tail(q) = 1 .. Len(q) - 1
         /\ \A i \in 1 .. Len(q) - 1 : Tail(q)[i] = q[i + 1]
  BY LenProperties, HeadTailProperties

LEMMA DeliversConcat ==
  ASSUME NEW q \in Seq(DueType), NEW r \in Seq(DueType), NEW U, NEW V, NEW a,
         Delivers(q, U, a), Delivers(r, V, a), U \cap V = {}
  PROVE  Delivers(q \o r, U \cup V, a)
<1> DEFINE s == q \o r
<1>1. /\ Len(q) \in Nat /\ Len(r) \in Nat
      /\ DOMAIN q = 1 .. Len(q) /\ DOMAIN r = 1 .. Len(r)
      /\ DOMAIN s = 1 .. Len(q) + Len(r)
      /\ \A i \in 1 .. Len(q) : s[i] = q[i]
      /\ \A i \in 1 .. Len(r) : s[Len(q) + i] = r[i]
      /\ \A i \in 1 .. Len(q) + Len(r) :
           i \in 1 .. Len(q) \/ i - Len(q) \in 1 .. Len(r)
  BY ConcatIndices
<1> HIDE DEF s
<1>2. \A i \in DOMAIN s : i - Len(q) \in 1 .. Len(r) => s[i] = r[i - Len(q)]
  BY <1>1
<1>3. ASSUME NEW i \in DOMAIN s, IsAnswer(s[i])
      PROVE  /\ s[i].req \in U \cup V /\ s[i].to = a[s[i].req]
             /\ i \in DOMAIN q => s[i].req \in U
             /\ i - Len(q) \in DOMAIN r => s[i].req \in V
  <2>1. CASE i \in 1 .. Len(q)
    BY <1>1, <1>3, <2>1 DEF Delivers
  <2>2. CASE i - Len(q) \in 1 .. Len(r)
    BY <1>1, <1>2, <1>3, <2>2 DEF Delivers
  <2> QED
    BY <1>1, <2>1, <2>2
<1>4. ASSUME NEW i \in DOMAIN s, NEW j \in DOMAIN s, IsAnswer(s[i]),
             IsAnswer(s[j]), s[i].req = s[j].req
      PROVE  i = j
  <2>1. CASE i \in DOMAIN q /\ j \in DOMAIN q
    BY <1>1, <1>4, <2>1 DEF Delivers
  <2>2. CASE i - Len(q) \in DOMAIN r /\ j - Len(q) \in DOMAIN r
    <3>1. i - Len(q) = j - Len(q)
      BY <1>1, <1>2, <1>4, <2>2 DEF Delivers
    <3> QED
      BY <1>1, <3>1
  <2> QED
    BY <1>1, <1>3, <1>4, <2>1, <2>2
<1> QED
  BY <1>3, <1>4 DEF Delivers, s

LEMMA DeliversTail ==
  ASSUME NEW q \in Seq(DueType), q # <<>>, NEW U, NEW a, Delivers(q, U, a)
  PROVE  /\ Delivers(Tail(q), U, a)
         /\ IsAnswer(Head(q)) =>
              /\ Head(q).req \in U /\ Head(q).to = a[Head(q).req]
              /\ Delivers(Tail(q), U \ {Head(q).req}, a)
<1> DEFINE t == Tail(q)
<1>1. /\ Head(q) = q[1]
      /\ Len(q) \in Nat /\ Len(q) >= 1
      /\ DOMAIN q = 1 .. Len(q)
      /\ DOMAIN t = 1 .. Len(q) - 1
      /\ \A i \in 1 .. Len(q) - 1 : t[i] = q[i + 1]
  BY TailIndices
<1> HIDE DEF t
<1>2. \A i \in DOMAIN t : i + 1 \in DOMAIN q /\ t[i] = q[i + 1] /\ i + 1 # 1
  BY <1>1
<1>3. ASSUME NEW i \in DOMAIN t, NEW j \in DOMAIN t, IsAnswer(t[i]),
             IsAnswer(t[j]), t[i].req = t[j].req
      PROVE  i = j
  <2>1. i + 1 = j + 1
    BY <1>2, <1>3 DEF Delivers
  <2> QED
    BY <1>1, <2>1
<1>4. ASSUME NEW i \in DOMAIN t, IsAnswer(t[i])
      PROVE  t[i].req \in U /\ t[i].to = a[t[i].req]
  BY <1>2, <1>4 DEF Delivers
<1>5. ASSUME NEW i \in DOMAIN t, IsAnswer(t[i]), IsAnswer(Head(q))
      PROVE  t[i].req # Head(q).req
  BY <1>1, <1>2, <1>5 DEF Delivers
<1>6. IsAnswer(Head(q)) => Head(q).req \in U /\ Head(q).to = a[Head(q).req]
  BY <1>1 DEF Delivers
<1> QED
  BY <1>3, <1>4, <1>5, <1>6 DEF Delivers, t

LEMMA DeliversMore ==
  ASSUME NEW q, NEW U, NEW V, NEW a, NEW b, Delivers(q, U, a),
         U \subseteq V, \A n \in U : b[n] = a[n]
  PROVE  Delivers(q, V, b)
  BY DEF Delivers

LEMMA DeliversNothing ==
  ASSUME NEW q, NEW U, NEW a, \A i \in DOMAIN q : ~IsAnswer(q[i])
  PROVE  Delivers(q, U, a)
  BY DEF Delivers

(* A single handler as a queue.                                             *)
LEMMA SingleQueue ==
  ASSUME NEW h \in DueType
  PROVE  /\ <<h>> \in Seq(DueType) /\ <<>> \in Seq(DueType)
         /\ DOMAIN <<h>> = {1} /\ <<h>>[1] = h
         /\ \A q \in Seq(DueType) : Append(q, h) = q \o <<h>>
  OBVIOUS

(* The handlers of the link carry no message.                               *)
Quiet(q) == \A i \in DOMAIN q : ~IsAnswer(q[i]) /\ ~IsSend(q[i])

LEMMA LinkHandlers ==
  /\ Connect \in DueType /\ OnConnect \in DueType /\ Failed \in DueType
  /\ OnConnectError \in DueType /\ AspAcAck \in DueType
  /\ \A f \in {Connect, OnConnect, OnConnectError, AspAcAck, Failed} :
       ~IsAnswer(f) /\ ~IsSend(f)
<1>1. /\ Connect \in DueType /\ OnConnect \in DueType /\ Failed \in DueType
      /\ OnConnectError \in DueType /\ AspAcAck \in DueType
  BY DEF Connect, OnConnect, OnConnectError, AspAcAck, Failed, Due, DueType,
         CallName
<1>2. /\ Connect.call = "connect" /\ OnConnect.call = "onConnect"
      /\ Failed.call = "operation failed" /\ AspAcAck.call = "ASPAC_ACK"
      /\ OnConnectError.call = "onConnect: error"
  BY DEF Connect, OnConnect, OnConnectError, AspAcAck, Failed, Due
<1> QED
  BY <1>1, <1>2 DEF IsAnswer, IsSend

LEMMA QuietSingles ==
  /\ \A f \in {Connect, OnConnect, OnConnectError, AspAcAck, Failed} :
       <<f>> \in Seq(DueType) /\ Quiet(<<f>>)
  /\ <<>> \in Seq(DueType) /\ Quiet(<<>>)
<1>1. ASSUME NEW f \in {Connect, OnConnect, OnConnectError, AspAcAck, Failed}
      PROVE  <<f>> \in Seq(DueType) /\ Quiet(<<f>>)
  <2>1. f \in DueType /\ ~IsAnswer(f) /\ ~IsSend(f)
    BY LinkHandlers
  <2> QED
    BY <2>1, SingleQueue DEF Quiet
<1>2. <<>> \in Seq(DueType) /\ Quiet(<<>>)
  BY DEF Quiet
<1> QED
  BY <1>1, <1>2

(* Handlers of the link put behind a queue disturb nothing.                 *)
LEMMA DeliversQuiet ==
  ASSUME NEW q \in Seq(DueType), NEW r \in Seq(DueType), NEW U, NEW a,
         Delivers(q, U, a), Quiet(r)
  PROVE  Delivers(q \o r, U, a)
<1>1. Delivers(r, {}, a)
  BY DeliversNothing DEF Quiet
<1>2. Delivers(q \o r, U \cup {}, a)
  BY <1>1, DeliversConcat
<1>3. U \cup {} = U
  OBVIOUS
<1> QED
  BY <1>2, <1>3

LEMMA ConnectsConcat ==
  ASSUME NEW q \in Seq(DueType), NEW r \in Seq(DueType), NEW N,
         ConnectsAfter(q, N),
         \A i \in DOMAIN r : IsSend(r[i]) => r[i].req \notin N
  PROVE  ConnectsAfter(q \o r, N)
<1> DEFINE s == q \o r
<1>1. /\ Len(q) \in Nat /\ Len(r) \in Nat
      /\ DOMAIN q = 1 .. Len(q) /\ DOMAIN r = 1 .. Len(r)
      /\ DOMAIN s = 1 .. Len(q) + Len(r)
      /\ \A i \in 1 .. Len(q) : s[i] = q[i]
      /\ \A i \in 1 .. Len(r) : s[Len(q) + i] = r[i]
      /\ \A i \in 1 .. Len(q) + Len(r) :
           i \in 1 .. Len(q) \/ i - Len(q) \in 1 .. Len(r)
  BY ConcatIndices
<1> HIDE DEF s
<1>2. \A i \in DOMAIN s : i - Len(q) \in 1 .. Len(r) => s[i] = r[i - Len(q)]
  BY <1>1
<1>3. ASSUME NEW i \in DOMAIN s, IsSend(s[i]), s[i].req \in N
      PROVE  \E j \in DOMAIN s : j > i /\ s[j] = OnConnect
  <2>1. i \in DOMAIN q
    BY <1>1, <1>2, <1>3
  <2>2. PICK j \in DOMAIN q : j > i /\ q[j] = OnConnect
    BY <1>1, <1>3, <2>1 DEF ConnectsAfter
  <2>3. j \in DOMAIN s /\ s[j] = OnConnect
    BY <1>1, <2>2
  <2> QED
    BY <2>2, <2>3
<1> QED
  BY <1>3 DEF ConnectsAfter, s

LEMMA ConnectsTail ==
  ASSUME NEW q \in Seq(DueType), q # <<>>, NEW N, ConnectsAfter(q, N)
  PROVE  ConnectsAfter(Tail(q), N)
<1> DEFINE t == Tail(q)
<1>1. /\ Len(q) \in Nat /\ Len(q) >= 1
      /\ DOMAIN q = 1 .. Len(q)
      /\ DOMAIN t = 1 .. Len(q) - 1
      /\ \A i \in 1 .. Len(q) - 1 : t[i] = q[i + 1]
  BY TailIndices
<1> HIDE DEF t
<1>2. ASSUME NEW i \in DOMAIN t, IsSend(t[i]), t[i].req \in N
      PROVE  \E j \in DOMAIN t : j > i /\ t[j] = OnConnect
  <2>1. i + 1 \in DOMAIN q /\ q[i + 1] = t[i]
    BY <1>1
  <2>2. PICK j \in DOMAIN q : j > i + 1 /\ q[j] = OnConnect
    BY <1>2, <2>1 DEF ConnectsAfter
  <2>3. j - 1 \in DOMAIN t /\ j - 1 > i /\ t[j - 1] = OnConnect
    BY <1>1, <2>2
  <2> QED
    BY <2>3
<1> QED
  BY <1>2 DEF ConnectsAfter, t

(* onConnect() put behind a queue is behind everything in it.               *)
LEMMA ConnectsBehind ==
  ASSUME NEW q \in Seq(DueType), NEW N
  PROVE  ConnectsAfter(q \o <<OnConnect>>, N)
<1>0. <<OnConnect>> \in Seq(DueType) /\ OnConnect \in DueType
  BY LinkHandlers, QuietSingles
<1>1. PICK r \in Seq(DueType) : r = <<OnConnect>>
  BY <1>0, Zenon
<1> DEFINE s == q \o r
<1>2. /\ Len(q) \in Nat /\ Len(r) = 1
      /\ DOMAIN s = 1 .. Len(q) + 1
      /\ s[Len(q) + 1] = OnConnect
  <2>1. Len(r) = 1 /\ r[1] = OnConnect
    BY <1>1
  <2> QED
    BY <2>1, ConcatIndices
<1> HIDE DEF s
<1>3. ASSUME NEW i \in DOMAIN s, IsSend(s[i])
      PROVE  \E j \in DOMAIN s : j > i /\ s[j] = OnConnect
  <2>1. i # Len(q) + 1
    BY <1>2, <1>3, LinkHandlers
  <2> QED
    BY <1>2, <2>1
<1>4. ConnectsAfter(s, N)
  BY <1>3 DEF ConnectsAfter
<1> QED
  BY <1>1, <1>4 DEF s

-----------------------------------------------------------------------------
(* What a step of Proxy adds: at most one request with at most one Invoke,  *)
(* and at most one answer to each request.                                  *)

LEMMA RequestsGrow ==
  ASSUME TypeOK, [Next]_vars
  PROVE  /\ Len(requests) \in Nat /\ Len(requests') \in Nat
         /\ Len(requests') >= Len(requests)
         /\ \A n \in 1 .. Len(requests) : requests'[n] = requests[n]
         /\ \/ invokes' = invokes
            \/ \E i : /\ invokes' = invokes \cup {i}
                      /\ i.req = Len(requests) + 1
                      /\ Len(requests') = Len(requests) + 1
<1>1. /\ requests \in Seq([client : Client, type : SgsnTypes, imsi : Imsi,
                           tid : Tid])
      /\ Len(requests) \in Nat
  BY DEF TypeOK, SgsnTypeOK
<1>2. ASSUME NEW client \in Client, NEW type \in SgsnTypes, NEW imsi \in Imsi,
             HandleGsupRequest(client, type, imsi)
      PROVE  /\ Len(requests') = Len(requests) + 1
             /\ \A n \in 1 .. Len(requests) : requests'[n] = requests[n]
             /\ \/ invokes' = invokes
                \/ \E i : /\ invokes' = invokes \cup {i}
                          /\ i.req = Len(requests) + 1
  <2> DEFINE r == [client |-> client, type |-> type, imsi |-> imsi,
                   tid |-> nextTid]
  <2>1. requests' = Append(requests, r)
    BY <1>2 DEF HandleGsupRequest
  <2> HIDE DEF r
  <2>2. /\ Len(requests') = Len(requests) + 1
        /\ \A n \in 1 .. Len(requests) : requests'[n] = requests[n]
    BY <1>1, <2>1
  <2>3. CASE RejectRequest(nextTid, type, allocate(imsi, client))
    BY <2>2, <2>3 DEF RejectRequest
  <2>4. CASE ForwardRequest(nextTid, Len(requests) + 1, type, imsi,
                            allocate(imsi, client))
    <3> DEFINE i == [req |-> Len(requests) + 1, tid |-> nextTid,
                     invokeId |-> allocate(imsi, client)[nextTid].mapInvokeId,
                     operation |-> gsupToMap(type), imsi |-> imsi]
    <3>1. invokes' = invokes \cup {i} /\ i.req = Len(requests) + 1
      BY <2>4 DEF ForwardRequest
    <3> QED
      BY <2>2, <3>1
  <2> QED
    BY <1>2, <2>3, <2>4 DEF HandleGsupRequest
<1>3. CASE HlrAnswers
  BY <1>1, <1>3 DEF HlrAnswers, HlrAnswersInvoke, HandleMapAnswer
<1>4. CASE NackAllPendingTransactions
  BY <1>1, <1>4 DEF NackAllPendingTransactions
<1>5. CASE HlrInvokes
  BY <1>1, <1>5 DEF HlrInvokes, HandleHlrInitiated, sgsnHistory
<1>6. ASSUME NEW k \in broadcasts, NEW dir \in {"Result", "Error"},
             HandleGsupHlrResponse(k, dir)
      PROVE  requests' = requests /\ invokes' = invokes
  BY <1>6 DEF HandleGsupHlrResponse, sgsnHistory
<1>7. CASE Tick
  BY <1>1, <1>7 DEF Tick
<1>8. CASE Elapse
  BY <1>1, <1>8 DEF Elapse, sgsnHistory
<1>9. CASE UNCHANGED vars
  BY <1>1, <1>9 DEF vars, sgsnHistory
<1> QED
  BY <1>1, <1>2, <1>3, <1>4, <1>5, <1>6, <1>7, <1>8, <1>9 DEF Next

AnswersGrow ==
    \A n \in 1 .. Len(requests) :
      answers'[n] = answers[n] \/ Len(answers'[n]) = Len(answers[n]) + 1

LEMMA ErrorsGrow ==
  ASSUME TypeOK, NEW tids, AnswerWithErrors(tids)
  PROVE  AnswersGrow
<1> SUFFICES ASSUME NEW n \in 1 .. Len(requests)
             PROVE  answers'[n] = answers[n]
                    \/ Len(answers'[n]) = Len(answers[n]) + 1
  BY DEF AnswersGrow
<1>1. n \in DOMAIN answers /\ answers[n] \in Seq(Answer)
  BY RequestFields
<1>2. PICK e : answers'[n] = answers[n] \/ answers'[n] = Append(answers[n], e)
  BY <1>1 DEF AnswerWithErrors
<1> QED
  BY <1>1, <1>2

LEMMA NextGrows ==
  ASSUME TypeOK, [Next]_vars
  PROVE  AnswersGrow
<1>1. ASSUME NEW client \in Client, NEW type \in SgsnTypes, NEW imsi \in Imsi,
             HandleGsupRequest(client, type, imsi)
      PROVE  AnswersGrow
  BY <1>1 DEF HandleGsupRequest, AnswersGrow, TypeOK, SgsnTypeOK
<1>2. ASSUME NEW i \in invokes, NEW component, NEW carried, NEW front,
             NEW fits, HandleMapAnswer(i, component, carried, front, fits)
      PROVE  AnswersGrow
  <2> SUFFICES ASSUME NEW n \in 1 .. Len(requests)
               PROVE  answers'[n] = answers[n]
                      \/ Len(answers'[n]) = Len(answers[n]) + 1
    BY DEF AnswersGrow
  <2>1. n \in DOMAIN answers /\ answers[n] \in Seq(Answer)
    BY RequestFields
  <2>2. PICK e : answers' = answers
                 \/ answers' = [answers EXCEPT ![i.req] = Append(@, e)]
    BY <1>2 DEF HandleMapAnswer
  <2>3. answers'[n] = answers[n] \/ answers'[n] = Append(answers[n], e)
    BY <2>1, <2>2
  <2> QED
    BY <2>1, <2>3
<1>3. CASE NackAllPendingTransactions
  BY <1>3, ErrorsGrow DEF NackAllPendingTransactions
<1>4. CASE HlrInvokes
  BY <1>4 DEF HlrInvokes, HandleHlrInitiated, sgsnHistory, AnswersGrow
<1>5. ASSUME NEW k \in broadcasts, NEW dir \in {"Result", "Error"},
             HandleGsupHlrResponse(k, dir)
      PROVE  AnswersGrow
  BY <1>5 DEF HandleGsupHlrResponse, sgsnHistory, AnswersGrow
<1>6. CASE Tick
  BY <1>6, ErrorsGrow DEF Tick
<1>7. CASE Elapse
  BY <1>7 DEF Elapse, sgsnHistory, AnswersGrow
<1>8. CASE UNCHANGED vars
  BY <1>8 DEF vars, sgsnHistory, AnswersGrow
<1> QED
  BY <1>1, <1>2, <1>3, <1>4, <1>5, <1>6, <1>7, <1>8
     DEF Next, HlrAnswers, HlrAnswersInvoke

-----------------------------------------------------------------------------
(* The calls of send() that a handler of Proxy makes.                       *)

LEMMA AnsweredFacts ==
  ASSUME TypeOK, [Next]_vars, NEW n \in Answered
  PROVE  /\ n \in 1 .. Len(requests) /\ n \in 1 .. Len(requests')
         /\ answers[n] \in Seq(Answer) /\ answers'[n] \in Seq(Answer)
         /\ Len(answers'[n]) = Len(answers[n]) + 1
         /\ Last(answers'[n]) = answers'[n][Len(answers'[n])]
         /\ Len(answers'[n]) \in 1 .. Len(answers'[n])
         /\ Last(answers'[n]).client \in Client
<1>1. TypeOK' /\ AnswersGrow
  BY NextTypes, NextGrows
<1>2. n \in 1 .. Len(requests) /\ answers'[n] # answers[n]
  BY DEF Answered, TypeOK, SgsnTypeOK
<1>3. n \in 1 .. Len(requests')
  BY <1>2, RequestsGrow
<1>4. answers[n] \in Seq(Answer)
  BY <1>2, RequestFields
<1>5. answers'[n] \in Seq(Answer)
  BY <1>1, <1>3 DEF TypeOK, SgsnTypeOK
<1>6. Len(answers'[n]) = Len(answers[n]) + 1
  BY <1>1, <1>2 DEF AnswersGrow
<1>7. Last(answers'[n]) = answers'[n][Len(answers'[n])]
  BY DEF Last
<1>8. Len(answers'[n]) \in 1 .. Len(answers'[n])
  BY <1>4, <1>5, <1>6
<1>9. Last(answers'[n]) \in Answer
  BY <1>5, <1>7, <1>8
<1> QED
  BY <1>2, <1>3, <1>4, <1>5, <1>6, <1>7, <1>8, <1>9 DEF Answer

LEMMA PostsFacts ==
  ASSUME TypeOK, [Next]_vars, NEW calls \in Posts
  PROVE  /\ calls \in Seq(DueType)
         /\ \A i \in DOMAIN calls :
              \/ calls[i] = SendMap(Len(requests) + 1)
              \/ \E n \in Answered :
                   calls[i] = SendGsup(n, Last(answers'[n]).client)
         /\ \A i, j \in DOMAIN calls : calls[i] = calls[j] => i = j
<1> DEFINE M == {SendMap(i.req) : i \in invokes' \ invokes}
           G == {SendGsup(n, Last(answers'[n]).client) : n \in Answered}
           S == M \cup G
<1>1. M \subseteq {SendMap(Len(requests) + 1)} /\ Len(requests) \in Nat
  BY RequestsGrow
<1>2. IsFiniteSet(Answered)
  <2>1. Answered \in SUBSET (1 .. Len(requests))
    BY AnsweredFacts
  <2>2. IsFiniteSet(1 .. Len(requests))
    <3>1. 1 \in Int /\ Len(requests) \in Int
      BY <1>1
    <3> QED
      BY <3>1, FS_Interval, Zenon
  <2> HIDE DEF M, G
  <2> QED
    BY <2>1, <2>2, FS_Subset
<1>3. IsFiniteSet(G)
  <2> DEFINE g == [n \in Answered |-> SendGsup(n, Last(answers'[n]).client)]
  <2>1. g \in Surjection(Answered, G)
    BY Zenon DEF Surjection
  <2> HIDE DEF g, G
  <2> QED
    BY <1>2, <2>1, FS_Surjection
<1>4. IsFiniteSet(M)
  <2>1. IsFiniteSet({SendMap(Len(requests) + 1)})
    BY FS_Singleton
  <2>2. M \in SUBSET {SendMap(Len(requests) + 1)}
    BY <1>1
  <2> HIDE DEF M
  <2> QED
    BY <2>1, <2>2, FS_Subset
<1>5. S \subseteq DueType
  <2>1. SendMap(Len(requests) + 1) \in DueType
    BY <1>1 DEF SendMap, Due, DueType, CallName
  <2>2. ASSUME NEW n \in Answered
        PROVE  SendGsup(n, Last(answers'[n]).client) \in DueType
    <3>1. n \in Nat /\ Last(answers'[n]).client \in Nat
      BY <1>1, AnsweredFacts
    <3> QED
      BY <3>1 DEF SendGsup, Due, DueType, CallName
  <2> QED
    BY <1>1, <2>1, <2>2
<1>6. calls \in SetToSeqs(S)
  BY DEF Posts
<1>7. \A f \in S : \/ f = SendMap(Len(requests) + 1)
                   \/ \E n \in Answered :
                        f = SendGsup(n, Last(answers'[n]).client)
  BY <1>1
<1>8. IsFiniteSet(S)
  <2> HIDE DEF M, G
  <2> QED
    BY <1>3, <1>4, FS_Union
<1> HIDE DEF S
<1>9. Cardinality(S) \in Nat
  BY <1>8, FS_CardinalityType
<1>10. /\ calls \in [1 .. Cardinality(S) -> S]
       /\ \A i, j \in 1 .. Cardinality(S) : i # j => calls[i] # calls[j]
  BY <1>6 DEF SetToSeqs
<1>11. calls \in [1 .. Cardinality(S) -> DueType]
  BY <1>5, <1>10
<1>12. calls \in Seq(DueType)
  BY <1>9, <1>11, FunctionIsSeq
<1>13. DOMAIN calls = 1 .. Cardinality(S) /\ \A i \in DOMAIN calls : calls[i] \in S
  BY <1>10
<1> QED
  BY <1>7, <1>10, <1>12, <1>13

-----------------------------------------------------------------------------
(* A ClientId is the number of its connection.                              *)

SessionsOK ==
    /\ session \in Seq(Nat)
    /\ Len(session) <= MaxSessions
    /\ \A c \in DOMAIN session : session[c] = c
    /\ DOMAIN sessions_ \subseteq 1 .. Len(session)
    /\ \A id \in DOMAIN sessions_ : sessions_[id] = id

LEMMA SessionsInit == ProgramInit => SessionsOK
  BY EmptyMapFacts DEF ProgramInit, SessionsOK

LEMMA SessionsNext ==
  ASSUME SessionsOK, [ProgramNext]_programVars
  PROVE  SessionsOK'
<1>1. CASE UNCHANGED sessionVars
  BY <1>1 DEF SessionsOK, sessionVars
<1>2. CASE SessionReady
  <2> DEFINE c == Len(session) + 1
  <2>1. /\ session' = Append(session, c)
        /\ sessions_' = Assign(sessions_, c, c)
        /\ Len(session) < MaxSessions /\ session \in Seq(Nat)
        /\ Len(session) \in Nat /\ c \in Nat
    BY <1>2 DEF SessionReady, nextClientId_, SessionsOK
  <2>2. /\ session' \in Seq(Nat) /\ Len(session') = c
        /\ DOMAIN session' = 1 .. c
        /\ \A k \in 1 .. c : session'[k] = IF k = c THEN c ELSE session[k]
        /\ \A k \in 1 .. c : k # c => k \in DOMAIN session
    BY <2>1
  <2>3. \A k \in DOMAIN session' : session'[k] = k
    BY <2>2 DEF SessionsOK
  <2>4. Len(session') <= MaxSessions
    BY <2>1, <2>2
  <2>5. /\ DOMAIN sessions_' = DOMAIN sessions_ \cup {c}
        /\ \A id \in DOMAIN sessions_' :
             sessions_'[id] = IF id = c THEN c ELSE sessions_[id]
    BY <2>1 DEF Assign
  <2>6. \A id \in DOMAIN sessions_' : sessions_'[id] = id
    BY <2>5 DEF SessionsOK
  <2>7. DOMAIN sessions_' \subseteq 1 .. Len(session')
    BY <2>1, <2>2, <2>5 DEF SessionsOK
  <2> QED
    BY <2>2, <2>3, <2>4, <2>6, <2>7 DEF SessionsOK
<1>3. ASSUME NEW id \in DOMAIN sessions_, SessionDisconnects(id)
      PROVE  SessionsOK'
  BY <1>3 DEF SessionDisconnects, SessionsOK, Without, Restrict
<1> QED
  BY <1>1, <1>2, <1>3
     DEF ProgramNext, programVars, sessionVars, SgsnAsks, HlrAnswersSent,
         ExpiryTick, ClockElapses, TimerExpires, ConnectCompletes, AckArrives,
         WriteFails, LinkFails, Completes, Run, RunSendMap, RunSendGsup,
         RunEnqueueGsup, RunConnect, RunOnConnect, RunOnConnectError,
         RunAspAcAck, OperationFailed

(* Every step of the program is a step of Proxy, or leaves it alone.        *)
LEMMA ProgramStep ==
  ASSUME SessionsOK, [ProgramNext]_programVars
  PROVE  [Next]_vars
<1>1. CASE SgsnAsks
  <2>1. PICK connection \in DOMAIN session, type \in SgsnTypes, imsi \in Imsi :
          HandleGsupRequest(session[connection], type, imsi)
    BY <1>1 DEF SgsnAsks
  <2>2. session[connection] \in Client
    BY DEF SessionsOK
  <2> QED
    BY <2>1, <2>2 DEF Next
<1>2. CASE HlrAnswersSent
  BY <1>2 DEF HlrAnswersSent, Next, HlrAnswers
<1>3. CASE ExpiryTick
  BY <1>3 DEF ExpiryTick, Next
<1>4. CASE ClockElapses
  BY <1>4 DEF ClockElapses, Next
<1>5. CASE OperationFailed
  BY <1>5 DEF OperationFailed, Next
<1>6. CASE UNCHANGED vars
  BY <1>6
<1> QED
  BY <1>1, <1>2, <1>3, <1>4, <1>5, <1>6
     DEF ProgramNext, programVars, TimerExpires, ConnectCompletes, AckArrives,
         WriteFails, LinkFails, Completes, Run, RunSendMap, RunSendGsup,
         RunEnqueueGsup, RunConnect, RunOnConnect, RunOnConnectError,
         RunAspAcAck, SessionReady, SessionDisconnects

(* The program keeps the types of Proxy's tables.                           *)
LEMMA ProgramTypes ==
  ASSUME SessionsOK, TypeOK, [ProgramNext]_programVars
  PROVE  TypeOK'
  BY ProgramStep, NextTypes

(* The program main() assembles implements Proxy: every step of it is a     *)
(* handler of Proxy with the inputs Proxy expects, or leaves Proxy's tables *)
(* alone.  What the other theorems say of Proxy's steps, they say of the    *)
(* program, where the transports decide when the handlers run.              *)
THEOREM ProgramImplementsProxy == ProgramSpec => Init /\ [][Next]_vars
<1>1. ProgramInit => Init /\ SessionsOK
  BY SessionsInit DEF ProgramInit
<1>2. SessionsOK /\ [ProgramNext]_programVars => SessionsOK' /\ [Next]_vars
  BY SessionsNext, ProgramStep
<1> QED
  BY <1>1, <1>2, PTL DEF ProgramSpec

(* As long as no TID is drawn twice, the program main() assembles gives the *)
(* SGSNs the service: with sends that are only posted, a link that comes    *)
(* and goes and SGSNs that connect and leave, Proxy's handlers still accept *)
(* each request once and settle it once, for whom it is due.                *)
THEOREM ProgramServes ==
  ASSUME NoTidReuse
  PROVE  ProgramSpec => ImplementsService
<1>1. ProgramInit => SessionsOK /\ CorrelationInv /\ Service!Init
  BY SessionsInit, CorrelationInit, InitImplements DEF ProgramInit
<1>2. SessionsOK /\ CorrelationInv /\ [ProgramNext]_programVars =>
        SessionsOK' /\ CorrelationInv' /\ [Service!Next]_(Service!vars)
  <2> SUFFICES ASSUME SessionsOK, CorrelationInv, [ProgramNext]_programVars
               PROVE  /\ SessionsOK' /\ CorrelationInv'
                      /\ [Service!Next]_(Service!vars)
    OBVIOUS
  <2>1. SessionsOK' /\ [Next]_vars
    BY SessionsNext, ProgramStep
  <2> QED
    BY <2>1, CorrelationNext, NextImplements
<1> QED
  BY <1>1, <1>2, PTL DEF ProgramSpec, ImplementsService, Service!Safety

-----------------------------------------------------------------------------
(* What a step makes of the queue.                                          *)

(* p is q after functions were taken from its head and functions that       *)
(* carry no new message were added.                                         *)
Follows(p, q) ==
    /\ p \in Seq(DueType)
    /\ \A U, a : Delivers(q, U, a) => Delivers(p, U, a)
    /\ \A N : ConnectsAfter(q, N) => ConnectsAfter(p, N)

LEMMA FollowsItself ==
  ASSUME NEW q \in Seq(DueType)
  PROVE  Follows(q, q)
  BY DEF Follows

LEMMA FollowsTail ==
  ASSUME NEW q \in Seq(DueType), q # <<>>
  PROVE  Follows(Tail(q), q)
<1>1. Tail(q) \in Seq(DueType)
  BY TailIndices
<1>2. ASSUME NEW U, NEW a, Delivers(q, U, a)
      PROVE  Delivers(Tail(q), U, a)
  BY <1>2, DeliversTail
<1>3. ASSUME NEW N, ConnectsAfter(q, N)
      PROVE  ConnectsAfter(Tail(q), N)
  BY <1>3, ConnectsTail
<1> QED
  BY <1>1, <1>2, <1>3, Zenon DEF Follows

LEMMA FollowsQuiet ==
  ASSUME NEW q, NEW p, Follows(p, q), NEW r \in Seq(DueType), Quiet(r)
  PROVE  Follows(p \o r, q)
<1>0. p \in Seq(DueType)
  BY DEF Follows
<1>1. p \o r \in Seq(DueType)
  BY <1>0, ConcatIndices
<1>2. ASSUME NEW U, NEW a, Delivers(q, U, a)
      PROVE  Delivers(p \o r, U, a)
  <2>1. Delivers(p, U, a)
    BY <1>2, Zenon DEF Follows
  <2> QED
    BY <1>0, <2>1, DeliversQuiet
<1>3. ASSUME NEW N, ConnectsAfter(q, N)
      PROVE  ConnectsAfter(p \o r, N)
  <2>1. ConnectsAfter(p, N)
    BY <1>3, Zenon DEF Follows
  <2> QED
    BY <1>0, <2>1, ConnectsConcat DEF Quiet
<1> QED
  BY <1>1, <1>2, <1>3, Zenon DEF Follows

(* What close() and startRead() put into the queue are handlers of the link. *)
LEMMA AbortedQuiet ==
  /\ \A aborted \in Aborted : aborted \in Seq(DueType) /\ Quiet(aborted)
  /\ StartRead \in Seq(DueType) /\ Quiet(StartRead)
<1>1. Aborted \subseteq {<<OnConnectError>>, <<Failed>>, <<>>,
                        Append(<<Failed>>, Failed)}
  <2>1. AbortedRead \in {<<Failed>>, <<>>}
    BY Zenon DEF AbortedRead
  <2>2. Append(AbortedRead, Failed) \in {<<Failed>>, Append(<<Failed>>, Failed)}
    BY <2>1, SingleIndex, Zenon
  <2>3. CASE socket_ = "opening"
    BY <2>3, Zenon DEF Aborted
  <2>4. CASE socket_ = "connected"
    BY <2>1, <2>2, <2>4 DEF Aborted
  <2>5. CASE socket_ = "unwritable"
    BY <2>1, <2>5 DEF Aborted
  <2>6. CASE socket_ \notin {"opening", "connected", "unwritable"}
    BY <2>6 DEF Aborted
  <2> QED
    BY <2>3, <2>4, <2>5, <2>6
<1>2. StartRead \in {<<Failed>>, <<>>}
  BY DEF StartRead
<1>3. /\ Append(<<Failed>>, Failed) \in Seq(DueType)
      /\ Quiet(Append(<<Failed>>, Failed))
  <2>1. ASSUME NEW S, NEW f \in S
        PROVE  /\ Append(<<f>>, f) \in Seq(S)
               /\ \A i \in DOMAIN Append(<<f>>, f) : Append(<<f>>, f)[i] = f
    <3>1. <<f>> \in Seq(S) /\ Len(<<f>>) = 1 /\ <<f>>[1] = f
      OBVIOUS
    <3> QED
      BY <3>1
  <2>2. Failed \in DueType /\ ~IsAnswer(Failed) /\ ~IsSend(Failed)
    BY LinkHandlers
  <2> QED
    BY <2>1, <2>2, Zenon DEF Quiet
<1> QED
  BY <1>1, <1>2, <1>3, QuietSingles

(* send() of IpaServer passes an answer on to the connection it is for.     *)
LEMMA FollowsSendGsup ==
  ASSUME SessionsOK, ready \in Seq(DueType), RunSendGsup
  PROVE  Follows(ready', ready)
<1> DEFINE h == Head(ready)
           e == EnqueueGsup(h.req, sessions_[h.to])
<1>1. ready # <<>> /\ h.call = "IpaServer::send" /\ IsAnswer(h)
  BY DEF RunSendGsup, RunsCall, IsAnswer
<1>2. /\ Tail(ready) \in Seq(DueType) /\ h \in DueType
      /\ Follows(Tail(ready), ready)
  BY <1>1, TailIndices, FollowsTail
<1>3. CASE h.to \notin DOMAIN sessions_
  BY <1>2, <1>3 DEF RunSendGsup
<1>4. CASE h.to \in DOMAIN sessions_
  <2>1. /\ e = EnqueueGsup(h.req, h.to)
        /\ h.req \in Nat /\ h.to \in Nat
    BY <1>2, <1>4 DEF SessionsOK, DueType
  <2>2. /\ e \in DueType /\ e.req = h.req /\ e.to = h.to
        /\ e.call = "IpaSession::sendGsup"
    BY <2>1 DEF EnqueueGsup, Due, DueType, CallName
  <2>3. IsAnswer(e) /\ ~IsSend(e)
    BY <2>2 DEF IsAnswer, IsSend
  <2>4. ready' = Append(Tail(ready), e)
    BY <1>4 DEF RunSendGsup
  <2> HIDE DEF e
  <2>5. PICK t \in Seq(DueType) : t = Tail(ready)
    BY <1>2, Zenon
  <2>6. <<e>> \in Seq(DueType) /\ DOMAIN <<e>> = {1} /\ <<e>>[1] = e
    BY <2>2, SingleQueue
  <2>7. PICK r \in Seq(DueType) : r = <<e>>
    BY <2>6, Zenon
  <2>8. ready' = t \o r
    BY <2>2, <2>4, <2>5, <2>7, SingleQueue
  <2>9. t \o r \in Seq(DueType)
    BY ConcatIndices
  <2>10. DOMAIN r = {1} /\ r[1] = e
    BY <2>6, <2>7
  <2>11. ASSUME NEW U, NEW a, Delivers(ready, U, a)
         PROVE  Delivers(t \o r, U, a)
    <3>1. /\ h.req \in U /\ h.to = a[h.req]
          /\ Delivers(t, U \ {h.req}, a)
      BY <1>1, <2>5, <2>11, DeliversTail
    <3>2. Delivers(r, {h.req}, a)
      BY <2>2, <2>10, <3>1 DEF Delivers
    <3>3. Delivers(t \o r, (U \ {h.req}) \cup {h.req}, a)
      BY <3>1, <3>2, DeliversConcat
    <3>4. (U \ {h.req}) \cup {h.req} = U
      BY <3>1
    <3> QED
      BY <3>3, <3>4
  <2>12. ASSUME NEW N, ConnectsAfter(ready, N)
         PROVE  ConnectsAfter(t \o r, N)
    <3>1. ConnectsAfter(t, N)
      BY <1>1, <2>5, <2>12, ConnectsTail
    <3>2. \A i \in DOMAIN r : IsSend(r[i]) => r[i].req \notin N
      BY <2>3, <2>10
    <3> QED
      BY <3>1, <3>2, ConnectsConcat
  <2>13. Follows(t \o r, ready)
    BY <2>9, <2>11, <2>12, Zenon DEF Follows
  <2> QED
    BY <2>8, <2>13
<1> QED
  BY <1>3, <1>4

(* Every step puts at most the calls of one handler of Proxy behind what    *)
(* follows the queue.                                                       *)
LEMMA QueueStep ==
  ASSUME SessionsOK, ready \in Seq(DueType), [ProgramNext]_programVars
  PROVE  \E base \in Seq(DueType) :
           /\ Follows(base, ready)
           /\ \/ ready' = base
              \/ \E calls \in Posts : ready' = base \o calls
<1>0. Follows(ready, ready) /\ (ready # <<>> => Follows(Tail(ready), ready))
  BY FollowsItself, FollowsTail
<1>a. \A base : Follows(base, ready) => base \in Seq(DueType)
  BY DEF Follows
<1>1. CASE SgsnAsks \/ HlrAnswersSent \/ ExpiryTick
  BY <1>0, <1>1 DEF SgsnAsks, HlrAnswersSent, ExpiryTick
<1>2. CASE UNCHANGED ready
  BY <1>0, <1>2
<1>3. CASE OperationFailed
  <2>1. PICK aborted \in Aborted :
          /\ ready # <<>>
          /\ \E calls \in Posts : ready' = (Tail(ready) \o aborted) \o calls
    BY <1>3 DEF OperationFailed, Runs
  <2>2. Follows(Tail(ready) \o aborted, ready)
    BY <1>0, <2>1, AbortedQuiet, FollowsQuiet
  <2> QED
    BY <1>a, <2>1, <2>2
<1>4. CASE RunSendGsup
  <2>1. Follows(ready', ready)
    BY <1>4, FollowsSendGsup
  <2> QED
    BY <1>a, <2>1
<1>5. CASE RunConnect \/ RunOnConnect \/ RunOnConnectError \/ RunAspAcAck
  <2>0. ready # <<>> /\ Tail(ready) \in Seq(DueType)
    BY <1>5, TailIndices
       DEF RunConnect, RunOnConnect, RunOnConnectError, RunAspAcAck, Runs
  <2>1. \/ \E aborted \in Aborted : ready' = Tail(ready) \o aborted
        \/ ready' = Append(Tail(ready), OnConnectError)
        \/ ready' = Tail(ready) \o StartRead
        \/ ready' = Tail(ready)
    BY <1>5 DEF RunConnect, RunOnConnect, RunOnConnectError, RunAspAcAck, Runs
  <2>2. /\ \A aborted \in Aborted : Follows(Tail(ready) \o aborted, ready)
        /\ Follows(Tail(ready) \o StartRead, ready)
    BY <1>0, <2>0, AbortedQuiet, FollowsQuiet
  <2>3. Append(Tail(ready), OnConnectError) = Tail(ready) \o <<OnConnectError>>
    BY <2>0, LinkHandlers, SingleQueue
  <2>4. Follows(Tail(ready) \o <<OnConnectError>>, ready)
    BY <1>0, <2>0, QuietSingles, FollowsQuiet
  <2> QED
    BY <1>0, <1>a, <2>0, <2>1, <2>2, <2>3, <2>4
<1>6. CASE RunSendMap \/ RunEnqueueGsup
  <2>1. ready # <<>> /\ Tail(ready) \in Seq(DueType)
    BY <1>6, TailIndices DEF RunSendMap, RunEnqueueGsup, RunsCall
  <2>2. ready' = Tail(ready) \/ ready' = Append(Tail(ready), Failed)
    BY <1>6 DEF RunSendMap, RunEnqueueGsup
  <2>3. Append(Tail(ready), Failed) = Tail(ready) \o <<Failed>>
    BY <2>1, LinkHandlers, SingleQueue
  <2>4. Follows(Tail(ready) \o <<Failed>>, ready)
    BY <1>0, <2>1, QuietSingles, FollowsQuiet
  <2> QED
    BY <1>0, <1>a, <2>1, <2>2, <2>3, <2>4
<1>7. ASSUME NEW handlers \in Seq(DueType), Quiet(handlers),
             ready' = ready \o handlers
      PROVE  \E base \in Seq(DueType) :
               Follows(base, ready) /\ ready' = base
  <2>1. Follows(ready \o handlers, ready)
    BY <1>0, <1>7, FollowsQuiet
  <2> QED
    BY <1>7, <1>a, <2>1
<1>8. CASE TimerExpires
  <2>1. ready' = ready \o <<Connect>>
    BY <1>8, LinkHandlers, SingleQueue DEF TimerExpires
  <2> QED
    BY <1>7, <2>1, QuietSingles
<1>9. CASE ConnectCompletes
  <2>1. ready' = ready \o <<OnConnect>> \/ ready' = ready \o <<OnConnectError>>
    BY <1>9 DEF ConnectCompletes, Completes
  <2> QED
    BY <1>7, <2>1, QuietSingles
<1>10. CASE AckArrives
  <2>1. ready' = ready \o <<AspAcAck>>
    BY <1>10 DEF AckArrives, Completes
  <2> QED
    BY <1>7, <2>1, QuietSingles
<1>11. CASE WriteFails
  <2>1. ready' = ready \o <<Failed>>
    BY <1>11 DEF WriteFails, Completes
  <2> QED
    BY <1>7, <2>1, QuietSingles
<1>12. CASE LinkFails
  <2>1. ready' = ready \o <<Failed>> \/ ready' = ready \o <<>>
    BY <1>12 DEF LinkFails, Completes
  <2> QED
    BY <1>7, <2>1, QuietSingles
<1> QED
  BY <1>1, <1>2, <1>3, <1>4, <1>5, <1>6, <1>8, <1>9, <1>10, <1>11, <1>12
     DEF ProgramNext, programVars, Run, ClockElapses, SessionReady,
         SessionDisconnects

LEMMA QueueTypes ==
  ASSUME TypeOK, SessionsOK, ready \in Seq(DueType), [ProgramNext]_programVars
  PROVE  ready' \in Seq(DueType)
<1>1. PICK base \in Seq(DueType) :
        \/ ready' = base
        \/ \E calls \in Posts : ready' = base \o calls
  BY QueueStep
<1>2. ASSUME NEW calls \in Posts
      PROVE  base \o calls \in Seq(DueType)
  <2>1. calls \in Seq(DueType)
    BY ProgramStep, PostsFacts
  <2> QED
    BY <2>1, ConcatIndices
<1> QED
  BY <1>1, <1>2

-----------------------------------------------------------------------------
(* A request that was answered because the link was lost.                   *)

(* While a socket is connected, or was since close(), the functions that    *)
(* would still send a request answered by nackAllPendingTransactions run    *)
(* before onConnect().                                                      *)
LinkInv ==
    /\ TypeOK
    /\ SessionsOK
    /\ ready \in Seq(DueType)
    /\ nacked \subseteq 1 .. Len(requests)
    /\ socket_ \in {"closed", "opening"} \/ ConnectsAfter(ready, nacked)

LEMMA LinkInit == ProgramInit => LinkInv
  BY InitTypes, SessionsInit DEF ProgramInit, LinkInv

(* Only close(), connect and the completion of a connect decide which       *)
(* connection what is queued would be sent on.                              *)
LEMMA SocketStep ==
  ASSUME [ProgramNext]_programVars
  PROVE  \/ socket_' \in {"closed", "opening"}
         \/ ready' = ready \o <<OnConnect>>
         \/ socket_ \notin {"closed", "opening"} /\ nacked' = nacked
<1>1. CASE UNCHANGED <<socket_, nacked>>
  BY <1>1
<1>2. CASE OperationFailed \/ RunConnect
  BY <1>1, <1>2 DEF OperationFailed, RunConnect, ghosts
<1>3. CASE ConnectCompletes
  BY <1>3 DEF ConnectCompletes, Completes
<1>4. CASE AckArrives \/ WriteFails \/ LinkFails
  BY <1>4 DEF AckArrives, WriteFails, LinkFails, Completes, ghosts
<1> QED
  BY <1>1, <1>2, <1>3, <1>4
     DEF ProgramNext, programVars, linkVars, ghosts, SgsnAsks, HlrAnswersSent,
         ExpiryTick, ClockElapses, TimerExpires, Run, RunSendMap, RunSendGsup,
         RunEnqueueGsup, RunOnConnect, RunOnConnectError, RunAspAcAck,
         SessionReady, SessionDisconnects

LEMMA NackedAreRequests ==
  ASSUME TypeOK, SessionsOK, nacked \subseteq 1 .. Len(requests),
         [ProgramNext]_programVars
  PROVE  nacked' \subseteq 1 .. Len(requests')
<1>1. [Next]_vars
  BY ProgramStep
<1>2. nacked' = nacked \/ nacked' = nacked \cup Answered
  BY DEF ProgramNext, programVars, ghosts, SgsnAsks, HlrAnswersSent,
         ExpiryTick, ClockElapses, TimerExpires, Run, RunSendMap, RunSendGsup,
         RunEnqueueGsup, RunConnect, RunOnConnect, RunOnConnectError,
         RunAspAcAck, OperationFailed, ConnectCompletes, AckArrives,
         WriteFails, LinkFails, Completes, SessionReady, SessionDisconnects
<1>3. Answered \subseteq 1 .. Len(requests')
  BY <1>1, AnsweredFacts
<1>4. nacked \subseteq 1 .. Len(requests')
  BY <1>1, RequestsGrow
<1> QED
  BY <1>2, <1>3, <1>4

(* The calls of a handler send no request that was received before.         *)
LEMMA PostsSendNew ==
  ASSUME TypeOK, [Next]_vars, NEW calls \in Posts,
         NEW N \in SUBSET (1 .. Len(requests))
  PROVE  \A i \in DOMAIN calls : IsSend(calls[i]) => calls[i].req \notin N
<1> SUFFICES ASSUME NEW i \in DOMAIN calls, IsSend(calls[i])
             PROVE  calls[i].req \notin N
  OBVIOUS
<1>1. \A n, c : ~IsSend(SendGsup(n, c))
  BY DEF SendGsup, Due, IsSend
<1>2. calls[i] = SendMap(Len(requests) + 1)
  BY <1>1, PostsFacts
<1>3. calls[i].req = Len(requests) + 1
  BY <1>2 DEF SendMap, Due
<1> QED
  BY <1>3, RequestsGrow

LEMMA LinkNext ==
  ASSUME LinkInv, [ProgramNext]_programVars
  PROVE  LinkInv'
<1>1. /\ TypeOK /\ SessionsOK /\ ready \in Seq(DueType)
      /\ nacked \subseteq 1 .. Len(requests)
      /\ socket_ \in {"closed", "opening"} \/ ConnectsAfter(ready, nacked)
  BY DEF LinkInv
<1>2. [Next]_vars
  BY <1>1, ProgramStep
<1>3. TypeOK' /\ SessionsOK'
  BY <1>1, ProgramTypes, SessionsNext
<1>4. nacked' \subseteq 1 .. Len(requests')
  BY <1>1, NackedAreRequests
<1>5. PICK base \in Seq(DueType) :
        /\ Follows(base, ready)
        /\ \/ ready' = base
           \/ \E calls \in Posts : ready' = base \o calls
  BY <1>1, QueueStep
<1>6. ready' \in Seq(DueType)
  BY <1>1, QueueTypes
<1>7. socket_' \in {"closed", "opening"} \/ ConnectsAfter(ready', nacked')
  <2>1. CASE ready' = ready \o <<OnConnect>>
    BY <1>1, <2>1, ConnectsBehind
  <2>2. CASE socket_ \notin {"closed", "opening"} /\ nacked' = nacked
    <3>1. ConnectsAfter(base, nacked)
      BY <1>1, <1>5, <2>2, Zenon DEF Follows
    <3>2. ASSUME NEW calls \in Posts
          PROVE  ConnectsAfter(base \o calls, nacked)
      <4>1. calls \in Seq(DueType)
        BY <1>1, <1>2, PostsFacts
      <4>2. \A i \in DOMAIN calls : IsSend(calls[i]) => calls[i].req \notin nacked
        BY <1>1, <1>2, PostsSendNew
      <4> QED
        BY <3>1, <4>1, <4>2, ConnectsConcat
    <3> QED
      BY <1>5, <2>2, <3>1, <3>2
  <2> QED
    BY <2>1, <2>2, SocketStep
<1> QED
  BY <1>3, <1>4, <1>6, <1>7 DEF LinkInv

(* Only the function posted by send() adds to sent.                         *)
LEMMA NackedWaits ==
  ASSUME LinkInv, [ProgramNext]_programVars,
         NEW n \in (sent' \ sent) \cap nacked
  PROVE  socket_ = "opening" \/ Contains(ready, OnConnect)
<1>1. /\ RunsCall("MapTransport::send")
      /\ socket_ \in {"connected", "opening"}
      /\ sent' = sent \cup {Head(ready).req}
  BY DEF ProgramNext, programVars, ghosts, SgsnAsks, HlrAnswersSent,
         ExpiryTick, ClockElapses, TimerExpires, Run, RunSendMap, RunSendGsup,
         RunEnqueueGsup, RunConnect, RunOnConnect, RunOnConnectError,
         RunAspAcAck, OperationFailed, ConnectCompletes, AckArrives,
         WriteFails, LinkFails, Completes, SessionReady, SessionDisconnects
<1>2. CASE socket_ = "connected"
  <2>1. /\ ready # <<>> /\ ready \in Seq(DueType)
        /\ ConnectsAfter(ready, nacked)
    BY <1>1, <1>2 DEF LinkInv, RunsCall
  <2>2. 1 \in DOMAIN ready /\ ready[1] = Head(ready) /\ DOMAIN ready = 1 .. Len(ready)
    BY <2>1, TailIndices
  <2>3. IsSend(ready[1]) /\ ready[1].req \in nacked
    BY <1>1, <2>2 DEF RunsCall, IsSend
  <2>4. PICK j \in DOMAIN ready : ready[j] = OnConnect
    BY <2>1, <2>2, <2>3 DEF ConnectsAfter
  <2> QED
    BY <2>2, <2>4 DEF Contains
<1> QED
  BY <1>1, <1>2

(* For any number of requests, connections and link failures, and also when *)
(* TIDs are used again: a request nackAllPendingTransactions answered is    *)
(* not handed to the HLR by the function MapTransport::send posted for it,  *)
(* once onConnect() of the next connection has run.                         *)
THEOREM NackedStaysOff == ProgramSpec => NackedNotOnActiveLink
<1> DEFINE Waits == \A n \in (sent' \ sent) \cap nacked :
                      socket_ = "opening" \/ Contains(ready, OnConnect)
<1>1. ProgramInit => LinkInv
  BY LinkInit
<1>2. LinkInv /\ [ProgramNext]_programVars => LinkInv' /\ [Waits]_programVars
  BY LinkNext, NackedWaits
<1> QED
  BY <1>1, <1>2, PTL DEF ProgramSpec, NackedNotOnActiveLink

-----------------------------------------------------------------------------
(* An answer reaches the connection that asked.                             *)

Unheard == {n \in 1 .. Len(requests) : answers[n] # <<>> /\ heard[n] = <<>>}

(* A request came from the connection asker names and holds its ClientId;   *)
(* a connection was told only of what was answered.                         *)
AskersOK ==
    /\ asker \in Seq(Nat) /\ Len(asker) = Len(requests)
    /\ heard \in Seq(Seq(Nat)) /\ Len(heard) = Len(requests)
    /\ \A n \in 1 .. Len(requests) :
         /\ requests[n].client = asker[n]
         /\ answers[n] = <<>> => heard[n] = <<>>
         /\ heard[n] = <<>> \/ heard[n] = <<asker[n]>>

(* Each answer that no connection was told is under way at most once, and   *)
(* to the connection that asked; an answer that was told is not under way.  *)
DeliveryInv ==
    /\ CorrelationInv
    /\ SessionsOK
    /\ ready \in Seq(DueType)
    /\ AskersOK
    /\ Delivers(ready, Unheard, asker)

LEMMA DeliveryInit == ProgramInit => DeliveryInv
<1> SUFFICES ASSUME ProgramInit PROVE DeliveryInv
  OBVIOUS
<1>1. CorrelationInv /\ SessionsOK
  BY CorrelationInit, SessionsInit DEF ProgramInit
<1>2. AskersOK
  BY DEF ProgramInit, Init, AskersOK
<1> QED
  BY <1>1, <1>2 DEF ProgramInit, DeliveryInv, Delivers

(* An answer is the first for its request, and for the client that asked.   *)
LEMMA AnsweredOnce ==
  ASSUME NoTidReuse, CorrelationInv, [Next]_vars, NEW n \in Answered
  PROVE  /\ n \in 1 .. Len(requests)
         /\ answers[n] = <<>> /\ answers'[n] # <<>>
         /\ Last(answers'[n]).client = requests[n].client
<1>1. TypeOK /\ CorrelationInv'
  BY CorrelationNext DEF CorrelationInv
<1>2. /\ n \in 1 .. Len(requests) /\ n \in 1 .. Len(requests')
      /\ answers[n] \in Seq(Answer) /\ answers'[n] \in Seq(Answer)
      /\ Len(answers'[n]) = Len(answers[n]) + 1
      /\ Last(answers'[n]) = answers'[n][Len(answers'[n])]
      /\ Len(answers'[n]) \in 1 .. Len(answers'[n])
  BY <1>1, AnsweredFacts
<1>3. RequestOK(n) /\ RequestOK(n)'
  BY <1>1, <1>2 DEF CorrelationInv
<1>4. answers'[n] = <<>> \/ Len(answers'[n]) = 1
  BY <1>3 DEF RequestOK
<1>5. answers[n] = <<>> /\ answers'[n] # <<>>
  BY <1>2, <1>4
<1>6. answers'[n][Len(answers'[n])].client = requests'[n].client
  BY <1>2, <1>3 DEF RequestOK
<1>7. requests'[n] = requests[n]
  BY <1>1, <1>2, RequestsGrow
<1> QED
  BY <1>2, <1>5, <1>6, <1>7

(* The answers a handler hands to send() are the ones it made, one for each *)
(* request, to the connection that asked.                                   *)
LEMMA PostsDeliver ==
  ASSUME NoTidReuse, CorrelationInv, AskersOK, [Next]_vars, NEW calls \in Posts
  PROVE  Delivers(calls, Answered, asker)
<1>1. TypeOK
  BY DEF CorrelationInv
<1>2. \A n, c : /\ SendGsup(n, c).req = n /\ SendGsup(n, c).to = c
                /\ ~IsAnswer(SendMap(n))
  BY DEF SendGsup, SendMap, Due, IsAnswer
<1>3. ASSUME NEW i \in DOMAIN calls, IsAnswer(calls[i])
      PROVE  /\ calls[i].req \in Answered
             /\ calls[i].to = asker[calls[i].req]
             /\ calls[i] = SendGsup(calls[i].req,
                                    Last(answers'[calls[i].req]).client)
  <2>1. PICK n \in Answered : calls[i] = SendGsup(n, Last(answers'[n]).client)
    BY <1>1, <1>2, <1>3, PostsFacts
  <2>2. Last(answers'[n]).client = asker[n]
    BY AnsweredOnce DEF AskersOK
  <2> QED
    BY <1>2, <2>1, <2>2
<1>4. ASSUME NEW i \in DOMAIN calls, NEW j \in DOMAIN calls,
             IsAnswer(calls[i]), IsAnswer(calls[j]), calls[i].req = calls[j].req
      PROVE  i = j
  <2>1. calls[i] = calls[j]
    BY <1>3, <1>4
  <2> QED
    BY <1>1, <2>1, PostsFacts
<1> QED
  BY <1>3, <1>4 DEF Delivers

(* A request r comes from connection c.                                     *)
Asks(c, r) ==
    /\ r.client = c
    /\ requests' = Append(requests, r)
    /\ asker' = Append(asker, c)
    /\ heard' = Append(heard, <<>>)

(* A step of Proxy, with the connections of new requests.                   *)
LEMMA AskersGrow ==
  ASSUME NoTidReuse, CorrelationInv, AskersOK, [Next]_vars,
         \/ requests' = requests /\ asker' = asker /\ heard' = heard
         \/ \E c \in Nat : \E r : Asks(c, r)
  PROVE  /\ AskersOK'
         /\ \A n \in 1 .. Len(requests) :
              asker'[n] = asker[n] /\ heard'[n] = heard[n]
<1>1. TypeOK /\ Len(requests) \in Nat /\ Len(requests') \in Nat
  BY RequestsGrow DEF CorrelationInv
<1>2. ASSUME NEW n \in 1 .. Len(requests), answers'[n] = <<>>
      PROVE  answers[n] = <<>>
  <2>1. answers'[n] = answers[n] \/ Len(answers'[n]) = Len(answers[n]) + 1
    BY <1>1, NextGrows DEF AnswersGrow
  <2>2. answers[n] \in Seq(Answer)
    BY <1>1, RequestFields
  <2> QED
    BY <1>2, <2>1, <2>2
<1>3. CASE requests' = requests /\ asker' = asker /\ heard' = heard
  BY <1>2, <1>3 DEF AskersOK
<1>4. CASE \E c \in Nat : \E r : Asks(c, r)
  <2>0. PICK c \in Nat : \E r : Asks(c, r)
    BY <1>4
  <2>a. PICK r : Asks(c, r)
    BY <2>0
  <2>1. /\ r.client = c
        /\ requests' = Append(requests, r)
        /\ asker' = Append(asker, c)
        /\ heard' = Append(heard, <<>>)
    BY <2>a DEF Asks
  <2> DEFINE m == Len(requests) + 1
  <2>2. /\ Len(requests') = m /\ requests'[m] = r
        /\ \A n \in 1 .. Len(requests) : requests'[n] = requests[n]
    BY <1>1, <2>1 DEF TypeOK, SgsnTypeOK
  <2>3. /\ asker' \in Seq(Nat) /\ Len(asker') = m /\ asker'[m] = c
        /\ \A n \in 1 .. Len(requests) : asker'[n] = asker[n]
    BY <2>1 DEF AskersOK
  <2>4. /\ heard' \in Seq(Seq(Nat)) /\ Len(heard') = m /\ heard'[m] = <<>>
        /\ \A n \in 1 .. Len(requests) : heard'[n] = heard[n]
    <3>1. heard \in Seq(Seq(Nat)) /\ <<>> \in Seq(Nat) /\ Len(heard) = Len(requests)
      BY DEF AskersOK
    <3> QED
      BY <2>1, <3>1
  <2>5. ASSUME NEW n \in 1 .. m
        PROVE  /\ requests'[n].client = asker'[n]
               /\ answers'[n] = <<>> => heard'[n] = <<>>
               /\ heard'[n] = <<>> \/ heard'[n] = <<asker'[n]>>
    <3>1. CASE n = m
      BY <2>1, <2>2, <2>3, <2>4, <3>1
    <3>2. CASE n \in 1 .. Len(requests)
      BY <1>2, <2>2, <2>3, <2>4, <3>2 DEF AskersOK
    <3> QED
      BY <1>1, <3>1, <3>2
  <2> QED
    BY <2>2, <2>3, <2>4, <2>5 DEF AskersOK
<1> QED
  BY <1>3, <1>4

(* sendGsup() tells the connection that asked, and the answer leaves the    *)
(* queue.                                                                   *)
LEMMA EnqueueDelivers ==
  ASSUME DeliveryInv, RunEnqueueGsup
  PROVE  AskersOK' /\ Delivers(ready', Unheard', asker')
<1> DEFINE h == Head(ready)
<1>1. /\ ready # <<>> /\ ready \in Seq(DueType) /\ IsAnswer(h)
      /\ ready' = Tail(ready)
      /\ heard' = [heard EXCEPT ![h.req] = Append(heard[h.req], h.to)]
  BY DEF RunEnqueueGsup, RunsCall, IsAnswer, DeliveryInv
<1>2. asker' = asker /\ requests' = requests /\ answers' = answers
  BY DEF RunEnqueueGsup, vars, sgsnHistory
<1>3. /\ h.req \in Unheard /\ h.to = asker[h.req]
      /\ Delivers(Tail(ready), Unheard \ {h.req}, asker)
  BY <1>1, DeliversTail DEF DeliveryInv
<1>4. PICK n \in 1 .. Len(requests) : /\ n = h.req /\ answers[n] # <<>>
                                      /\ heard[n] = <<>>
  BY <1>3 DEF Unheard
<1> HIDE DEF h
<1>5. /\ heard \in Seq(Seq(Nat)) /\ asker \in Seq(Nat) /\ asker[n] \in Nat
      /\ Len(heard) = Len(requests) /\ n \in DOMAIN heard
  BY DEF DeliveryInv, AskersOK
<1>6. PICK told \in Seq(Nat) : told = <<asker[n]>>
  <2>1. <<asker[n]>> \in Seq(Nat)
    BY <1>5
  <2> QED
    BY <2>1, Zenon
<1>7. heard' = [heard EXCEPT ![n] = told]
  BY <1>1, <1>3, <1>4, <1>6, SingleIndex
<1>8. /\ heard' \in Seq(Seq(Nat)) /\ Len(heard') = Len(requests)
      /\ heard'[n] = told
      /\ \A m \in 1 .. Len(requests) : m # n => heard'[m] = heard[m]
  BY <1>5, <1>7
<1>9. told # <<>>
  BY <1>6
<1>10. ASSUME NEW m \in 1 .. Len(requests)
       PROVE  /\ requests[m].client = asker[m]
              /\ answers[m] = <<>> => heard'[m] = <<>>
              /\ heard'[m] = <<>> \/ heard'[m] = <<asker[m]>>
  <2>1. CASE m = n
    BY <1>4, <1>6, <1>8, <2>1 DEF DeliveryInv, AskersOK
  <2>2. CASE m # n
    BY <1>8, <2>2 DEF DeliveryInv, AskersOK
  <2> QED
    BY <2>1, <2>2
<1>11. AskersOK'
  BY <1>2, <1>5, <1>8, <1>10 DEF AskersOK, DeliveryInv
<1>12. Unheard \ {n} \subseteq Unheard'
  BY <1>2, <1>8 DEF Unheard
<1>13. Delivers(Tail(ready), Unheard', asker)
  BY <1>3, <1>4, <1>12, DeliversMore
<1> QED
  BY <1>1, <1>2, <1>11, <1>13

(* Apart from sendGsup(), a step tells no connection anything, and adds the *)
(* connection of a request together with the request.                       *)
LEMMA AskersStep ==
  ASSUME SessionsOK, TypeOK, [ProgramNext]_programVars, ~RunEnqueueGsup
  PROVE  \/ requests' = requests /\ asker' = asker /\ heard' = heard
         \/ \E c \in Nat : \E r : Asks(c, r)
<1>1. CASE SgsnAsks
  <2>1. PICK c \in DOMAIN session, type \in SgsnTypes, imsi \in Imsi :
          /\ HandleGsupRequest(session[c], type, imsi)
          /\ asker' = Append(asker, c)
    BY <1>1 DEF SgsnAsks
  <2>2. session[c] = c /\ c \in Nat
    BY DEF SessionsOK
  <2> DEFINE r == [client |-> session[c], type |-> type, imsi |-> imsi,
                   tid |-> nextTid]
  <2>3. requests' = Append(requests, r) /\ r.client = c
    BY <2>1, <2>2 DEF HandleGsupRequest
  <2> HIDE DEF r
  <2>4. heard' = Append(heard, <<>>)
    BY <1>1 DEF SgsnAsks
  <2>5. Asks(c, r)
    BY <2>1, <2>3, <2>4 DEF Asks
  <2> QED
    BY <2>2, <2>5
<1>2. CASE UNCHANGED <<vars, ghosts>>
  BY <1>2 DEF vars, sgsnHistory, ghosts
<1>3. CASE HlrAnswersSent \/ ExpiryTick \/ OperationFailed \/ ClockElapses
  BY <1>3 DEF HlrAnswersSent, HlrAnswersInvoke, HandleMapAnswer, ExpiryTick,
              Tick, OperationFailed, NackAllPendingTransactions, ClockElapses,
              Elapse, sgsnHistory, ghosts
<1>4. CASE RunSendMap
  BY <1>4 DEF RunSendMap, vars, sgsnHistory
<1> QED
  BY <1>1, <1>2, <1>3, <1>4
     DEF ProgramNext, programVars, TimerExpires, Run, RunSendGsup, RunConnect,
         RunOnConnect, RunOnConnectError, RunAspAcAck, ConnectCompletes,
         AckArrives, WriteFails, LinkFails, Completes, SessionReady,
         SessionDisconnects

LEMMA OthersDeliver ==
  ASSUME NoTidReuse, DeliveryInv, [ProgramNext]_programVars, ~RunEnqueueGsup
  PROVE  AskersOK' /\ Delivers(ready', Unheard', asker')
<1>1. /\ CorrelationInv /\ SessionsOK /\ TypeOK /\ AskersOK
      /\ ready \in Seq(DueType) /\ Delivers(ready, Unheard, asker)
  BY DEF DeliveryInv, CorrelationInv
<1>2. [Next]_vars
  BY <1>1, ProgramStep
<1>3. /\ AskersOK'
      /\ \A n \in 1 .. Len(requests) :
           asker'[n] = asker[n] /\ heard'[n] = heard[n]
  BY <1>1, <1>2, AskersStep, AskersGrow
<1>4. Unheard \subseteq Unheard'
  <2> SUFFICES ASSUME NEW n \in Unheard PROVE n \in Unheard'
    OBVIOUS
  <2>1. n \in 1 .. Len(requests) /\ answers[n] # <<>> /\ heard[n] = <<>>
    BY DEF Unheard
  <2>2. n \in 1 .. Len(requests')
    BY <1>1, <1>2, <2>1, RequestsGrow
  <2>3. answers'[n] # <<>>
    <3>1. CASE n \in Answered
      BY <1>1, <1>2, <3>1, AnsweredOnce
    <3>2. CASE n \notin Answered
      BY <1>1, <2>1, <3>2 DEF Answered, TypeOK, SgsnTypeOK
    <3> QED
      BY <3>1, <3>2
  <2> QED
    BY <1>3, <2>1, <2>2, <2>3 DEF Unheard
<1>5. Answered \subseteq Unheard' /\ Answered \cap Unheard = {}
  <2> SUFFICES ASSUME NEW n \in Answered
               PROVE  n \in Unheard' /\ n \notin Unheard
    OBVIOUS
  <2>1. /\ n \in 1 .. Len(requests) /\ n \in 1 .. Len(requests')
        /\ answers[n] = <<>> /\ answers'[n] # <<>>
    BY <1>1, <1>2, AnsweredOnce, AnsweredFacts
  <2>2. heard[n] = <<>>
    BY <1>1, <2>1 DEF AskersOK
  <2> QED
    BY <1>3, <2>1, <2>2 DEF Unheard
<1>6. PICK base \in Seq(DueType) :
        /\ Follows(base, ready)
        /\ \/ ready' = base
           \/ \E calls \in Posts : ready' = base \o calls
  BY <1>1, QueueStep
<1>7. Delivers(base, Unheard, asker)
  BY <1>1, <1>6, Zenon DEF Follows
<1>8. \A n \in Unheard \cup Answered : asker'[n] = asker[n]
  BY <1>1, <1>2, <1>3, AnsweredFacts DEF Unheard
<1>9. CASE ready' = base
  <2>1. Delivers(base, Unheard', asker')
    BY <1>4, <1>7, <1>8, DeliversMore
  <2> QED
    BY <1>3, <1>9, <2>1
<1>10. ASSUME NEW calls \in Posts, ready' = base \o calls
       PROVE  Delivers(ready', Unheard', asker')
  <2>1. calls \in Seq(DueType) /\ Delivers(calls, Answered, asker)
    BY <1>1, <1>2, PostsFacts, PostsDeliver
  <2>2. Delivers(base \o calls, Unheard \cup Answered, asker)
    BY <1>5, <1>7, <2>1, DeliversConcat
  <2>3. Unheard \cup Answered \subseteq Unheard'
    BY <1>4, <1>5
  <2>4. Delivers(base \o calls, Unheard', asker')
    BY <1>8, <2>2, <2>3, DeliversMore
  <2> QED
    BY <1>10, <2>4
<1> QED
  BY <1>3, <1>6, <1>9, <1>10

LEMMA DeliveryNext ==
  ASSUME NoTidReuse, DeliveryInv, [ProgramNext]_programVars
  PROVE  DeliveryInv'
<1>1. CorrelationInv /\ SessionsOK /\ TypeOK /\ ready \in Seq(DueType)
  BY DEF DeliveryInv, CorrelationInv
<1>2. [Next]_vars
  BY <1>1, ProgramStep
<1>3. CorrelationInv' /\ SessionsOK'
  BY <1>1, <1>2, CorrelationNext, SessionsNext
<1>4. ready' \in Seq(DueType)
  BY <1>1, <1>2, QueueTypes
<1>5. AskersOK' /\ Delivers(ready', Unheard', asker')
  BY EnqueueDelivers, OthersDeliver
<1> QED
  BY <1>3, <1>4, <1>5 DEF DeliveryInv

(* As long as no TID is drawn twice, for any number of connections and      *)
(* requests: an answer is told to the connection its request came from and  *)
(* to no other, at most once.                                               *)
THEOREM AskerAlone ==
  ASSUME NoTidReuse
  PROVE  ProgramSpec => []HeardByAsker
<1>1. ProgramInit => DeliveryInv
  BY DeliveryInit
<1>2. DeliveryInv /\ [ProgramNext]_programVars => DeliveryInv'
  BY DeliveryNext
<1>3. DeliveryInv => HeardByAsker
  <2> SUFFICES ASSUME DeliveryInv, NEW n \in DOMAIN heard
               PROVE  heard[n] = <<>> \/ heard[n] = <<asker[n]>>
    BY DEF HeardByAsker
  <2>1. n \in 1 .. Len(requests)
    BY DEF DeliveryInv, AskersOK
  <2> QED
    BY <2>1 DEF DeliveryInv, AskersOK
<1> QED
  BY <1>1, <1>2, <1>3, PTL DEF ProgramSpec
=============================================================================
