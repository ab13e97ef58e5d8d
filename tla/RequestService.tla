--------------------------- MODULE RequestService ---------------------------
(***************************************************************************)
(* What the proxy promises the SGSNs, without a word about transaction ids, *)
(* tables, the HLR or the clock: a request is open when it was accepted and *)
(* until it is settled, and settling it means one answer, to the SGSN that  *)
(* asked, about a subscriber and of a type its request allows, or, where it *)
(* may refuse, no answer at all.  Any number of requests may be settled at  *)
(* once, in any order; a settled request is never heard of again.           *)
(***************************************************************************)
EXTENDS Naturals, Sequences

CONSTANTS Request,      \* records with a client, an imsi and a type
          Accepted,     \* requests the service takes up
          Refusable,    \* requests it may settle without an answer
          AnswerImsis,  \* request IMSI -> the IMSIs its answer may have
          AnswerTypes,  \* request type -> the types its answer may have
          MaxRequests   \* bound on the requests of a behaviour

VARIABLES requests,     \* the requests in order of arrival
          open,         \* those accepted and not yet settled
          answers,      \* request -> the answers given to it
          dropped       \* requests settled without an answer

vars == <<requests, open, answers, dropped>>

Init ==
    /\ requests = <<>>
    /\ open = {}
    /\ answers = <<>>
    /\ dropped = {}

Ask(r) ==
    /\ Len(requests) < MaxRequests
    /\ requests' = Append(requests, r)
    /\ answers' = Append(answers, <<>>)
    /\ open' = IF r \in Accepted THEN open \cup {Len(requests) + 1} ELSE open
    /\ UNCHANGED dropped

Right(answer, r) ==
    /\ answer.client = r.client
    /\ answer.imsi \in AnswerImsis[r.imsi]
    /\ answer.type \in AnswerTypes[r.type]

(* The open requests in settled get their answers, or are dropped.          *)
Settle(settled) ==
    /\ open' = open \ settled
    /\ dropped \subseteq dropped'
    /\ \A n \in dropped' \ dropped : n \in settled /\ requests[n] \in Refusable
    /\ DOMAIN answers' = DOMAIN answers
    /\ \A n \in DOMAIN answers :
         IF n \in settled /\ n \notin dropped'
           THEN Len(answers'[n]) = 1 /\ Right(answers'[n][1], requests[n])
           ELSE answers'[n] = answers[n]
    /\ UNCHANGED requests

Next ==
    \/ \E r \in Request : Ask(r)
    \/ \E settled \in SUBSET open : Settle(settled)

Safety == Init /\ [][Next]_vars
=============================================================================
