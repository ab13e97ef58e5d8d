------------------------- MODULE TransactionManager -------------------------
(***************************************************************************)
(* proxy/TransactionManager: the pending SGSN-initiated transactions by     *)
(* TCAP transaction identifier.  The class is passive, so this module has   *)
(* its state and the effect of each member function; the actions that call  *)
(* them are those of module Proxy.                                          *)
(*                                                                          *)
(* steady_clock is modelled by the age of an entry, in steps of the clock,  *)
(* which stops at the first value that counts as expired.                   *)
(***************************************************************************)
EXTENDS Integers, UnorderedMap

CONSTANTS TidSpace,     \* 2^32: tidCounter_ is a uint32_t
          MaxInvokeId,  \* 127
          Timeout       \* timeout_, in steps of the clock

ASSUME TidSpaceAssumption == TidSpace \in Nat /\ TidSpace > 1
ASSUME MaxInvokeIdAssumption == MaxInvokeId \in Nat \ {0}
ASSUME TimeoutAssumption == Timeout \in Nat

VARIABLES tidCounter_, invokeIdCounter_, transactions_

txMgrVars == <<tidCounter_, invokeIdCounter_, transactions_>>

Tid == 1 .. TidSpace - 1

InvokeId == 1 .. MaxInvokeId

Age == 0 .. Timeout + 1

PendingTransaction(Imsis, Contexts) ==
    [mapInvokeId : InvokeId, imsi : Imsis, clientContext : Contexts, age : Age]

TxMgrInit ==
    /\ tidCounter_ = 1
    /\ invokeIdCounter_ = 1
    /\ transactions_ = EmptyMap

(* Mutant: nextTid without its test for 0.                                 *)
nextTidUnchecked == tidCounter_

(* The identifiers the next allocation gets, and the counters after it.     *)
nextTid == IF tidCounter_ = 0 THEN 1 ELSE tidCounter_

nextInvokeId == IF invokeIdCounter_ > MaxInvokeId THEN 1 ELSE invokeIdCounter_

(* Mutant: tidCounter_ is not incremented.                                 *)
CountersStuck ==
    /\ tidCounter_' = nextTid
    /\ invokeIdCounter_' = nextInvokeId + 1

CountersAdvance ==
    /\ tidCounter_' = (nextTid + 1) % TidSpace
    /\ invokeIdCounter_' = nextInvokeId + 1

(* transactions_ after an allocation: emplace keeps a pending transaction   *)
(* that still holds the identifier.                                         *)
allocate(imsi, context) ==
    Emplace(transactions_, nextTid,
            [mapInvokeId |-> nextInvokeId, imsi |-> imsi,
             clientContext |-> context, age |-> 0])

(* The identifiers expireStale removes: now - createdAt > timeout_.         *)
expireStale == {tid \in DOMAIN transactions_ : transactions_[tid].age > Timeout}

(* One step of the clock for a table of entries with an age, up to limit.   *)
Older(map, limit) ==
    [k \in DOMAIN map |->
        [map[k] EXCEPT !.age = IF @ > limit THEN @ ELSE @ + 1]]
=============================================================================
