---------------------------- MODULE ProxyRestart ----------------------------
(***************************************************************************)
(* Proxy in a process that is stopped and started again.  Nothing is        *)
(* persistent: the tables are empty and the counters of TransactionManager  *)
(* start at 1 again, while the HLR still holds the dialogues of the Invokes *)
(* it received.                                                             *)
(***************************************************************************)
EXTENDS Proxy

CONSTANT MaxRestarts  \* bound on the restarts of a behaviour

VARIABLE restarts

restartVars == <<vars, restarts>>

Restart ==
    /\ restarts < MaxRestarts
    /\ restarts' = restarts + 1
    /\ tidCounter_' = 1
    /\ invokeIdCounter_' = 1
    /\ transactions_' = EmptyMap
    /\ pendingOps_' = EmptyMap
    /\ hlrTx_' = EmptyMap
    /\ owner' = EmptyMap
    /\ UNCHANGED <<invokes, broadcasts, requests, answers, dropped, hlrHistory>>

RestartInit == Init /\ restarts = 0

RestartNext == Restart \/ (Next /\ UNCHANGED restarts)

RestartSpec == RestartInit /\ [][RestartNext]_restartVars

(* README, Random 32-bit TCAP Transaction IDs: a TID the HLR still          *)
(* considers active is not used again, so an answer to a request made       *)
(* before a restart never reaches the SGSN of another request.              *)
RightClientAfterRestart == RightClient
=============================================================================
