--------------------------- MODULE MCProxyRestart ---------------------------
(***************************************************************************)
(* An instance of ProxyRestart for TLC.                                     *)
(***************************************************************************)
EXTENDS ProxyRestart

MCSgsnTypes == {[proc |-> "PurgeMs", dir |-> "Request"]}
=============================================================================
