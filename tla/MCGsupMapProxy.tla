--------------------------- MODULE MCGsupMapProxy ---------------------------
(***************************************************************************)
(* Instance of GsupMapProxy for TLC.                                        *)
(***************************************************************************)
EXTENDS GsupMapProxy

(* A request whose result can be too large for GSUP.                        *)
MCSgsnTypes == {[proc |-> "SendAuthInfo", dir |-> "Request"]}
=============================================================================
