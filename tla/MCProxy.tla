------------------------------ MODULE MCProxy ------------------------------
(***************************************************************************)
(* Instances of Proxy for TLC: the inputs the peers choose from.            *)
(***************************************************************************)
EXTENDS Proxy, TLC

Request(proc) == [proc |-> proc, dir |-> "Request"]

(* One request whose result can be too large for GSUP, one whose procedure  *)
(* the HLR can start too, and one the converter rejects.                    *)
MCSgsnTypes == {Request("SendAuthInfo"), Request("PurgeMs"),
                Request("DeleteData")}

(* The first of these alone, for the run in which the HLR is free.          *)
MCOneRequest == {Request("SendAuthInfo")}

(* Every request type, and an unknown one.                                  *)
MCAllRequests == {Request(p) : p \in Procedure}

(* TCAP's invoke ids have a sign.                                           *)
MCInvokeIds == {-1, 1}

(* Nothing tells the SGSNs apart.                                           *)
MCSymmetry == Permutations(Client)
=============================================================================
