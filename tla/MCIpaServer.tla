---------------------------- MODULE MCIpaServer ----------------------------
(***************************************************************************)
(* Instances of IpaServer for TLC: what an SGSN sends.                      *)
(***************************************************************************)
EXTENDS IpaServer

(* One frame at a time, and an SGSN that pipelines its first request.       *)
MCChunks == {<<"IdResp">>, <<"Gsup">>, <<"IdResp", "Gsup">>}

MCAllChunks == {<<f>> : f \in Frame} \cup {<<"IdResp", "Gsup">>,
                                           <<"Gsup", "IdResp">>}
=============================================================================
