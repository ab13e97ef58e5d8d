------------------------------- MODULE Codecs -------------------------------
(***************************************************************************)
(* The codecs of the two links side by side, under the names of their       *)
(* namespaces.                                                              *)
(***************************************************************************)
EXTENDS Octets

Ipa == INSTANCE IpaCodec
M3ua == INSTANCE M3uaCodec
Sccp == INSTANCE ScccpCodec
=============================================================================
