--------------------------- MODULE MCMapTransport ---------------------------
(***************************************************************************)
(* Instances of MapTransport for TLC: what the Signalling Gateway sends.    *)
(***************************************************************************)
EXTENDS MapTransport

Whole(msg) == [msgs |-> <<msg>>, rest |-> "nothing"]

Partial == [msgs |-> <<>>, rest |-> "partial"]

Malformed == [msgs |-> <<>>, rest |-> "malformed"]

MCChunks == {Whole("AspUpAck"), Whole("AspAcAck"), Partial}

MCAllChunks == {Whole(m) : m \in Message} \cup {Partial, Malformed}
=============================================================================
