------------------------------ MODULE IpaCodec ------------------------------
(***************************************************************************)
(* ipa/IpaCodec: IPA frames and their reassembly from a stream.             *)
(***************************************************************************)
EXTENDS Octets

kStreamGsup == \hEE
kStreamCcm  == \hFE
kCcmPing    == \h00
kCcmPong    == \h01
kHeaderSize == 3
kMaxIpaWireLen == 4096

(* The length covers the payload and the stream octet.  The code throws at  *)
(* a payload the length cannot count; behind a UDT of 255 octets none is.   *)
encode(streamId, payload) == BE(2, Len(payload) + 1) \o <<streamId>> \o payload

(* IpaDecoder::next: the first frame in the buffer, once it is complete.    *)
next(buf) ==
    LET wireLen   == ValueBE(Taken(buf, 2))
        totalSize == kHeaderSize + wireLen - 1
    IN  IF Len(buf) < kHeaderSize THEN {[buf |-> buf, msg |-> <<>>]}
        ELSE IF wireLen \notin 1 .. kMaxIpaWireLen THEN {}
        ELSE IF Len(buf) < totalSize THEN {[buf |-> buf, msg |-> <<>>]}
        ELSE {[buf |-> Left(buf, totalSize),
               msg |-> <<[streamId |-> buf[3],
                          payload  |-> SubSeq(buf, kHeaderSize + 1,
                                              totalSize)]>>]}
=============================================================================
