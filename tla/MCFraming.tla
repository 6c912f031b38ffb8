----------------------------- MODULE MCFraming -----------------------------
(* An instance of Framing for TLC: bytes of two values. *)
EXTENDS Framing

\* No body, the shortest, the longest with a byte that looks like a header's, one too long.
MCBodies == {<<>>, <<1>>, <<0, 1>>, <<1, 1, 1>>}

MCReply == <<1>>

\* The four bodies and the answer have lengths that fit into a header.
ASSUME HeaderAssumption == HeadersHoldLengths
=============================================================================
