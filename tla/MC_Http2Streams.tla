--------------------------- MODULE MC_Http2Streams ---------------------------
(***************************************************************************)
(* Small instances of Http2Streams: two stream keys whose frames           *)
(* interleave in a capture of a few frames.  The peers of the first take   *)
(* turns; on the second frames can arrive early or after the close.        *)
(***************************************************************************)
EXTENDS Http2Streams

CONSTANTS k1, k2

MCKeyOrder == <<k1, k2>>

=============================================================================
