----------------------------- MODULE MC_DecodeRun -----------------------------
(***************************************************************************)
(* Small instances of DecodeRun: two invocations on one run directory, one *)
(* stream protocol with a document and its index, and one record protocol  *)
(* with its messages; either may keep its raw packets.                     *)
(***************************************************************************)
EXTENDS DecodeRun, TLC

CONSTANTS i1, i2, full, indexed, http2, ngap, doc, index, raw, messages, packets

MCOwner ==
  [a \in Artifact |-> IF a \in {messages, packets} THEN ngap ELSE http2]

\* The first option set decodes everything, the second only NGAP and asks for
\* the packet-access index.
MCRequested ==
  [o \in Option |-> IF o = full THEN {http2, ngap} ELSE {ngap}]

Invocations == Permutations(Invocation)
=============================================================================
