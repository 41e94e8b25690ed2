--------------------------- MODULE MC_RunnerStages ---------------------------
(***************************************************************************)
(* Instances of RunnerStages: an analysis and its repetitions.             *)
(***************************************************************************)
EXTENDS RunnerStages

Call(other, resume, stop, scenario) ==
  [fingerprinted |-> scenario, other |-> other, resume |-> resume, stop |-> stop,
   scenario |-> scenario, resolved |-> TRUE]

\* The scenario text is part of the fingerprint, the decoder protocols are not.
Plain == Call("all", FALSE, "never", "none")
Resumed == Call("all", TRUE, "never", "none")
Judged == Call("all", FALSE, "never", "given")
ResumedJudged == Call("all", TRUE, "never", "given")
Stopped == Call("all", FALSE, "T05", "none")
Relative == [Plain EXCEPT !.resolved = FALSE]

MCConfig == {Plain, Resumed, Judged, ResumedJudged, Stopped, Relative}
MCPlain == {Plain}
=============================================================================
