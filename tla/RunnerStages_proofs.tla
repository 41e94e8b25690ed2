------------------------- MODULE RunnerStages_proofs -------------------------
(***************************************************************************)
(* What a run directory says and what a caller is told, for any            *)
(* configurations, any number of invocations and any faults.               *)
(*                                                                         *)
(* No property is inductive alone: each looks at the files, and what they  *)
(* will say is decided earlier, by what the invocation has recorded,       *)
(* written and published when a write starts.  That an invocation comes    *)
(* to its end is a matter of fairness and of StepsLeft, which each of its  *)
(* steps lowers.                                                           *)
(***************************************************************************)
EXTENDS RunnerStages, TLAPS

Body == {"stage", "inside", "check", "finishing"}
Publishing == {"publish_json", "publish_markdown", "publish_manifest"}

\* The run manifest is an intermediate one of this run.
Mine ==
  /\ runManifest # NoFile /\ runManifest.by = run
  /\ runManifest.status = "partial" /\ ~runManifest.report

\* A write that says more than "partial" is the last of a run.
WritesKnown ==
  /\ writing.left = "none" => writing = Quiet
  /\ writing.status # "partial" \/ writing.report => pc = "returned"
  /\ writing.inner => pc = "concluding" /\ Mine /\ rendered # "none"
  /\ writing.left # "none" => pc \in Body \cup {"rendering", "concluding", "returned"}
  /\ run = 0 => pc = "dead"

\* Once the first record is on disk, the manifest is of this run until it ends.
FirstRecord ==
  /\ pc \in (Active \ {"stage", "failing"}) /\ writing = Quiet => Mine
  /\ pc = "stage" /\ writing = Quiet /\ step # 1 => Mine

\* Nothing failed while the body runs; a failure is remembered until it is told.
FailureRemembered ==
  /\ pc \in Body => ~handling /\ hint = "success" /\ raisedIn = "none"
  /\ handling => hint = "failed"
  /\ raisedIn # "none" => hint = "failed" \/ pc = "unpublished"

\* At most one stage is running, in the body or when the handler is entered.
RunningIsNow ==
  /\ pc \notin {"inside", "failing", "escaped"} => \A t \in Tool : records[t] # "running"
  /\ pc \in {"inside", "check"} => step \in DOMAIN Order
  /\ pc = "inside" => \A t \in Tool : records[t] = "running" => t = Now
  /\ pc = "failing" =>
       \A t, u \in Tool : records[t] = "running" /\ records[u] = "running" => t = u

\* Only a run that was stopped, or has failed since, has a cancelled record.
CancelledIsFinal ==
  (\E t \in Tool : records[t] = "cancelled") => hint = "failed" \/ pc \in {"finishing", "returned"}

Published(file) == report[file] = [by |-> run, status |-> rendered]
Whole == Published("json") /\ Published("markdown") /\ Published("manifest")

\* The files of the report, as far as render_report has come.
ReportSoFar ==
  /\ pc \in Publishing => rendered # "none"
  /\ pc \in {"publish_markdown", "publish_manifest"} => Published("json")
  /\ pc = "publish_manifest" => Published("markdown")
  /\ pc \in {"unpublished", "concluding"} /\ rendered # "none" => Whole
  /\ pc = "concluding" /\ hint # "failed" => rendered # "none" /\ records["T17"] = rendered

\* The run manifest has no record that the process has not, nor, while it is
\* about to be written, one that the state file has not.
RecordsKept ==
  /\ runManifest # NoFile => runManifest.by \in 1 .. run
  /\ runManifest # NoFile /\ runManifest.by = run /\ pc # "dead" =>
       \A t \in Tool : records[t] = "absent" => runManifest.stages[t] = "absent"
  /\ writing.left = "manifest" => stateFile = [by |-> run, stages |-> records]

Clean(stages) == \A t \in Tool : stages[t] \in {"success", "skipped", "absent"}

\* What a run that returned has said, and what its last write will say.
AnswerEarned ==
  pc = "returned" /\ ~answer.cached =>
    /\ answer.stages = records
    /\ \A t \in Tool : records[t] # "running"
    /\ raisedIn # "none" => answer.status = "failed"
    /\ answer.status = "success" =>
         Clean(records) /\ records["T17"] = "success" /\ rendered = "success"
    /\ writing # Quiet =>
         /\ writing.status = answer.status
         /\ writing.report => Whole /\ rendered # "none"
         /\ answer.status = "success" => Whole
    /\ writing = Quiet =>
         /\ runManifest # NoFile /\ runManifest.status = answer.status
         /\ runManifest.stages = records
         /\ stateFile = [by |-> run, stages |-> records]

AnswerCached ==
  pc = "returned" /\ answer.cached =>
    /\ writing = Quiet
    /\ runManifest # NoFile /\ runManifest.status = answer.status
    /\ runManifest.stages = answer.stages /\ answer.status = "success"

OnDisk == SuccessBacked /\ WriteOrder

IInv ==
  /\ TypeOK /\ WritesKnown /\ FirstRecord /\ FailureRemembered /\ RunningIsNow
  /\ CancelledIsFinal /\ ReportSoFar /\ RecordsKept /\ AnswerEarned /\ AnswerCached
  /\ OnDisk

-----------------------------------------------------------------------------
(* The stages, the statuses and the records                                *)

LEMMA OrderFacts ==
  /\ Len(Order) = 19 /\ DOMAIN Order = 1 .. 19
  /\ Order[1] = "T01" /\ Order[18] = "T24/T25" /\ Order[19] = "T12_FINAL"
BY DEF Order

LEMMA StageFacts ==
  /\ \A k \in 1 .. 19 : Order[k] \in Stage
  /\ Stage \subseteq Tool
  /\ {"T05", "T12_FINAL"} \subseteq Stage
  /\ {"T05", "T17", "RUNNER", "runner"} \subseteq Tool
<1>1. Order[6] = "T05" /\ 6 \in 1 .. 19 /\ 19 \in 1 .. 19
  BY DEF Order
<1>2. {"T05", "T12_FINAL"} \subseteq Stage
  BY <1>1, OrderFacts DEF Stage
<1> QED
  BY <1>2, OrderFacts DEF Stage, Tool

\* A recorded status is never "absent", and "running" or "cancelled" only as
\* the runner says so itself.
LEMMA Normalized ==
  ASSUME NEW raw
  PROVE  /\ NormalizeStageStatus(raw) \in StageStatus \ {"absent"}
         /\ raw \notin {"running", "cancelled"} =>
              NormalizeStageStatus(raw) \notin {"running", "cancelled"}
         /\ raw \in ReportStatus => NormalizeStageStatus(raw) = raw
BY DEF NormalizeStageStatus, StageStatus, ReportStatus

LEMMA OutcomesKnown ==
  ASSUME NEW t, NEW raw \in Outcomes(t)
  PROVE  raw \notin {"running", "cancelled"} /\ (raw = "empty" => t = "T13")
BY DEF Outcomes

LEMMA FailedToolIsTool == FailedTool \in Tool
<1>1. CASE Running = {}
  BY <1>1, StageFacts DEF FailedTool
<1>2. CASE Running # {}
  BY <1>2 DEF FailedTool, Running
<1> QED
  BY <1>1, <1>2

LEMMA DiskUnchanged ==
  ASSUME OnDisk, UNCHANGED <<stateFile, runManifest, report>>
  PROVE  OnDisk'
BY DEF OnDisk, SuccessBacked, WriteOrder, ReportBeforeManifest, StateFileFirst

\* A record and the start of its two writes.
LEMMA Recorded ==
  ASSUME IInv, pc # "dead",
         NEW t \in Tool, NEW status, NEW inner \in BOOLEAN,
         NEW next \in Body \cup {"rendering", "concluding"},
         SetStage(t, status, next, inner),
         UNCHANGED <<run, stateFile, runManifest>>,
         inner => next = "concluding" /\ Mine /\ rendered' # "none"
  PROVE  /\ WritesKnown' /\ FirstRecord' /\ RecordsKept' /\ AnswerEarned' /\ AnswerCached'
         /\ records' \in [Tool -> StageStatus] /\ writing' \in Writing /\ pc' \in Active
         /\ records'[t] = NormalizeStageStatus(status)
         /\ \A u \in Tool : u # t => records'[u] = records[u]
<1>1. /\ pc' = next
      /\ writing' = [left |-> "both", status |-> "partial", report |-> FALSE, inner |-> inner]
      /\ records' = [records EXCEPT ![t] = NormalizeStageStatus(status)]
      /\ records \in [Tool -> StageStatus]
  BY DEF SetStage, IInv, TypeOK
<1>2. writing' \in Writing /\ writing' # Quiet
  BY <1>1 DEF Writing, RunStatus, Quiet
<1>3. /\ records' \in [Tool -> StageStatus]
      /\ records'[t] = NormalizeStageStatus(status)
      /\ \A u \in Tool : u # t => records'[u] = records[u]
      /\ \A u \in Tool : records'[u] = "absent" => records[u] = "absent"
  BY <1>1, Normalized
<1>4. pc' \in Active /\ pc' # "returned" /\ pc' # "dead"
  BY <1>1 DEF Body, Active
<1>5. WritesKnown'
  BY <1>1, <1>2 DEF WritesKnown, Mine, IInv, Body
<1>6. FirstRecord'
  BY <1>2 DEF FirstRecord
<1>7. RecordsKept'
  BY <1>1, <1>3 DEF RecordsKept, IInv
<1>8. AnswerEarned' /\ AnswerCached'
  BY <1>4 DEF AnswerEarned, AnswerCached
<1> QED
  BY <1>2, <1>3, <1>4, <1>5, <1>6, <1>7, <1>8

-----------------------------------------------------------------------------
(* The steps that record a stage                                           *)

LEMMA EnterStageStep == ASSUME IInv, EnterStage PROVE IInv'
<1>1. /\ pc = "stage" /\ step \in 1 .. 19 /\ Now \in Tool /\ pc' = "inside"
      /\ SetStage(Now, "running", "inside", FALSE)
      /\ UNCHANGED <<run, cfg, step, attempts, hint, handling, rendered, answer, slips,
                     raisedIn, stateFile, runManifest, report>>
  BY OrderFacts, StageFacts DEF EnterStage, At, Now, SetStage
<1>2. /\ WritesKnown' /\ FirstRecord' /\ RecordsKept' /\ AnswerEarned' /\ AnswerCached'
      /\ records' \in [Tool -> StageStatus] /\ writing' \in Writing /\ pc' \in Active
      /\ records'[Now] = NormalizeStageStatus("running")
      /\ \A u \in Tool : u # Now => records'[u] = records[u]
  BY <1>1, Recorded DEF Body
<1>3. \A u \in Tool : records[u] # "running" /\ (records[u] = "cancelled" => hint = "failed")
  BY <1>1 DEF IInv, RunningIsNow, CancelledIsFinal
<1>4. NormalizeStageStatus("running") = "running"
  BY DEF NormalizeStageStatus
<1>5. TypeOK'
  BY <1>1, <1>2 DEF IInv, TypeOK
<1>6. FailureRemembered'
  BY <1>1 DEF IInv, FailureRemembered, Body
<1>7. RunningIsNow' /\ CancelledIsFinal'
  BY <1>1, <1>2, <1>3, <1>4, OrderFacts DEF RunningIsNow, CancelledIsFinal, Now
<1>8. ReportSoFar'
  BY <1>1 DEF ReportSoFar, Publishing
<1>9. OnDisk'
  BY <1>1, DiskUnchanged DEF IInv
<1> QED
  BY <1>2, <1>5, <1>6, <1>7, <1>8, <1>9 DEF IInv

\* A stage that returned leaves nothing running; the process goes on in the
\* body or, when T04 found nothing, with the report.
LEMMA BodyRecorded ==
  ASSUME IInv, pc \in {"stage", "inside", "check"},
         NEW t \in Tool, NEW status, NEW next \in {"stage", "check", "rendering"},
         status \notin {"running", "cancelled"},
         pc = "inside" => t = Now,
         SetStage(t, status, next, FALSE),
         UNCHANGED <<run, cfg, handling, rendered, answer, raisedIn, stateFile, runManifest,
                     report>>,
         step' \in 1 .. 20, next = "check" => step' # 20, attempts' \in BOOLEAN, slips' \in 0 .. MaxSlips,
         hint' = hint \/ (next = "rendering" /\ hint' = "partial")
  PROVE  IInv'
<1>1. /\ WritesKnown' /\ FirstRecord' /\ RecordsKept' /\ AnswerEarned' /\ AnswerCached'
      /\ records' \in [Tool -> StageStatus] /\ writing' \in Writing /\ pc' \in Active
      /\ records'[t] = NormalizeStageStatus(status)
      /\ \A u \in Tool : u # t => records'[u] = records[u]
  BY Recorded DEF Body
<1>2. pc' = next
  BY DEF SetStage
<1>3. /\ ~handling /\ hint = "success" /\ raisedIn = "none"
      /\ \A u \in Tool : u # t => records[u] \notin {"running", "cancelled"}
  BY DEF IInv, FailureRemembered, RunningIsNow, CancelledIsFinal, Body
<1>4. TypeOK'
  BY <1>1, OrderFacts DEF IInv, TypeOK
<1>5. FailureRemembered'
  BY <1>2, <1>3 DEF FailureRemembered, Body
<1>6. RunningIsNow' /\ CancelledIsFinal'
  BY <1>1, <1>2, <1>3, Normalized, OrderFacts DEF RunningIsNow, CancelledIsFinal
<1>7. ReportSoFar'
  BY <1>2 DEF ReportSoFar, Publishing
<1>8. OnDisk'
  BY DiskUnchanged DEF IInv
<1> QED
  BY <1>1, <1>4, <1>5, <1>6, <1>7, <1>8 DEF IInv

LEMMA LeaveStageStep == ASSUME IInv, LeaveStage PROVE IInv'
<1>1. PICK raw \in Outcomes(Now) :
        /\ slips' = slips + (IF raw \in Best THEN 0 ELSE 1) /\ slips' <= MaxSlips
        /\ SetStage(Now, raw, IF Now \in Stoppable THEN "check" ELSE "stage", FALSE)
  BY DEF LeaveStage, Slip
<1>2. pc = "inside" /\ step \in 1 .. 19 /\ Now \in Tool
  BY OrderFacts, StageFacts DEF LeaveStage, At, IInv, RunningIsNow, Now
<1>3. step' \in 1 .. 20 /\ (Now \in Stoppable => step' # 20)
  BY <1>2 DEF LeaveStage
<1>5. attempts' \in BOOLEAN /\ slips' \in 0 .. MaxSlips
  BY <1>1, RunnerAssumption DEF LeaveStage, IInv, TypeOK
<1>4. raw \notin {"running", "cancelled"}
  BY <1>1, OutcomesKnown
<1> QED
  BY <1>1, <1>2, <1>3, <1>4, <1>5, BodyRecorded DEF LeaveStage

LEMMA RecordStageStep == ASSUME IInv, RecordStage PROVE IInv'
<1>1. PICK raw \in Outcomes(Now) :
        /\ slips' = slips + (IF raw \in Best THEN 0 ELSE 1) /\ slips' <= MaxSlips
        /\ SetStage(Now, raw, IF Now \in Stoppable THEN "check" ELSE "stage", FALSE)
        /\ step' = IF Now \in Stoppable THEN step
                   ELSE IF raw = "empty" \/ (Now = "T24/T25" /\ raw = "skipped")
                     THEN step + 2
                   ELSE step + 1
  BY DEF RecordStage, Slip
<1>2. pc = "stage" /\ step \in 1 .. 19 /\ Now \in Tool
  BY OrderFacts, StageFacts DEF RecordStage, At, Now
<1>3. raw \notin {"running", "cancelled"} /\ (raw = "empty" => Now = "T13")
  BY <1>1, OutcomesKnown
<1>4. step = 19 => Now = "T12_FINAL"
  BY OrderFacts DEF Now
<1>5. step' \in 1 .. 20 /\ (Now \in Stoppable => step' # 20)
  BY <1>1, <1>2, <1>3, <1>4
<1>6. attempts' \in BOOLEAN /\ slips' \in 0 .. MaxSlips
  BY <1>1, RunnerAssumption DEF RecordStage, IInv, TypeOK
<1> QED
  BY <1>1, <1>2, <1>3, <1>5, <1>6, BodyRecorded DEF RecordStage

LEMMA NoAttemptsStep == ASSUME IInv, NoAttempts PROVE IInv'
<1>1. /\ pc = "stage" /\ "T05" \in Tool
      /\ SetStage("T05", "skipped", "rendering", FALSE) /\ hint' = "partial"
      /\ UNCHANGED <<run, cfg, step, attempts, handling, rendered, answer, slips, raisedIn,
                     stateFile, runManifest, report>>
  BY StageFacts DEF NoAttempts, At
<1>2. step' \in 1 .. 20 /\ attempts' \in BOOLEAN /\ slips' \in 0 .. MaxSlips
  BY <1>1, OrderFacts DEF IInv, TypeOK
<1>3. "skipped" \notin {"running", "cancelled"} /\ "rendering" \in {"stage", "check", "rendering"}
  OBVIOUS
<1> QED
  BY <1>1, <1>2, <1>3, BodyRecorded

LEMMA CheckStopStep == ASSUME IInv, CheckStop PROVE IInv'
<1> USE DEF CheckStop, At
<1>0. /\ step \in 1 .. 20 /\ ~handling /\ hint = "success" /\ raisedIn = "none"
      /\ \A t \in Tool : records[t] \notin {"running", "cancelled"}
      /\ records \in [Tool -> StageStatus]
  BY OrderFacts DEF IInv, TypeOK, FailureRemembered, RunningIsNow, CancelledIsFinal, Body
<1>1. CASE cfg.stop = Now
  <2>1. SetStage("RUNNER", "cancelled", "finishing", FALSE) /\ UNCHANGED step
    BY <1>1
  <2>2. /\ WritesKnown' /\ FirstRecord' /\ RecordsKept' /\ AnswerEarned' /\ AnswerCached'
        /\ records' \in [Tool -> StageStatus] /\ writing' \in Writing /\ pc' \in Active
        /\ records'["RUNNER"] = NormalizeStageStatus("cancelled")
        /\ \A u \in Tool : u # "RUNNER" => records'[u] = records[u]
    BY <2>1, Recorded, StageFacts DEF Body
  <2>3. pc' = "finishing" /\ NormalizeStageStatus("cancelled") = "cancelled"
    BY <2>1 DEF SetStage, NormalizeStageStatus
  <2>4. TypeOK'
    BY <2>1, <2>2 DEF IInv, TypeOK
  <2>5. FailureRemembered'
    BY <1>0, <2>3 DEF FailureRemembered, Body
  <2>6. RunningIsNow' /\ CancelledIsFinal'
    BY <1>0, <2>2, <2>3 DEF RunningIsNow, CancelledIsFinal
  <2>7. ReportSoFar'
    BY <2>3 DEF ReportSoFar, Publishing
  <2>8. OnDisk'
    BY DiskUnchanged DEF IInv
  <2> QED
    BY <2>2, <2>4, <2>5, <2>6, <2>7, <2>8 DEF IInv
<1>2. CASE cfg.stop # Now
  <2>1. /\ pc' = "stage" /\ step' = step + 1 /\ writing = Quiet
        /\ UNCHANGED <<records, writing>>
    BY <1>2 DEF Continue
  <2>2. step \in 1 .. 19 /\ Mine
    BY <2>1, OrderFacts DEF IInv, RunningIsNow, FirstRecord, Active
  <2>3. TypeOK'
    BY <2>1, <2>2, OrderFacts DEF IInv, TypeOK, Active
  <2>4. WritesKnown' /\ FirstRecord' /\ RecordsKept'
    BY <2>1, <2>2 DEF IInv, WritesKnown, FirstRecord, RecordsKept, Mine, Quiet, Active
  <2>5. FailureRemembered' /\ RunningIsNow' /\ CancelledIsFinal'
    BY <1>0, <2>1 DEF IInv, FailureRemembered, RunningIsNow, CancelledIsFinal
  <2>6. ReportSoFar' /\ AnswerEarned' /\ AnswerCached'
    BY <2>1 DEF ReportSoFar, Publishing, AnswerEarned, AnswerCached
  <2>7. OnDisk'
    BY DiskUnchanged DEF IInv
  <2> QED
    BY <2>3, <2>4, <2>5, <2>6, <2>7 DEF IInv
<1> QED
  BY <1>1, <1>2

-----------------------------------------------------------------------------
(* The writes                                                              *)

\* The first of the two files.  It may have more records than the run manifest,
\* never fewer.
LEMMA WriteStateStep == ASSUME IInv, WriteState PROVE IInv'
<1>1. /\ writing.left = "both" /\ writing \in Writing
      /\ writing' = [writing EXCEPT !.left = "manifest"]
      /\ stateFile' = [by |-> run, stages |-> records]
      /\ UNCHANGED <<run, cfg, pc, step, records, attempts, hint, handling, rendered,
                     answer, slips, raisedIn, runManifest, report>>
  BY DEF WriteState, IInv, TypeOK
<1>2. /\ writing'.left = "manifest" /\ writing'.status = writing.status
      /\ writing'.report = writing.report /\ writing'.inner = writing.inner
      /\ writing' \in Writing /\ writing' # Quiet /\ writing # Quiet
  BY <1>1 DEF Writing, Quiet
<1>3. run \in 1 .. MaxRuns /\ pc # "dead"
  BY <1>1 DEF IInv, TypeOK, WritesKnown, Body
<1>4. stateFile' \in StateFile
  BY <1>1, <1>3 DEF IInv, TypeOK, StateFile
<1>5. TypeOK'
  BY <1>1, <1>2, <1>4 DEF IInv, TypeOK
<1>6. WritesKnown' /\ FirstRecord' /\ FailureRemembered'
  BY <1>1, <1>2 DEF IInv, WritesKnown, FirstRecord, FailureRemembered, Mine
<1>7. RunningIsNow' /\ CancelledIsFinal' /\ ReportSoFar'
  BY <1>1 DEF IInv, RunningIsNow, CancelledIsFinal, ReportSoFar, Published, Whole, Now
<1>8. RecordsKept' /\ AnswerEarned' /\ AnswerCached'
  BY <1>1, <1>2 DEF IInv, RecordsKept, AnswerEarned, AnswerCached, Published, Whole
<1>9. OnDisk'
  <2>1. stateFile' # NoFile
    BY <1>4, NoFileAssumption
  <2>2. StateFileFirst'
    BY <1>1, <1>3, <2>1 DEF IInv, RecordsKept, StateFileFirst
  <2>3. SuccessBacked' /\ ReportBeforeManifest'
    BY <1>1 DEF IInv, OnDisk, WriteOrder, SuccessBacked, ReportBeforeManifest
  <2> QED
    BY <2>2, <2>3 DEF OnDisk, WriteOrder
<1> QED
  BY <1>5, <1>6, <1>7, <1>8, <1>9 DEF IInv

\* The second: what it says was settled when the writes began.
LEMMA WriteManifestStep == ASSUME IInv, WriteManifest PROVE IInv'
<1>1. /\ writing.left = "manifest" /\ writing \in Writing /\ writing' = Quiet
      /\ runManifest' = [by |-> run, config |-> cfg, status |-> writing.status,
                         stages |-> records, report |-> writing.report]
      /\ UNCHANGED <<run, cfg, pc, step, records, attempts, hint, handling, rendered,
                     answer, slips, raisedIn, stateFile, report>>
  BY DEF WriteManifest, IInv, TypeOK
<1>2. run \in 1 .. MaxRuns /\ pc \in Body \cup {"rendering", "concluding", "returned"}
  BY <1>1 DEF IInv, TypeOK, WritesKnown, Body
<1>3. runManifest' \in RunManifest
  BY <1>1, <1>2 DEF IInv, TypeOK, RunManifest, Writing
<1>4. runManifest' # NoFile /\ writing # Quiet
  BY <1>1, <1>3, NoFileAssumption DEF Quiet
<1>5. /\ Quiet \in Writing /\ Quiet.left = "none" /\ Quiet.status = "partial"
      /\ ~Quiet.report /\ ~Quiet.inner
  BY DEF Quiet, Writing, RunStatus
<1>6. pc # "returned" => Mine'
  BY <1>1, <1>4 DEF IInv, WritesKnown, Mine
<1>7. stateFile = [by |-> run, stages |-> records] /\ stateFile # NoFile
  <2>1. stateFile = [by |-> run, stages |-> records]
    BY <1>1 DEF IInv, RecordsKept
  <2>2. stateFile \in StateFile
    BY <1>2, <2>1 DEF StateFile, IInv, TypeOK
  <2> QED
    BY <2>1, <2>2, NoFileAssumption
<1>8. TypeOK'
  BY <1>1, <1>3, <1>5 DEF IInv, TypeOK
<1>9. WritesKnown' /\ FirstRecord'
  BY <1>1, <1>2, <1>5, <1>6 DEF IInv, WritesKnown, FirstRecord, Active
<1>10. FailureRemembered' /\ RunningIsNow' /\ CancelledIsFinal' /\ ReportSoFar'
  BY <1>1 DEF IInv, FailureRemembered, RunningIsNow, CancelledIsFinal, ReportSoFar,
              Published, Whole, Now
<1>11. RecordsKept'
  BY <1>1, <1>2, <1>5 DEF IInv, RecordsKept
<1>12. AnswerEarned' /\ AnswerCached'
  BY <1>1, <1>4, <1>7 DEF IInv, AnswerEarned, AnswerCached
<1>13. writing.status = "success" \/ writing.report =>
         /\ pc = "returned" /\ ~answer.cached /\ Whole /\ rendered # "none"
         /\ writing.status = "success" =>
              Clean(records) /\ records["T17"] = "success" /\ rendered = "success"
  BY <1>1, <1>4 DEF IInv, WritesKnown, AnswerEarned, AnswerCached
<1>14. OnDisk'
  <2>1. StateFileFirst'
    BY <1>1, <1>2, <1>7 DEF StateFileFirst
  <2>2. SuccessBacked'
    BY <1>1, <1>13 DEF SuccessBacked, Whole, Published, Clean
  <2>3. ReportBeforeManifest'
    <3>1. SUFFICES ASSUME writing.report
                   PROVE  /\ report.manifest # NoFile /\ report.manifest.by = run
                          /\ report.json = report.manifest
                          /\ report.markdown = report.manifest
      BY <1>1 DEF ReportBeforeManifest
    <3>2. Whole /\ rendered # "none"
      BY <1>13, <3>1
    <3>3. report.manifest \in ReportFile
      BY <1>2, <3>2 DEF IInv, TypeOK, ReportFile, Whole, Published
    <3> QED
      BY <3>2, <3>3, NoFileAssumption DEF Whole, Published
  <2> QED
    BY <2>1, <2>2, <2>3 DEF OnDisk, WriteOrder
<1> QED
  BY <1>8, <1>9, <1>10, <1>11, <1>12, <1>14 DEF IInv

\* A failed write leaves the files as they were and the error to the handler.
LEMMA WriteFailsStep == ASSUME IInv, WriteFails PROVE IInv'
<1>1. /\ writing.left # "none" /\ writing' = Quiet /\ writing # Quiet
      /\ UNCHANGED <<run, cfg, step, records, attempts, rendered, answer, slips,
                     raisedIn, stateFile, runManifest, report>>
      /\ pc \in Body \cup {"rendering", "concluding", "returned"}
  BY DEF WriteFails, IInv, WritesKnown, Quiet
<1>2. /\ Quiet \in Writing /\ Quiet.left = "none" /\ Quiet.status = "partial"
      /\ ~Quiet.report /\ ~Quiet.inner
  BY DEF Quiet, Writing, RunStatus
<1>3. \/ /\ writing.inner /\ pc' = "unpublished" /\ UNCHANGED <<handling, hint>>
         /\ pc = "concluding" /\ Mine /\ rendered # "none"
      \/ pc' \in {"failing", "escaped"} /\ handling' = TRUE /\ hint' = "failed"
  BY DEF WriteFails, RaiseTo, IInv, WritesKnown
<1>4. TypeOK'
  <2>1. pc' \in Active \cup Ended
    BY <1>3 DEF Active, Ended
  <2>2. handling' \in BOOLEAN /\ hint' \in {"success", "partial", "failed"}
    BY <1>3 DEF IInv, TypeOK
  <2> QED
    BY <1>1, <1>2, <2>1, <2>2 DEF IInv, TypeOK
<1>5. WritesKnown'
  BY <1>1, <1>2, <1>3 DEF IInv, WritesKnown, Body
<1>6. FirstRecord'
  BY <1>1, <1>3 DEF FirstRecord, Mine, Active
<1>7. FailureRemembered' /\ CancelledIsFinal'
  BY <1>1, <1>3 DEF IInv, FailureRemembered, CancelledIsFinal, Body
<1>8. RunningIsNow'
  BY <1>1, <1>3 DEF IInv, RunningIsNow, Body
<1>9. ReportSoFar'
  BY <1>1, <1>3 DEF IInv, ReportSoFar, Publishing, Published, Whole
<1>10. RecordsKept' /\ AnswerEarned' /\ AnswerCached'
  BY <1>1, <1>2, <1>3 DEF IInv, RecordsKept, AnswerEarned, AnswerCached, Body
<1>11. OnDisk'
  BY <1>1, DiskUnchanged DEF IInv
<1> QED
  BY <1>4, <1>5, <1>6, <1>7, <1>8, <1>9, <1>10, <1>11 DEF IInv

-----------------------------------------------------------------------------
(* The way an exception takes, and the end of the body                     *)

LEMMA StageRaisesStep == ASSUME IInv, StageRaises PROVE IInv'
<1>1. /\ pc \in {"stage", "inside", "check"} /\ writing = Quiet /\ pc' = "failing"
      /\ handling' = TRUE /\ hint' = "failed"
      /\ UNCHANGED <<run, cfg, step, records, attempts, rendered, writing, answer, slips,
                     stateFile, runManifest, report>>
      /\ raisedIn' = IF step \in DOMAIN Order THEN Now ELSE "T12_FINAL"
  BY DEF StageRaises, Raise, At
<1>2. raisedIn' \in Stage
  BY <1>1, OrderFacts, StageFacts DEF Now
<1>3. TypeOK'
  BY <1>1, <1>2 DEF IInv, TypeOK, Active
<1>4. WritesKnown' /\ FirstRecord' /\ RecordsKept'
  BY <1>1 DEF IInv, WritesKnown, FirstRecord, RecordsKept, Mine, Active, Quiet
<1>5. FailureRemembered' /\ CancelledIsFinal' /\ RunningIsNow'
  BY <1>1 DEF IInv, FailureRemembered, CancelledIsFinal, RunningIsNow, Body
<1>6. ReportSoFar' /\ AnswerEarned' /\ AnswerCached'
  BY <1>1 DEF ReportSoFar, Publishing, AnswerEarned, AnswerCached
<1>7. OnDisk'
  BY <1>1, DiskUnchanged DEF IInv
<1> QED
  BY <1>3, <1>4, <1>5, <1>6, <1>7 DEF IInv

LEMMA NothingExpandedStep == ASSUME IInv, NothingExpanded PROVE IInv'
<1>1. /\ pc = "stage" /\ writing = Quiet /\ step \in 1 .. 19 /\ step' = step + 1
      /\ UNCHANGED <<run, cfg, pc, records, attempts, hint, handling, rendered, writing,
                     answer, slips, raisedIn, stateFile, runManifest, report>>
      /\ step # 1
  BY OrderFacts DEF NothingExpanded, At, Continue, Now
<1>2. TypeOK'
  BY <1>1, OrderFacts DEF IInv, TypeOK
<1>3. WritesKnown' /\ FirstRecord' /\ RecordsKept'
  BY <1>1 DEF IInv, WritesKnown, FirstRecord, RecordsKept, Mine
<1>4. FailureRemembered' /\ CancelledIsFinal' /\ RunningIsNow'
  BY <1>1 DEF IInv, FailureRemembered, CancelledIsFinal, RunningIsNow, Body
<1>5. ReportSoFar' /\ AnswerEarned' /\ AnswerCached'
  BY <1>1 DEF ReportSoFar, Publishing, AnswerEarned, AnswerCached
<1>6. OnDisk'
  BY <1>1, DiskUnchanged DEF IInv
<1> QED
  BY <1>2, <1>3, <1>4, <1>5, <1>6 DEF IInv

LEMMA FinishWithoutReportStep == ASSUME IInv, FinishWithoutReport PROVE IInv'
<1>1. /\ pc = "finishing" /\ writing = Quiet /\ pc' = "returned"
      /\ writing' = [left |-> "both", status |-> "cancelled", report |-> FALSE, inner |-> FALSE]
      /\ answer' = [status |-> "cancelled", stages |-> records, cached |-> FALSE]
      /\ UNCHANGED <<run, cfg, step, records, attempts, hint, handling, rendered, slips,
                     raisedIn, stateFile, runManifest, report>>
  BY DEF FinishWithoutReport, At
<1>2. writing' \in Writing /\ writing' # Quiet
  BY <1>1 DEF Writing, RunStatus, Quiet
<1>3. TypeOK'
  <2>1. answer' \in [status : RunStatus \cup {"none"}, stages : [Tool -> StageStatus],
                     cached : BOOLEAN]
    BY <1>1 DEF IInv, TypeOK, RunStatus
  <2> QED
    BY <1>1, <1>2, <2>1 DEF IInv, TypeOK, Ended
<1>4. WritesKnown' /\ FirstRecord' /\ RecordsKept'
  BY <1>1, <1>2 DEF IInv, WritesKnown, FirstRecord, RecordsKept, Mine, Active
<1>5. FailureRemembered' /\ CancelledIsFinal' /\ RunningIsNow'
  BY <1>1 DEF IInv, FailureRemembered, CancelledIsFinal, RunningIsNow, Body
<1>6. raisedIn = "none"
  BY <1>1 DEF IInv, FailureRemembered, Body
<1>7. ReportSoFar' /\ AnswerEarned' /\ AnswerCached'
  BY <1>1, <1>2, <1>5, <1>6 DEF ReportSoFar, Publishing, AnswerEarned, AnswerCached, RunningIsNow
<1>8. OnDisk'
  BY <1>1, DiskUnchanged DEF IInv
<1> QED
  BY <1>3, <1>4, <1>5, <1>7, <1>8 DEF IInv

LEMMA BodyDoneStep == ASSUME IInv, BodyDone PROVE IInv'
<1>1. /\ pc = "stage" /\ writing = Quiet /\ step = 20 /\ pc' = "rendering" /\ hint' = "success"
      /\ UNCHANGED <<run, cfg, step, records, attempts, handling, rendered, writing, answer,
                     slips, raisedIn, stateFile, runManifest, report>>
  BY OrderFacts DEF BodyDone, At
<1>2. hint = "success" /\ Mine
  BY <1>1 DEF IInv, FailureRemembered, FirstRecord, Body
<1>3. TypeOK'
  BY <1>1 DEF IInv, TypeOK, Active
<1>4. WritesKnown' /\ FirstRecord' /\ RecordsKept'
  BY <1>1, <1>2 DEF IInv, WritesKnown, FirstRecord, RecordsKept, Mine, Quiet
<1>5. FailureRemembered' /\ CancelledIsFinal' /\ RunningIsNow'
  BY <1>1, <1>2 DEF IInv, FailureRemembered, CancelledIsFinal, RunningIsNow, Body
<1>6. ReportSoFar' /\ AnswerEarned' /\ AnswerCached'
  BY <1>1 DEF ReportSoFar, Publishing, AnswerEarned, AnswerCached
<1>7. OnDisk'
  BY <1>1, DiskUnchanged DEF IInv
<1> QED
  BY <1>3, <1>4, <1>5, <1>6, <1>7 DEF IInv

\* The stage that was running is failed, and nothing else is running.
LEMMA RecordFailureStep == ASSUME IInv, RecordFailure PROVE IInv'
<1>1. /\ pc = "failing" /\ pc' = "rendering" /\ rendered' = "none" /\ FailedTool \in Tool
      /\ SetStage(FailedTool, "failed", "rendering", FALSE)
      /\ UNCHANGED <<run, cfg, step, attempts, hint, handling, answer, slips, raisedIn,
                     stateFile, runManifest, report>>
  BY FailedToolIsTool DEF RecordFailure, At, SetStage
<1>2. /\ WritesKnown' /\ FirstRecord' /\ RecordsKept' /\ AnswerEarned' /\ AnswerCached'
      /\ records' \in [Tool -> StageStatus] /\ writing' \in Writing /\ pc' \in Active
      /\ records'[FailedTool] = NormalizeStageStatus("failed")
      /\ \A u \in Tool : u # FailedTool => records'[u] = records[u]
  BY <1>1, Recorded DEF Body
<1>3. \A u \in Tool : records[u] = "running" => u = FailedTool
  <2>1. SUFFICES ASSUME NEW u \in Tool, records[u] = "running" PROVE u = FailedTool
    OBVIOUS
  <2>2. u \in Running /\ FailedTool \in Running
    BY <2>1 DEF Running, FailedTool
  <2> QED
    BY <1>1, <2>1, <2>2 DEF IInv, RunningIsNow, Running
<1>4. TypeOK'
  BY <1>1, <1>2 DEF IInv, TypeOK
<1>5. hint = "failed" \/ \A t \in Tool : records[t] # "cancelled"
  BY <1>1 DEF IInv, CancelledIsFinal
<1>6. FailureRemembered'
  BY <1>1 DEF IInv, FailureRemembered, Body
<1>7. RunningIsNow' /\ CancelledIsFinal'
  BY <1>1, <1>2, <1>3, <1>5, Normalized DEF RunningIsNow, CancelledIsFinal
<1>8. ReportSoFar'
  BY <1>1 DEF ReportSoFar, Publishing
<1>9. OnDisk'
  BY <1>1, DiskUnchanged DEF IInv
<1> QED
  BY <1>2, <1>4, <1>6, <1>7, <1>8, <1>9 DEF IInv

-----------------------------------------------------------------------------
(* The report and the last write                                           *)

LEMMA BuildReportStep == ASSUME IInv, BuildReport PROVE IInv'
<1>1. /\ pc = "rendering" /\ writing = Quiet /\ pc' = "publish_json"
      /\ \E degraded \in BOOLEAN : /\ slips' = slips + (IF degraded THEN 1 ELSE 0)
                                   /\ rendered' = DeriveReportStatus(degraded)
      /\ slips' <= MaxSlips
      /\ UNCHANGED <<run, cfg, step, records, attempts, hint, handling, writing, answer,
                     raisedIn, stateFile, runManifest, report>>
  BY DEF BuildReport, At
<1>2. rendered' \in ReportStatus /\ slips' \in 0 .. MaxSlips
  BY <1>1, RunnerAssumption DEF DeriveReportStatus, ReportStatus, IInv, TypeOK
<1>3. rendered' # "none"
  BY <1>2 DEF ReportStatus
<1>4. TypeOK'
  BY <1>1, <1>2 DEF IInv, TypeOK, Active
<1>5. Mine
  BY <1>1 DEF IInv, FirstRecord, Active
<1>6. WritesKnown' /\ FirstRecord' /\ RecordsKept'
  BY <1>1, <1>5 DEF IInv, WritesKnown, FirstRecord, RecordsKept, Mine, Quiet
<1>7. FailureRemembered' /\ CancelledIsFinal' /\ RunningIsNow'
  BY <1>1 DEF IInv, FailureRemembered, CancelledIsFinal, RunningIsNow, Body
<1>8. ReportSoFar' /\ AnswerEarned' /\ AnswerCached'
  BY <1>1, <1>3 DEF ReportSoFar, Publishing, AnswerEarned, AnswerCached
<1>9. OnDisk'
  BY <1>1, DiskUnchanged DEF IInv
<1> QED
  BY <1>4, <1>6, <1>7, <1>8, <1>9 DEF IInv

\* While the run manifest is an intermediate one it says nothing of the report.
LEMMA ReportFree ==
  ASSUME OnDisk, Mine, UNCHANGED <<stateFile, runManifest>>
  PROVE  OnDisk'
BY DEF OnDisk, Mine, SuccessBacked, WriteOrder, ReportBeforeManifest, StateFileFirst

\* One file of the report is renamed into place.
LEMMA PublishFile ==
  ASSUME IInv, NEW file \in {"json", "markdown", "manifest"},
         NEW here \in Publishing, NEW next, Publish(file, here, next)
  PROVE  /\ pc = here /\ writing = Quiet /\ pc' = next /\ Mine /\ rendered # "none"
         /\ UNCHANGED <<run, cfg, step, attempts, hint, handling, rendered, answer, slips,
                        raisedIn, stateFile, runManifest>>
         /\ report'[file] = [by |-> run, status |-> rendered]
         /\ \A other \in {"json", "markdown", "manifest"} \ {file} :
              report'[other] = report[other]
         /\ report' \in [json : ReportFile \cup {NoFile}, markdown : ReportFile \cup {NoFile},
                         manifest : ReportFile \cup {NoFile}]
         /\ OnDisk'
<1>1. /\ pc = here /\ writing = Quiet /\ pc' = next
      /\ report' = [report EXCEPT ![file] = [by |-> run, status |-> rendered]]
      /\ UNCHANGED <<run, cfg, step, attempts, hint, handling, rendered, answer, slips,
                     raisedIn, stateFile, runManifest>>
  BY DEF Publish, At
<1>2. Mine /\ rendered # "none" /\ run \in 1 .. MaxRuns
  BY <1>1 DEF IInv, TypeOK, FirstRecord, ReportSoFar, WritesKnown, Active, Publishing
<1>3. [by |-> run, status |-> rendered] \in ReportFile
  BY <1>2 DEF IInv, TypeOK, ReportFile
<1>4. report \in [json : ReportFile \cup {NoFile}, markdown : ReportFile \cup {NoFile},
                  manifest : ReportFile \cup {NoFile}]
  BY DEF IInv, TypeOK
<1>5. /\ report'[file] = [by |-> run, status |-> rendered]
      /\ \A other \in {"json", "markdown", "manifest"} \ {file} : report'[other] = report[other]
  BY <1>1, <1>4
<1>6. report' \in [json : ReportFile \cup {NoFile}, markdown : ReportFile \cup {NoFile},
                   manifest : ReportFile \cup {NoFile}]
  BY <1>1, <1>3, <1>4
<1>7. OnDisk'
  BY <1>1, <1>2, ReportFree DEF IInv
<1> QED
  BY <1>1, <1>2, <1>5, <1>6, <1>7

LEMMA PublishBodyStep == ASSUME IInv, PublishJson \/ PublishMarkdown PROVE IInv'
<1>1. /\ \/ pc = "publish_json" /\ pc' = "publish_markdown" /\ Published("json")'
         \/ pc = "publish_markdown" /\ pc' = "publish_manifest"
            /\ Published("json")' /\ Published("markdown")'
      /\ writing = Quiet /\ Mine /\ rendered # "none"
      /\ UNCHANGED <<run, cfg, step, records, attempts, hint, handling, rendered, writing,
                     answer, slips, raisedIn, stateFile, runManifest>>
      /\ report' \in [json : ReportFile \cup {NoFile}, markdown : ReportFile \cup {NoFile},
                      manifest : ReportFile \cup {NoFile}]
      /\ OnDisk'
  <2>1. CASE PublishJson
    BY <2>1, PublishFile DEF PublishJson, Published, Publishing
  <2>2. CASE PublishMarkdown
    <3>1. Publish("markdown", "publish_markdown", "publish_manifest")
          /\ UNCHANGED <<records, writing>>
      BY <2>2 DEF PublishMarkdown
    <3>2. "publish_markdown" \in Publishing /\ "json" \in {"json", "markdown", "manifest"} \ {"markdown"}
      BY DEF Publishing
    <3>3. report["json"] = [by |-> run, status |-> rendered]
      BY <3>1, <3>2, PublishFile DEF IInv, ReportSoFar, Published
    <3> QED
      BY <3>1, <3>2, <3>3, PublishFile DEF Published
  <2> QED
    BY <2>1, <2>2
<1>2. TypeOK'
  BY <1>1 DEF IInv, TypeOK, Active
<1>3. WritesKnown' /\ FirstRecord' /\ RecordsKept'
  BY <1>1 DEF IInv, WritesKnown, FirstRecord, RecordsKept, Mine, Quiet
<1>4. FailureRemembered' /\ CancelledIsFinal' /\ RunningIsNow'
  BY <1>1 DEF IInv, FailureRemembered, CancelledIsFinal, RunningIsNow, Body
<1>5. ReportSoFar' /\ AnswerEarned' /\ AnswerCached'
  BY <1>1 DEF ReportSoFar, Publishing, AnswerEarned, AnswerCached
<1> QED
  BY <1>1, <1>2, <1>3, <1>4, <1>5 DEF IInv

LEMMA PublishManifestStep == ASSUME IInv, PublishManifest PROVE IInv'
<1>1. /\ Publish("manifest", "publish_manifest", "concluding")
      /\ SetStage("T17", rendered, "concluding", TRUE)
  BY DEF PublishManifest
<1>2. /\ pc = "publish_manifest" /\ writing = Quiet /\ pc' = "concluding" /\ Mine
      /\ rendered # "none" /\ OnDisk'
      /\ UNCHANGED <<run, cfg, step, attempts, hint, handling, rendered, answer, slips,
                     raisedIn, stateFile, runManifest>>
      /\ report'["manifest"] = [by |-> run, status |-> rendered]
      /\ report'["json"] = report["json"] /\ report'["markdown"] = report["markdown"]
      /\ report' \in [json : ReportFile \cup {NoFile}, markdown : ReportFile \cup {NoFile},
                      manifest : ReportFile \cup {NoFile}]
  BY <1>1, PublishFile DEF Publishing
<1>3. /\ WritesKnown' /\ FirstRecord' /\ RecordsKept' /\ AnswerEarned' /\ AnswerCached'
      /\ records' \in [Tool -> StageStatus] /\ writing' \in Writing /\ pc' \in Active
      /\ records'["T17"] = NormalizeStageStatus(rendered)
      /\ \A u \in Tool : u # "T17" => records'[u] = records[u]
  BY <1>1, <1>2, Recorded, StageFacts
<1>4. rendered \in ReportStatus /\ rendered \notin {"running", "cancelled"}
  BY <1>2 DEF IInv, TypeOK, ReportStatus
<1>5. records'["T17"] = rendered
  BY <1>3, <1>4, Normalized
<1>6. TypeOK'
  BY <1>2, <1>3 DEF IInv, TypeOK
<1>7. FailureRemembered'
  BY <1>2 DEF IInv, FailureRemembered, Body
<1>8. CancelledIsFinal' /\ RunningIsNow'
  BY <1>2, <1>3, <1>4, <1>5 DEF IInv, CancelledIsFinal, RunningIsNow
<1>9. ReportSoFar'
  BY <1>2, <1>5 DEF IInv, ReportSoFar, Publishing, Published, Whole
<1> QED
  BY <1>2, <1>3, <1>6, <1>7, <1>8, <1>9 DEF IInv

LEMMA ReportRaisesStep == ASSUME IInv, ReportRaises PROVE IInv'
<1>1. /\ pc \in {"rendering"} \cup Publishing /\ writing = Quiet /\ pc' = "unpublished"
      /\ rendered' = "none" /\ raisedIn' = IF raisedIn = "none" THEN "T17" ELSE raisedIn
      /\ UNCHANGED <<run, cfg, step, records, attempts, hint, handling, writing, answer,
                     slips, stateFile, runManifest, report>>
  BY DEF ReportRaises, At, Publishing
<1>2. TypeOK'
  BY <1>1 DEF IInv, TypeOK, Active
<1>3. Mine
  BY <1>1 DEF IInv, FirstRecord, Active, Publishing
<1>4. WritesKnown' /\ FirstRecord' /\ RecordsKept'
  BY <1>1, <1>3 DEF IInv, WritesKnown, FirstRecord, RecordsKept, Mine, Quiet, Publishing
<1>5. FailureRemembered' /\ CancelledIsFinal' /\ RunningIsNow'
  BY <1>1 DEF IInv, FailureRemembered, CancelledIsFinal, RunningIsNow, Body, Publishing
<1>6. ReportSoFar' /\ AnswerEarned' /\ AnswerCached'
  BY <1>1 DEF ReportSoFar, Publishing, AnswerEarned, AnswerCached
<1>7. OnDisk'
  BY <1>1, DiskUnchanged DEF IInv
<1> QED
  BY <1>2, <1>4, <1>5, <1>6, <1>7 DEF IInv

LEMMA RecordNoReportStep == ASSUME IInv, RecordNoReport PROVE IInv'
<1>1. /\ pc = "unpublished" /\ pc' = "concluding" /\ hint' = "failed" /\ "T17" \in Tool
      /\ SetStage("T17", "failed", "concluding", FALSE)
      /\ UNCHANGED <<run, cfg, step, attempts, handling, rendered, answer, slips, raisedIn,
                     stateFile, runManifest, report>>
  BY StageFacts DEF RecordNoReport, At, SetStage
<1>2. /\ WritesKnown' /\ FirstRecord' /\ RecordsKept' /\ AnswerEarned' /\ AnswerCached'
      /\ records' \in [Tool -> StageStatus] /\ writing' \in Writing /\ pc' \in Active
      /\ records'["T17"] = NormalizeStageStatus("failed")
      /\ \A u \in Tool : u # "T17" => records'[u] = records[u]
  BY <1>1, Recorded
<1>3. TypeOK'
  BY <1>1, <1>2 DEF IInv, TypeOK
<1>4. FailureRemembered' /\ CancelledIsFinal'
  BY <1>1 DEF FailureRemembered, CancelledIsFinal, Body
<1>5. RunningIsNow'
  BY <1>1, <1>2, Normalized DEF IInv, RunningIsNow
<1>6. ReportSoFar'
  BY <1>1 DEF IInv, ReportSoFar, Publishing, Published, Whole
<1>7. OnDisk'
  BY <1>1, DiskUnchanged DEF IInv
<1> QED
  BY <1>2, <1>3, <1>4, <1>5, <1>6, <1>7 DEF IInv

\* "success" is the status of a run in which nothing failed and no record is
\* left running, cancelled or partial.
LEMMA ConcludeStep == ASSUME IInv, Conclude PROVE IInv'
<1> DEFINE last == [left |-> "both", status |-> FinalStatus, report |-> rendered # "none",
                    inner |-> FALSE]
<1>1. /\ pc = "concluding" /\ writing = Quiet /\ pc' = "returned"
      /\ writing' = last
      /\ answer' = [status |-> FinalStatus, stages |-> records, cached |-> FALSE]
      /\ UNCHANGED <<run, cfg, step, records, attempts, hint, handling, rendered, slips,
                     raisedIn, stateFile, runManifest, report>>
  BY DEF Conclude, At
<1>2. FinalStatus \in {"success", "partial", "failed"}
  BY DEF FinalStatus
<1>3. /\ writing'.left = "both" /\ writing'.status = FinalStatus /\ ~writing'.inner
      /\ writing'.report = (rendered # "none")
  BY <1>1
<1>4. writing' \in Writing /\ writing' # Quiet
  <2>1. (rendered # "none") \in BOOLEAN
    OBVIOUS
  <2> QED
    BY <1>1, <1>2, <2>1 DEF Writing, RunStatus, Quiet
<1>5. TypeOK'
  <2>1. answer' \in [status : RunStatus \cup {"none"}, stages : [Tool -> StageStatus],
                     cached : BOOLEAN]
    BY <1>1, <1>2 DEF IInv, TypeOK, RunStatus
  <2> QED
    BY <1>1, <1>4, <2>1 DEF IInv, TypeOK, Ended
<1>6. WritesKnown' /\ FirstRecord' /\ RecordsKept'
  BY <1>1, <1>3, <1>4 DEF IInv, WritesKnown, FirstRecord, RecordsKept, Mine, Active
<1>7. FailureRemembered' /\ CancelledIsFinal' /\ RunningIsNow'
  BY <1>1 DEF IInv, FailureRemembered, CancelledIsFinal, RunningIsNow, Body
<1>8. ReportSoFar'
  BY <1>1 DEF ReportSoFar, Publishing
<1>9. raisedIn # "none" => FinalStatus = "failed"
  BY <1>1 DEF IInv, FailureRemembered, FinalStatus
<1>10. rendered # "none" => Whole
  BY <1>1 DEF IInv, ReportSoFar
<1>11. FinalStatus = "success" =>
         Clean(records) /\ records["T17"] = "success" /\ rendered = "success"
  <2>1. SUFFICES ASSUME FinalStatus = "success"
                 PROVE  Clean(records) /\ records["T17"] = "success" /\ rendered = "success"
    OBVIOUS
  <2>2. /\ hint # "failed" /\ rendered \notin {"failed", "partial"}
        /\ \A t \in Tool : records[t] \notin {"failed", "partial"}
    BY <2>1 DEF FinalStatus
  <2>3. rendered = "success" /\ records["T17"] = "success"
    BY <1>1, <2>2 DEF IInv, TypeOK, ReportSoFar, ReportStatus
  <2>4. \A t \in Tool : records[t] \in StageStatus \ {"running", "cancelled"}
    BY <1>1, <2>2 DEF IInv, TypeOK, RunningIsNow, CancelledIsFinal
  <2> QED
    BY <2>2, <2>3, <2>4 DEF Clean, StageStatus
<1>12. \A t \in Tool : records[t] # "running"
  BY <1>1 DEF IInv, RunningIsNow
<1>13. Whole' <=> Whole
  BY <1>1 DEF Whole, Published
<1>14. AnswerEarned' /\ AnswerCached'
  <2>1. /\ answer'.stages = records /\ answer'.status = FinalStatus /\ ~answer'.cached
        /\ records' = records /\ raisedIn' = raisedIn /\ rendered' = rendered
    BY <1>1
  <2>2. AnswerCached'
    BY <2>1 DEF AnswerCached
  <2>3. AnswerEarned'
    BY <1>3, <1>4, <1>9, <1>10, <1>11, <1>12, <1>13, <2>1 DEF AnswerEarned, Clean
  <2> QED
    BY <2>2, <2>3
<1>15. OnDisk'
  BY <1>1, DiskUnchanged DEF IInv
<1> QED
  BY <1>5, <1>6, <1>7, <1>8, <1>14, <1>15 DEF IInv

-----------------------------------------------------------------------------
(* A killed process, and the next call                                     *)

\* What a process knows that has not begun.
LEMMA NothingKnown ==
  /\ Quiet \in Writing /\ Quiet.left = "none" /\ Quiet.status = "partial"
  /\ ~Quiet.report /\ ~Quiet.inner
  /\ NoRecords \in [Tool -> StageStatus] /\ \A t \in Tool : NoRecords[t] = "absent"
  /\ NoAnswer \in [status : RunStatus \cup {"none"}, stages : [Tool -> StageStatus],
                   cached : BOOLEAN]
  /\ NoAnswer.cached = FALSE
<1>1. NoRecords \in [Tool -> StageStatus] /\ \A t \in Tool : NoRecords[t] = "absent"
  BY DEF NoRecords, StageStatus
<1>2. NoAnswer \in [status : RunStatus \cup {"none"}, stages : [Tool -> StageStatus],
                    cached : BOOLEAN]
  BY <1>1 DEF NoAnswer
<1> QED
  BY <1>1, <1>2 DEF Quiet, Writing, RunStatus, NoAnswer

\* What Init, Die and Invoke start from.
LEMMA FirstValues ==
  /\ 1 \in 1 .. (Len(Order) + 1) /\ 0 \in 0 .. MaxSlips /\ 0 \in 0 .. MaxRuns
  /\ FALSE \in BOOLEAN /\ "success" \in {"success", "partial", "failed"}
  /\ "none" \in ReportStatus \cup {"none"} /\ "none" \in Stage \cup {"none", "T17"}
BY OrderFacts, RunnerAssumption

LEMMA InvariantInit == Init => IInv
<1> SUFFICES ASSUME Init PROVE IInv
  OBVIOUS
<1> USE DEF Init
<1>1. TypeOK
  BY NothingKnown, FirstValues DEF TypeOK, Ended
<1>2. WritesKnown /\ FirstRecord /\ FailureRemembered /\ CancelledIsFinal /\ RunningIsNow
  BY NothingKnown DEF WritesKnown, FirstRecord, FailureRemembered, CancelledIsFinal,
                      RunningIsNow, Body, Active
<1>3. ReportSoFar /\ RecordsKept /\ AnswerEarned /\ AnswerCached
  BY NothingKnown DEF ReportSoFar, RecordsKept, AnswerEarned, AnswerCached, Publishing
<1>4. OnDisk
  BY DEF OnDisk, SuccessBacked, WriteOrder, ReportBeforeManifest, StateFileFirst
<1> QED
  BY <1>1, <1>2, <1>3, <1>4 DEF IInv

LEMMA DieStep == ASSUME IInv, Die PROVE IInv'
<1>1. /\ pc' = "dead" /\ step' = 1 /\ records' = NoRecords /\ attempts' = FALSE
      /\ hint' = "success" /\ handling' = FALSE /\ rendered' = "none" /\ writing' = Quiet
      /\ answer' = NoAnswer /\ slips' = 0 /\ raisedIn' = "none"
      /\ UNCHANGED <<run, cfg, stateFile, runManifest, report>>
  BY DEF Die, Forget
<1>2. TypeOK'
  BY <1>1, NothingKnown, FirstValues DEF IInv, TypeOK, Ended
<1>3. WritesKnown' /\ FirstRecord' /\ FailureRemembered' /\ CancelledIsFinal' /\ RunningIsNow'
  BY <1>1, NothingKnown DEF WritesKnown, FirstRecord, FailureRemembered, CancelledIsFinal,
                      RunningIsNow, Body, Active
<1>4. ReportSoFar' /\ RecordsKept' /\ AnswerEarned' /\ AnswerCached'
  BY <1>1, NothingKnown DEF IInv, ReportSoFar, RecordsKept, AnswerEarned, AnswerCached, Publishing
<1>5. OnDisk'
  BY <1>1, DiskUnchanged DEF IInv
<1> QED
  BY <1>2, <1>3, <1>4, <1>5 DEF IInv

\* A later call finds files of earlier runs only.
LEMMA InvokeStep == ASSUME IInv, NEW c \in Config, Invoke(c) PROVE IInv'
<1>1. /\ run' = run + 1 /\ run' \in 1 .. MaxRuns /\ cfg' = c /\ step' = 1
      /\ records' = NoRecords /\ attempts' = FALSE
      /\ hint' = "success" /\ handling' = FALSE /\ rendered' = "none" /\ writing' = Quiet
      /\ slips' = 0 /\ raisedIn' = "none"
      /\ UNCHANGED <<stateFile, runManifest, report>>
  BY RunnerAssumption DEF Invoke, IInv, TypeOK
<1>2. \/ pc' \in {"stage", "escaped"} /\ answer' = NoAnswer
      \/ /\ pc' = "returned" /\ runManifest # NoFile /\ runManifest.status = "success"
         /\ answer' = [status |-> "success", stages |-> runManifest.stages, cached |-> TRUE]
  BY DEF Invoke
<1>3. answer' \in [status : RunStatus \cup {"none"}, stages : [Tool -> StageStatus],
                   cached : BOOLEAN]
  <2>1. CASE answer' = NoAnswer
    BY <2>1, NothingKnown
  <2>2. CASE /\ runManifest # NoFile
             /\ answer' = [status |-> "success", stages |-> runManifest.stages, cached |-> TRUE]
    <3>1. runManifest.stages \in [Tool -> StageStatus]
      BY <2>2 DEF IInv, TypeOK, RunManifest
    <3> QED
      BY <2>2, <3>1 DEF RunStatus
  <2> QED
    BY <1>2, <2>1, <2>2
<1>4. pc' \in Active \cup Ended
  BY <1>2 DEF Active, Ended
<1>5. TypeOK'
  <2>1. run' \in 0 .. MaxRuns
    BY <1>1
  <2> QED
    BY <1>1, <1>3, <1>4, <2>1, NothingKnown, FirstValues DEF IInv, TypeOK
<1>6. WritesKnown' /\ FirstRecord'
  BY <1>1, <1>2, NothingKnown DEF WritesKnown, FirstRecord, Body, Active
<1>7. FailureRemembered' /\ CancelledIsFinal' /\ RunningIsNow'
  BY <1>1, <1>2, NothingKnown DEF FailureRemembered, CancelledIsFinal, RunningIsNow, Body
<1>8. ReportSoFar' /\ AnswerEarned' /\ AnswerCached'
  BY <1>1, <1>2, NothingKnown DEF ReportSoFar, AnswerEarned, AnswerCached, Publishing
<1>9. RecordsKept'
  BY <1>1, NothingKnown DEF IInv, RecordsKept, TypeOK
<1>10. OnDisk'
  BY <1>1, DiskUnchanged DEF IInv
<1> QED
  BY <1>5, <1>6, <1>7, <1>8, <1>9, <1>10 DEF IInv

LEMMA StutterStep == ASSUME IInv, UNCHANGED vars PROVE IInv'
<1> USE DEF vars, process
<1>1. TypeOK' /\ WritesKnown' /\ FirstRecord' /\ RecordsKept'
  BY DEF IInv, TypeOK, WritesKnown, FirstRecord, RecordsKept, Mine
<1>2. FailureRemembered' /\ CancelledIsFinal' /\ RunningIsNow'
  BY DEF IInv, FailureRemembered, CancelledIsFinal, RunningIsNow, Now
<1>3. ReportSoFar' /\ AnswerEarned' /\ AnswerCached'
  BY DEF IInv, ReportSoFar, AnswerEarned, AnswerCached, Whole, Published, Clean
<1>4. OnDisk'
  BY DiskUnchanged DEF IInv
<1> QED
  BY <1>1, <1>2, <1>3, <1>4 DEF IInv

-----------------------------------------------------------------------------
(* Every step of an invocation brings its end closer: what RunEnds rests   *)
(* on besides fairness.                                                    *)

\* How many more places an invocation can come through before it ends, if
\* nothing fails outside the body from here on.
Ahead ==
  CASE pc = "stage" -> 3 * (20 - step) + 15
    [] pc = "inside" -> 3 * (20 - step) + 14
    [] pc = "check" -> 3 * (20 - step) + 13
    [] pc \in {"finishing", "failing"} -> 10
    [] pc = "rendering" -> 9
    [] pc = "publish_json" -> 8
    [] pc = "publish_markdown" -> 7
    [] pc = "publish_manifest" -> 6
    [] pc = "concluding" -> IF writing.inner THEN 5 ELSE 3
    [] pc = "unpublished" -> 4
    [] pc = "returned" -> 1
    [] OTHER -> 0

\* The files left to write, at one place.
Pending ==
  IF writing.left = "both" THEN 2 ELSE IF writing.left = "manifest" THEN 1 ELSE 0

\* The handler is entered once, and no way back leads out of it.
Spared == IF handling THEN 0 ELSE 250

StepsLeft == 3 * Ahead + Pending + Spared

Bounded == Ahead \in 0 .. 72 /\ Pending \in 0 .. 2 /\ StepsLeft \in 0 .. 468

\* From the first stage there are at most 72 places, and a handler on top.
LEMMA AheadBounded == TypeOK => Bounded
<1> SUFFICES ASSUME TypeOK PROVE Bounded
  OBVIOUS
<1>1. step \in 1 .. 20 /\ handling \in BOOLEAN
  BY OrderFacts DEF TypeOK
<1>2. Ahead \in 0 .. 72
  BY <1>1 DEF Ahead
<1>3. Pending \in 0 .. 2
  BY DEF Pending
<1> QED
  BY <1>1, <1>2, <1>3 DEF StepsLeft, Spared, Bounded

LEMMA BoundedNext == TypeOK' => Bounded'
  BY AheadBounded, PTL

\* A step goes on to a later place, or writes a file, or enters the handler.
GoesOn ==
  \/ handling' = handling /\ Ahead' < Ahead
  \/ handling' = handling /\ Ahead' <= Ahead /\ Pending' < Pending
  \/ ~ handling /\ handling'

\* A place counts for more than the files, the handler for more than any place.
LEMMA Weighed ==
  ASSUME NEW a \in 0 .. 72, NEW b \in 0 .. 72, NEW p \in 0 .. 2, NEW q \in 0 .. 2,
         NEW s \in {0, 250}, NEW t \in {0, 250},
         \/ t = s /\ (b < a \/ (b <= a /\ q < p))
         \/ s = 250 /\ t = 0
  PROVE  3 * b + q + t < 3 * a + p + s
OBVIOUS

\* Each of the three ways to go on leaves fewer steps.
LEMMA GoingOn ==
  ASSUME TypeOK, TypeOK', GoesOn
  PROVE  StepsLeft' < StepsLeft
<1>1. PICK a, b, p, q, s, t :
        /\ a = Ahead /\ b = Ahead' /\ p = Pending /\ q = Pending' /\ s = Spared /\ t = Spared'
  OBVIOUS
<1>2. /\ a \in 0 .. 72 /\ b \in 0 .. 72 /\ p \in 0 .. 2 /\ q \in 0 .. 2
      /\ s \in {0, 250} /\ t \in {0, 250}
  BY <1>1, AheadBounded, BoundedNext DEF Bounded, Spared
<1>3. StepsLeft = 3 * a + p + s /\ StepsLeft' = 3 * b + q + t
  BY <1>1 DEF StepsLeft
<1>4. \/ t = s /\ (b < a \/ (b <= a /\ q < p))
      \/ s = 250 /\ t = 0
  <2>1. CASE handling' = handling
    <3>1. b < a \/ (b <= a /\ q < p)
      BY <1>1, <2>1, Zenon DEF GoesOn
    <3>2. t = s
      BY <1>1, <2>1 DEF Spared
    <3> QED
      BY <3>1, <3>2
  <2>2. CASE ~ handling /\ handling'
    BY <1>1, <2>2 DEF Spared
  <2> QED
    BY <2>1, <2>2, Zenon DEF GoesOn
<1> QED
  BY <1>2, <1>3, <1>4, Weighed

\* The stages are passed one way: entered, left, checked, and then the next.
LEMMA BodyGoesOn ==
  ASSUME IInv, TypeOK',
         EnterStage \/ LeaveStage \/ RecordStage \/ NothingExpanded \/ NoAttempts
           \/ CheckStop \/ FinishWithoutReport \/ BodyDone
  PROVE  GoesOn
<1>1. step \in 1 .. 20 /\ step' \in 1 .. 20
  BY OrderFacts DEF IInv, TypeOK
<1>2. CASE EnterStage
  <2>1. pc = "stage" /\ pc' = "inside" /\ UNCHANGED <<step, handling>>
    BY <1>2 DEF EnterStage, At, SetStage
  <2> QED
    BY <1>1, <2>1 DEF GoesOn, Ahead
<1>3. CASE LeaveStage
  <2>1. /\ pc = "inside" /\ handling' = handling
        /\ \/ pc' = "check" /\ step' = step
           \/ pc' = "stage" /\ step' = step + 1
    BY <1>3 DEF LeaveStage, At, SetStage
  <2> QED
    BY <1>1, <2>1 DEF GoesOn, Ahead
<1>4. CASE RecordStage
  <2>1. /\ pc = "stage" /\ handling' = handling
        /\ \/ pc' = "check" /\ step' = step
           \/ pc' = "stage" /\ step' \in {step + 1, step + 2}
    BY <1>4 DEF RecordStage, At, SetStage
  <2> QED
    BY <1>1, <2>1 DEF GoesOn, Ahead
<1>5. CASE NothingExpanded
  <2>1. pc = "stage" /\ step' = step + 1 /\ UNCHANGED <<pc, handling>>
    BY <1>5 DEF NothingExpanded, At, Continue
  <2> QED
    BY <1>1, <2>1 DEF GoesOn, Ahead
<1>6. CASE NoAttempts
  <2>1. pc = "stage" /\ pc' = "rendering" /\ handling' = handling
    BY <1>6 DEF NoAttempts, At, SetStage
  <2> QED
    BY <1>1, <2>1 DEF GoesOn, Ahead
<1>7. CASE CheckStop
  <2>1. /\ pc = "check" /\ handling' = handling
        /\ pc' = "finishing" \/ (pc' = "stage" /\ step' = step + 1)
    BY <1>7 DEF CheckStop, At, SetStage, Continue
  <2> QED
    BY <1>1, <2>1 DEF GoesOn, Ahead
<1>8. CASE FinishWithoutReport
  <2>1. pc = "finishing" /\ pc' = "returned" /\ handling' = handling
    BY <1>8 DEF FinishWithoutReport, At
  <2> QED
    BY <1>1, <2>1 DEF GoesOn, Ahead
<1>9. CASE BodyDone
  <2>1. pc = "stage" /\ pc' = "rendering" /\ handling' = handling
    BY <1>9 DEF BodyDone, At
  <2> QED
    BY <1>1, <2>1 DEF GoesOn, Ahead
<1> QED
  BY <1>2, <1>3, <1>4, <1>5, <1>6, <1>7, <1>8, <1>9

\* The report's places too, an unpublished report included.
LEMMA ReportGoesOn ==
  ASSUME IInv, RecordFailure \/ BuildReport \/ PublishJson \/ PublishMarkdown \/ PublishManifest
                 \/ ReportRaises \/ RecordNoReport \/ Conclude
  PROVE  GoesOn
<1>1. CASE RecordFailure
  <2>1. pc = "failing" /\ pc' = "rendering" /\ handling' = handling
    BY <1>1 DEF RecordFailure, At, SetStage
  <2> QED
    BY <2>1 DEF GoesOn, Ahead
<1>2. CASE BuildReport
  <2>1. pc = "rendering" /\ pc' = "publish_json" /\ handling' = handling
    BY <1>2 DEF BuildReport, At
  <2> QED
    BY <2>1 DEF GoesOn, Ahead
<1>3. CASE PublishJson
  <2>1. pc = "publish_json" /\ pc' = "publish_markdown" /\ handling' = handling
    BY <1>3 DEF PublishJson, Publish, At
  <2> QED
    BY <2>1 DEF GoesOn, Ahead
<1>4. CASE PublishMarkdown
  <2>1. pc = "publish_markdown" /\ pc' = "publish_manifest" /\ handling' = handling
    BY <1>4 DEF PublishMarkdown, Publish, At
  <2> QED
    BY <2>1 DEF GoesOn, Ahead
<1>5. CASE PublishManifest
  <2>1. /\ pc = "publish_manifest" /\ pc' = "concluding" /\ handling' = handling
        /\ writing'.inner
    BY <1>5 DEF PublishManifest, Publish, At, SetStage
  <2> QED
    BY <2>1 DEF GoesOn, Ahead
<1>6. CASE ReportRaises
  <2>1. /\ pc \in {"rendering", "publish_json", "publish_markdown", "publish_manifest"}
        /\ pc' = "unpublished" /\ handling' = handling
    BY <1>6 DEF ReportRaises, At
  <2> QED
    BY <2>1 DEF GoesOn, Ahead
<1>7. CASE RecordNoReport
  <2>1. /\ pc = "unpublished" /\ pc' = "concluding" /\ handling' = handling
        /\ ~ writing'.inner
    BY <1>7 DEF RecordNoReport, At, SetStage
  <2> QED
    BY <2>1 DEF GoesOn, Ahead
<1>8. CASE Conclude
  <2>1. pc = "concluding" /\ pc' = "returned" /\ handling' = handling
    BY <1>8 DEF Conclude, At
  <2> QED
    BY <2>1 DEF GoesOn, Ahead
<1> QED
  BY <1>1, <1>2, <1>3, <1>4, <1>5, <1>6, <1>7, <1>8

\* A write that fails leads out of the report, into the handler, or out of it.
LEMMA WritingGoesOn ==
  ASSUME IInv, TypeOK', WriteState \/ WriteManifest \/ WriteFails \/ StageRaises
  PROVE  GoesOn
<1>1. step \in 1 .. 20 /\ handling \in BOOLEAN /\ writing.inner \in BOOLEAN
  BY OrderFacts DEF IInv, TypeOK, Writing
<1>2. Ahead \in 0 .. 72 /\ Ahead' \in 0 .. 72
  BY AheadBounded, BoundedNext DEF Bounded, IInv
<1>3. CASE WriteState
  <2>1. /\ UNCHANGED <<pc, step, handling>> /\ writing'.inner = writing.inner
        /\ writing.left = "both" /\ writing'.left = "manifest"
    BY <1>3 DEF WriteState, IInv, TypeOK, Writing
  <2>2. Ahead' = Ahead /\ Pending = 2 /\ Pending' = 1
    BY <2>1 DEF Ahead, Pending
  <2> QED
    BY <1>2, <2>1, <2>2 DEF GoesOn
<1>4. CASE WriteManifest
  <2>1. /\ UNCHANGED <<pc, step, handling>> /\ writing'.inner = FALSE
        /\ writing.left = "manifest" /\ writing'.left = "none"
    BY <1>4 DEF WriteManifest, Quiet
  <2>2. Ahead' <= Ahead
    BY <1>1, <2>1 DEF Ahead
  <2>3. Pending = 1 /\ Pending' = 0
    BY <2>1 DEF Pending
  <2> QED
    BY <2>1, <2>2, <2>3 DEF GoesOn
<1>5. CASE WriteFails /\ writing.inner
  <2>1. pc = "concluding" /\ pc' = "unpublished" /\ handling' = handling
    BY <1>5 DEF WriteFails, IInv, WritesKnown
  <2> QED
    BY <1>5, <2>1 DEF GoesOn, Ahead
<1>6. CASE WriteFails /\ ~ writing.inner
  <2>1. /\ writing.left \in {"both", "manifest"} /\ writing'.left = "none"
        /\ pc' = RaiseTo /\ handling' = TRUE
    BY <1>6 DEF WriteFails, Quiet, IInv, TypeOK, Writing
  <2>2. CASE handling
    <3>1. Ahead' = 0
      BY <2>1, <2>2 DEF RaiseTo, Ahead
    <3>2. Pending \in {1, 2} /\ Pending' = 0
      BY <2>1 DEF Pending
    <3> QED
      BY <1>2, <2>1, <2>2, <3>1, <3>2 DEF GoesOn
  <2>3. CASE ~ handling
    BY <2>1, <2>3 DEF GoesOn
  <2> QED
    BY <2>2, <2>3
<1>7. CASE StageRaises
  <2>1. pc \in Body /\ handling'
    BY <1>7 DEF StageRaises, Raise, At, Body
  <2> QED
    BY <2>1 DEF IInv, FailureRemembered, GoesOn
<1> QED
  BY <1>1, <1>3, <1>4, <1>5, <1>6, <1>7

-----------------------------------------------------------------------------
(* The theorems                                                            *)

\* What an invocation has recorded, written and published at each point.
THEOREM InvariantHolds == Spec => []IInv
<1>1. IInv /\ [Next]_vars => IInv'
  <2> SUFFICES ASSUME IInv, [Next]_vars PROVE IInv'
    OBVIOUS
  <2>1. CASE WriteState \/ WriteManifest \/ WriteFails
    BY <2>1, WriteStateStep, WriteManifestStep, WriteFailsStep
  <2>2. CASE EnterStage \/ LeaveStage \/ StageRaises \/ RecordStage \/ NothingExpanded
    BY <2>2, EnterStageStep, LeaveStageStep, StageRaisesStep, RecordStageStep,
       NothingExpandedStep
  <2>3. CASE NoAttempts \/ CheckStop \/ FinishWithoutReport \/ BodyDone \/ RecordFailure
    BY <2>3, NoAttemptsStep, CheckStopStep, FinishWithoutReportStep, BodyDoneStep,
       RecordFailureStep
  <2>4. CASE BuildReport \/ PublishJson \/ PublishMarkdown \/ PublishManifest
    BY <2>4, BuildReportStep, PublishBodyStep, PublishManifestStep
  <2>5. CASE ReportRaises \/ RecordNoReport \/ Conclude
    BY <2>5, ReportRaisesStep, RecordNoReportStep, ConcludeStep
  <2>6. CASE Die \/ \E c \in Config : Invoke(c)
    BY <2>6, DieStep, InvokeStep
  <2>7. CASE UNCHANGED vars
    BY <2>7, StutterStep
  <2> QED
    BY <2>1, <2>2, <2>3, <2>4, <2>5, <2>6, <2>7 DEF Next, Work
<1> QED
  BY <1>1, InvariantInit, PTL DEF Spec

\* The variables and the three kinds of file keep their types.
THEOREM TypeCorrect == Spec => []TypeOK
<1>1. IInv => TypeOK
  BY DEF IInv
<1> QED
  BY <1>1, InvariantHolds, PTL

\* A run manifest that says "success" is backed by its stages and by a whole
\* report of the same run, after any crashes, failed writes and repetitions.
THEOREM SuccessAlwaysBacked == Spec => []SuccessBacked
<1>1. IInv => SuccessBacked
  BY DEF IInv, OnDisk
<1> QED
  BY <1>1, InvariantHolds, PTL

\* No file of a run directory names what was not written before it.
THEOREM WritesInOrder == Spec => []WriteOrder
<1>1. IInv => WriteOrder
  BY DEF IInv, OnDisk
<1> QED
  BY <1>1, InvariantHolds, PTL

\* The caller is told what is on disk, and that something failed when it did.
THEOREM AnswersAreTrue == Spec => []AnswerTrue
<1>1. IInv => AnswerTrue
  <2> SUFFICES ASSUME IInv, Returned PROVE AnswerTrue
    BY DEF AnswerTrue, AnswerOnDisk, FailureReported
  <2>1. pc = "returned" /\ writing = Quiet
    BY DEF Returned, At
  <2>2. CASE answer.cached
    <3>1. /\ runManifest # NoFile /\ runManifest.status = answer.status
          /\ runManifest.stages = answer.stages /\ answer.status = "success"
      BY <2>1, <2>2 DEF IInv, AnswerCached
    <3>2. \A t \in Tool : answer.stages[t] # "running"
      BY <3>1 DEF IInv, OnDisk, SuccessBacked
    <3> QED
      BY <2>2, <3>1, <3>2 DEF AnswerTrue, AnswerOnDisk, FailureReported
  <2>3. CASE ~answer.cached
    <3>1. /\ runManifest.status = answer.status /\ runManifest.stages = answer.stages
          /\ stateFile = [by |-> run, stages |-> answer.stages]
          /\ \A t \in Tool : answer.stages[t] # "running"
      BY <2>1, <2>3 DEF IInv, AnswerEarned
    <3>2. raisedIn # "none" => answer.status = "failed"
      BY <2>1, <2>3 DEF IInv, AnswerEarned
    <3>3. (\E t \in Tool : records[t] \in {"failed", "partial"}) => answer.status # "success"
      BY <2>1, <2>3 DEF IInv, AnswerEarned, Clean
    <3> QED
      BY <3>1, <3>2, <3>3 DEF AnswerTrue, AnswerOnDisk, FailureReported
  <2> QED
    BY <2>2, <2>3
<1> QED
  BY <1>1, InvariantHolds, PTL

\* No invocation goes round in circles, whatever raises and whichever writes
\* fail on its way: each of its steps leaves fewer to come, of never more than
\* 468. Besides fairness, this is what RunEnds rests on.
THEOREM EveryStepLeavesFewer ==
  Spec => [][Work => StepsLeft \in 0 .. 468 /\ StepsLeft' < StepsLeft]_vars
<1>1. ASSUME IInv, IInv', Work PROVE StepsLeft \in 0 .. 468 /\ StepsLeft' < StepsLeft
  <2>1. GoesOn
    BY <1>1, BodyGoesOn, ReportGoesOn, WritingGoesOn DEF Work, IInv
  <2> QED
    BY <1>1, <2>1, AheadBounded, GoingOn DEF IInv, Bounded
<1> QED
  BY <1>1, InvariantHolds, PTL
=============================================================================
