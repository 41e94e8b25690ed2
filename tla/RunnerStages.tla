---------------------------- MODULE RunnerStages ----------------------------
(***************************************************************************)
(* run_analysis (harness/runner.py): one run directory, used by successive *)
(* invocations.  An invocation drives the stages T01 to T24/T25, records   *)
(* each in a StageRunRecord, and after every record rewrites               *)
(* app/analysis_state.json and then app/run_manifest.json.  It ends by     *)
(* rendering the report (T17), whose three files are renamed into report/  *)
(* one at a time, and by writing the final status.  An exception anywhere  *)
(* in the body enters one handler, which records a failure and renders a   *)
(* report of what there is; an exception in the handler escapes.           *)
(*                                                                         *)
(* _set_stage changes runtime.records and state.stage_statuses alike, so   *)
(* both are the variable records.  What the stages compute is left out:    *)
(* a stage is the status it reports, or the exception it raises.           *)
(***************************************************************************)
EXTENDS Naturals, Sequences

CONSTANTS
  Config,    \* the ApplicationRunConfigs a caller may pass: the inputs that are
             \* fingerprinted, those that are not (masking_key, an inline
             \* registry, ...), and whether run_dir is what resolve() returns
  MaxRuns,   \* bound: invocations on the run directory
  MaxSlips,  \* bound: results other than a stage's best one, per invocation
  Faults,    \* what may go wrong: "raise" (a stage), "write" (a file), "kill"
  NoFile     \* a file that does not exist

\* The stages in the order in which the body records them.
Order ==
  << "T01", "T02", "T03", "T04", "T08_CATALOG", "T05", "T06", "T07", "T08",
     "T09", "T10", "T11", "T12", "T13", "T14", "T15", "T16", "T24/T25",
     "T12_FINAL" >>

Stage == {Order[k] : k \in DOMAIN Order}
Tool == Stage \cup {"T17", "RUNNER", "runner"}

\* Run by _run_stage, which records "running" before it calls the stage.
Tracked == {"T01", "T02", "T03", "T04", "T08_CATALOG"}

\* The body works between the previous record and that of one of these.
WorkBefore == {"T04", "T05", "T06", "T11", "T13", "T14", "T15", "T24/T25", "T12_FINAL"}

\* The body works after the record and before it asks whether to stop.
WorkAfter == {"T02", "T03", "T04"}

Stoppable == {"T01", "T02", "T03", "T04", "T05", "T10"}

StageStatus == {"absent", "running", "success", "partial", "failed", "skipped", "cancelled"}
RunStatus == {"success", "partial", "failed", "cancelled"}
ReportStatus == {"success", "partial", "failed"}
Scenario == {"none", "given"}

ASSUME RunnerAssumption ==
  /\ MaxRuns \in Nat /\ MaxSlips \in Nat
  /\ Faults \subseteq {"raise", "write", "kill"}

VARIABLES
  run,          \* the number of the current invocation, 0 before the first
  cfg,          \* its configuration
  pc,           \* where it is
  step,         \* position in Order of the stage being worked on
  records,      \* Tool -> StageStatus
  attempts,     \* does state.attempts hold any attempt?
  hint,         \* the status_hint of _render_final
  handling,     \* inside "except Exception"?
  rendered,     \* the status render_report returned, "none" while it has not
  writing,      \* the call of _write_runtime_files in progress
  answer,       \* the result the caller got
  slips,        \* results other than the best so far
  raisedIn,     \* history: the stage whose work raised, "none" if none did
  stateFile,    \* app/analysis_state.json
  runManifest,  \* app/run_manifest.json
  report        \* report/: report.json, report.md, report_manifest.json

process == <<run, cfg, pc, step, records, attempts, hint, handling, rendered,
             writing, answer, slips, raisedIn>>
vars == <<process, stateFile, runManifest, report>>

Active == {"stage", "inside", "check", "finishing", "failing", "rendering",
           "publish_json", "publish_markdown", "publish_manifest",
           "unpublished", "concluding"}
Ended == {"returned", "escaped", "dead"}

\* The files left to write, what the manifest will say, and whether the call
\* is made inside the try that surrounds render_report.
Quiet == [left |-> "none", status |-> "partial", report |-> FALSE, inner |-> FALSE]
Writing ==
  [left : {"none", "both", "manifest"}, status : RunStatus, report : BOOLEAN, inner : BOOLEAN]

NoRecords == [t \in Tool |-> "absent"]
NoAnswer == [status |-> "none", stages |-> NoRecords, cached |-> FALSE]

ReportFile == [by : 1..MaxRuns, status : ReportStatus]
RunManifest ==
  [by : 1..MaxRuns, config : Config, status : RunStatus,
   stages : [Tool -> StageStatus], report : BOOLEAN]
StateFile == [by : 1..MaxRuns, stages : [Tool -> StageStatus]]

ASSUME NoFileAssumption == NoFile \notin ReportFile \cup RunManifest \cup StateFile

TypeOK ==
  /\ run \in 0..MaxRuns
  /\ cfg \in Config
  /\ pc \in Active \cup Ended
  /\ step \in 1..(Len(Order) + 1)
  /\ records \in [Tool -> StageStatus]
  /\ attempts \in BOOLEAN
  /\ hint \in {"success", "partial", "failed"}
  /\ handling \in BOOLEAN
  /\ rendered \in ReportStatus \cup {"none"}
  /\ writing \in Writing
  /\ answer \in [status : RunStatus \cup {"none"},
                 stages : [Tool -> StageStatus], cached : BOOLEAN]
  /\ slips \in 0..MaxSlips
  /\ raisedIn \in Stage \cup {"none", "T17"}
  /\ stateFile = NoFile \/ stateFile \in StateFile
  /\ runManifest = NoFile \/ runManifest \in RunManifest
  /\ report \in [json : ReportFile \cup {NoFile}, markdown : ReportFile \cup {NoFile},
                 manifest : ReportFile \cup {NoFile}]

Init ==
  /\ run = 0
  /\ cfg \in Config
  /\ pc = "dead"
  /\ step = 1
  /\ records = NoRecords
  /\ attempts = FALSE
  /\ hint = "success"
  /\ handling = FALSE
  /\ rendered = "none"
  /\ writing = Quiet
  /\ answer = NoAnswer
  /\ slips = 0
  /\ raisedIn = "none"
  /\ stateFile = NoFile
  /\ runManifest = NoFile
  /\ report = [json |-> NoFile, markdown |-> NoFile, manifest |-> NoFile]

-----------------------------------------------------------------------------
(* What the stages report, and what the runner makes of it.                *)

\* The statuses a stage that returns can report.  T16 reports
\* _aggregate_result_status of its diagnoses, the detectors that of their
\* results; T24/T25 settle as completed or empty, which aggregate to success.
Outcomes(t) ==
  CASE t \in {"T01", "T02", "T03", "T04", "T06", "T07", "T08", "T09"} -> {"success", "partial"}
    [] t = "T13" -> IF cfg.scenario = "given" THEN {"parsed", "partial", "empty"}
                                              ELSE {"skipped"}
    [] t = "T14" -> IF cfg.scenario = "given"
                      THEN {"verified", "failed", "inconclusive", "not_applicable"}
                      ELSE {"skipped"}
    [] t = "T16" -> {"success", "failed", "skipped"}
    [] t = "T24/T25" -> IF records["T16"] = "skipped" THEN {"skipped"}
                                                      ELSE {"skipped", "success"}
    [] OTHER -> {"success"}

\* The outcomes of a stage that had nothing to qualify.
Best == {"success", "parsed", "verified", "skipped"}

\* A bug: the status goes into the record as the stage spelt it.
NormalizeNot(status) == status

\* _normalize_stage_status
NormalizeStageStatus(status) ==
  CASE status \in {"success", "verified", "completed"} -> "success"
    [] status \in {"disabled", "skipped", "not_applicable", "not_run"} -> "skipped"
    [] status = "failed" -> "failed"
    [] status \in {"running", "cancelled"} -> status
    [] OTHER -> "partial"

\* _derive_report_status: the stages whose failure leaves no usable report.
\* The inferred statuses of _derive_stage_statuses only add "not_run", or
\* stages that are unrecorded while a publication warning is pending.
DeriveReportStatus(degraded) ==
  IF \E t \in {"T01", "T02", "T03", "T04", "T17"} : records[t] = "failed"
    THEN "failed"
  ELSE IF \/ degraded \/ handling \/ ~attempts
          \/ \E t \in Tool : records[t] \in {"failed", "partial"}
    THEN "partial"
  ELSE "success"

\* A bug: only the stages are consulted.
FinalStatusOfStages ==
  IF \E t \in Tool : records[t] = "failed" THEN "failed" ELSE "success"

\* The status _render_final computes once T17 is recorded.
FinalStatus ==
  IF hint = "failed" \/ records["T17"] = "failed" \/ rendered = "failed"
    THEN "failed"
  ELSE IF rendered = "partial" \/ \E t \in Tool : records[t] \in {"failed", "partial"}
    THEN "partial"
  ELSE "success"

-----------------------------------------------------------------------------
(* Recording, writing, and the way an exception takes.                     *)

\* _set_stage(tool, status): the record, then both files with run status
\* "partial"; the process goes on at pc = next once they are written.
SetStage(tool, status, next, inner) ==
  /\ records' = [records EXCEPT ![tool] = NormalizeStageStatus(status)]
  /\ writing' = [left |-> "both", status |-> "partial", report |-> FALSE, inner |-> inner]
  /\ pc' = next

\* Work goes on only when no write is in progress.
At(where) == pc = where /\ writing = Quiet

\* A bug: the handler is entered again.
RaiseAgain == "failing"

\* An exception in the body enters the handler; one in the handler escapes.
RaiseTo == IF handling THEN "escaped" ELSE "failing"

\* The body, or a stage it called, raises.
Raise(t) ==
  /\ "raise" \in Faults
  /\ raisedIn' = t
  /\ handling' = TRUE
  /\ hint' = "failed"
  /\ pc' = "failing"

\* A process that is gone keeps nothing.
Forget ==
  /\ step' = 1 /\ records' = NoRecords /\ attempts' = FALSE /\ hint' = "success"
  /\ handling' = FALSE /\ rendered' = "none" /\ writing' = Quiet
  /\ answer' = NoAnswer /\ slips' = 0 /\ raisedIn' = "none"

\* _atomic_write_json of analysis_state.json, the first of the two files.
WriteState ==
  /\ writing.left = "both"
  /\ stateFile' = [by |-> run, stages |-> records]
  /\ writing' = [writing EXCEPT !.left = "manifest"]
  /\ UNCHANGED <<run, cfg, pc, step, records, attempts, hint, handling, rendered,
                 answer, slips, raisedIn, runManifest, report>>

\* _atomic_write_json of run_manifest.json.  The path of the state file is
\* made relative to config.run_dir, which must be the resolved path.
WriteManifest ==
  /\ writing.left = "manifest"
  /\ cfg.resolved
  /\ runManifest' = [by |-> run, config |-> cfg, status |-> writing.status,
                     stages |-> records, report |-> writing.report]
  /\ writing' = Quiet
  /\ UNCHANGED <<run, cfg, pc, step, records, attempts, hint, handling, rendered,
                 answer, slips, raisedIn, stateFile, report>>

\* Either write raises: the file it was to replace stays.
WriteFails ==
  /\ writing.left # "none"
  /\ "write" \in Faults \/ (writing.left = "manifest" /\ ~cfg.resolved)
  /\ writing' = Quiet
  /\ IF writing.inner
       THEN pc' = "unpublished" /\ UNCHANGED <<handling, hint>>
       ELSE pc' = RaiseTo /\ handling' = TRUE /\ hint' = "failed"
  /\ UNCHANGED <<run, cfg, step, records, attempts, rendered, answer, slips,
                 raisedIn, stateFile, runManifest, report>>

-----------------------------------------------------------------------------
(* The body of run_analysis.                                               *)

\* A call on the run directory.  A resumed run whose fingerprint differs is
\* refused; one that had succeeded is answered from its manifest; any other
\* starts over with no records.
Invoke(c) ==
  /\ pc \in Ended /\ writing = Quiet
  /\ run < MaxRuns
  /\ run' = run + 1
  /\ cfg' = c
  /\ step' = 1 /\ records' = NoRecords /\ attempts' = FALSE /\ hint' = "success"
  /\ handling' = FALSE /\ rendered' = "none" /\ writing' = Quiet
  /\ slips' = 0 /\ raisedIn' = "none"
  /\ IF c.resume /\ runManifest # NoFile
       THEN \/ /\ runManifest.config.fingerprinted # c.fingerprinted
               /\ pc' = "escaped" /\ answer' = NoAnswer
            \/ /\ runManifest.config.fingerprinted = c.fingerprinted
               /\ runManifest.status = "success" /\ runManifest.report
               /\ pc' = "returned"
               /\ answer' = [status |-> "success", stages |-> runManifest.stages,
                             cached |-> TRUE]
            \/ /\ runManifest.config.fingerprinted = c.fingerprinted
               /\ ~(runManifest.status = "success" /\ runManifest.report)
               /\ pc' = "stage" /\ answer' = NoAnswer
       ELSE pc' = "stage" /\ answer' = NoAnswer
  /\ UNCHANGED <<stateFile, runManifest, report>>

Continue == step' = step + 1
Now == Order[step]

\* _run_stage records "running" and calls the stage.
EnterStage ==
  /\ At("stage") /\ step \in DOMAIN Order /\ Now \in Tracked
  /\ Now = "T08_CATALOG" => attempts
  /\ SetStage(Now, "running", "inside", FALSE)
  /\ UNCHANGED <<run, cfg, step, attempts, hint, handling, rendered, answer, slips,
                 raisedIn, stateFile, runManifest, report>>

Slip(raw) ==
  /\ slips' = slips + (IF raw \in Best THEN 0 ELSE 1)
  /\ slips' <= MaxSlips

\* The stage returns and _run_stage records its status.  T04 decides whether
\* there are attempts to work on.
LeaveStage ==
  /\ At("inside")
  /\ \E raw \in Outcomes(Now) :
       /\ Slip(raw)
       /\ SetStage(Now, raw, IF Now \in Stoppable THEN "check" ELSE "stage", FALSE)
  /\ attempts' \in IF Now = "T04" THEN BOOLEAN ELSE {attempts}
  /\ step' = IF Now \in Stoppable THEN step ELSE step + 1
  /\ UNCHANGED <<run, cfg, hint, handling, rendered, answer, raisedIn, stateFile,
                 runManifest, report>>

StageRaises ==
  /\ \/ At("inside")
     \/ At("check") /\ Now \in WorkAfter
     \/ At("stage") /\ step \in DOMAIN Order /\ Now \in WorkBefore
     \/ At("stage") /\ step = Len(Order) + 1 /\ records["T12_FINAL"] = "success"
  /\ Raise(IF step \in DOMAIN Order THEN Now ELSE "T12_FINAL")
  /\ UNCHANGED <<run, cfg, step, records, attempts, rendered, writing, answer, slips,
                 stateFile, runManifest, report>>

\* A stage the body runs itself is recorded only when its work is done.
RecordStage ==
  /\ At("stage") /\ step \in DOMAIN Order /\ Now \notin Tracked
  /\ \E raw \in Outcomes(Now) :
       /\ Slip(raw)
       /\ SetStage(Now, raw, IF Now \in Stoppable THEN "check" ELSE "stage", FALSE)
       /\ step' = IF Now \in Stoppable THEN step
                  ELSE IF raw = "empty" \/ (Now = "T24/T25" /\ raw = "skipped")
                    THEN step + 2      \* no spec to validate, nothing to re-rank
                  ELSE step + 1
  /\ UNCHANGED <<run, cfg, attempts, hint, handling, rendered, answer, raisedIn,
                 stateFile, runManifest, report>>

\* No dependency candidate re-ranks a root cause: T12_FINAL is not recorded.
NothingExpanded ==
  /\ At("stage") /\ step \in DOMAIN Order /\ Now = "T12_FINAL"
  /\ Continue
  /\ UNCHANGED <<run, cfg, pc, records, attempts, hint, handling, rendered, writing,
                 answer, slips, raisedIn, stateFile, runManifest, report>>

\* T04 found no attempts: T05 is recorded as skipped and the report rendered.
NoAttempts ==
  /\ At("stage") /\ step \in DOMAIN Order /\ Now = "T08_CATALOG" /\ ~attempts
  /\ SetStage("T05", "skipped", "rendering", FALSE)
  /\ hint' = "partial"
  /\ UNCHANGED <<run, cfg, step, attempts, handling, rendered, answer, slips, raisedIn,
                 stateFile, runManifest, report>>

\* _should_stop
CheckStop ==
  /\ At("check")
  /\ IF cfg.stop = Now
       THEN SetStage("RUNNER", "cancelled", "finishing", FALSE) /\ UNCHANGED step
       ELSE pc' = "stage" /\ Continue /\ UNCHANGED <<records, writing>>
  /\ UNCHANGED <<run, cfg, attempts, hint, handling, rendered, answer, slips, raisedIn,
                 stateFile, runManifest, report>>

\* _finish_without_report
FinishWithoutReport ==
  /\ At("finishing")
  /\ writing' = [left |-> "both", status |-> "cancelled", report |-> FALSE, inner |-> FALSE]
  /\ answer' = [status |-> "cancelled", stages |-> records, cached |-> FALSE]
  /\ pc' = "returned"
  /\ UNCHANGED <<run, cfg, step, records, attempts, hint, handling, rendered, slips,
                 raisedIn, stateFile, runManifest, report>>

-----------------------------------------------------------------------------
(* _render_final and render_report.                                        *)

\* The body is through: _render_final("success").
BodyDone ==
  /\ At("stage") /\ step = Len(Order) + 1
  /\ pc' = "rendering"
  /\ hint' = "success"
  /\ UNCHANGED <<run, cfg, step, records, attempts, handling, rendered, writing, answer,
                 slips, raisedIn, stateFile, runManifest, report>>

Running == {t \in Tool : records[t] = "running"}

\* A bug: every failure is booked on "runner".
FailedToolRunner == "runner"

\* The handler fails the stage that was running, or "runner" if none was.
FailedTool == IF Running = {} THEN "runner" ELSE CHOOSE t \in Running : TRUE

RecordFailure ==
  /\ At("failing")
  /\ SetStage(FailedTool, "failed", "rendering", FALSE)
  /\ rendered' = "none"
  /\ UNCHANGED <<run, cfg, step, attempts, hint, handling, answer, slips, raisedIn,
                 stateFile, runManifest, report>>

\* The report's model is built: its status is that of the state at this point.
BuildReport ==
  /\ At("rendering")
  /\ \E degraded \in BOOLEAN :
       /\ slips' = slips + (IF degraded THEN 1 ELSE 0)
       /\ slips' <= MaxSlips
       /\ rendered' = DeriveReportStatus(degraded)
  /\ pc' = "publish_json"
  /\ UNCHANGED <<run, cfg, step, records, attempts, hint, handling, writing, answer,
                 raisedIn, stateFile, runManifest, report>>

\* publish_closed_artifacts: report.json and report.md in the order of their
\* names, then report_manifest.json, each by os.replace.
Publish(file, here, next) ==
  /\ At(here)
  /\ report' = [report EXCEPT ![file] = [by |-> run, status |-> rendered]]
  /\ pc' = next
  /\ UNCHANGED <<run, cfg, step, attempts, hint, handling, rendered, answer, slips,
                 raisedIn, stateFile, runManifest>>

PublishJson == Publish("json", "publish_json", "publish_markdown") /\ UNCHANGED <<records, writing>>

PublishMarkdown ==
  Publish("markdown", "publish_markdown", "publish_manifest") /\ UNCHANGED <<records, writing>>

\* A bug: T17 is recorded when the model is built, before anything is published.
PublishManifestLate ==
  /\ At("publish_manifest")
  /\ SetStage("T17", rendered, "concluding", TRUE)
  /\ UNCHANGED <<run, cfg, step, attempts, hint, handling, rendered, answer, slips,
                 raisedIn, stateFile, runManifest, report>>

\* With the manifest in place render_report returns, and T17 is recorded.
PublishManifest ==
  /\ Publish("manifest", "publish_manifest", "concluding")
  /\ SetStage("T17", rendered, "concluding", TRUE)

\* render_report raises: while it builds the model, or at one of the files.
ReportRaises ==
  /\ \/ At("rendering") /\ "raise" \in Faults
     \/ /\ "write" \in Faults
        /\ At("publish_json") \/ At("publish_markdown") \/ At("publish_manifest")
  /\ pc' = "unpublished"
  /\ rendered' = "none"
  /\ raisedIn' = IF raisedIn = "none" THEN "T17" ELSE raisedIn
  /\ UNCHANGED <<run, cfg, step, records, attempts, hint, handling, writing, answer,
                 slips, stateFile, runManifest, report>>

\* The inner handler: T17 is recorded as failed.
RecordNoReport ==
  /\ At("unpublished")
  /\ SetStage("T17", "failed", "concluding", FALSE)
  /\ hint' = "failed"
  /\ UNCHANGED <<run, cfg, step, attempts, handling, rendered, answer, slips, raisedIn,
                 stateFile, runManifest, report>>

\* The final status is written, with the report's path if one was published.
Conclude ==
  /\ At("concluding")
  /\ writing' = [left |-> "both", status |-> FinalStatus, report |-> rendered # "none",
                 inner |-> FALSE]
  /\ answer' = [status |-> FinalStatus, stages |-> records, cached |-> FALSE]
  /\ pc' = "returned"
  /\ UNCHANGED <<run, cfg, step, records, attempts, hint, handling, rendered, slips,
                 raisedIn, stateFile, runManifest, report>>

\* The process is killed, or leaves by an exception that is no Exception
\* (KeyboardInterrupt): no handler runs.
Die ==
  /\ "kill" \in Faults
  /\ pc \in Active \/ writing # Quiet
  /\ pc' = "dead"
  /\ Forget
  /\ UNCHANGED <<run, cfg, stateFile, runManifest, report>>

Work ==
  \/ WriteState \/ WriteManifest \/ WriteFails
  \/ EnterStage \/ LeaveStage \/ StageRaises \/ RecordStage \/ NothingExpanded
  \/ NoAttempts \/ CheckStop \/ FinishWithoutReport
  \/ BodyDone \/ RecordFailure
  \/ BuildReport \/ PublishJson \/ PublishMarkdown \/ PublishManifest
  \/ ReportRaises \/ RecordNoReport \/ Conclude

Next == Work \/ Die \/ \E c \in Config : Invoke(c)

Spec == Init /\ [][Next]_vars

\* An invocation is one thread that keeps running.
LiveSpec == Spec /\ WF_vars(Work)

-----------------------------------------------------------------------------
(* Properties.                                                             *)

\* An invocation has returned to its caller.
Returned == At("returned")

\* A run manifest that says "success" has every stage completed or skipped
\* and a whole report of the same run behind it, whatever an earlier or a
\* killed invocation left in the directory: resume answers from it unseen.
SuccessBacked ==
  runManifest # NoFile /\ runManifest.status = "success" =>
    /\ \A t \in Tool : runManifest.stages[t] \in {"success", "skipped", "absent"}
    /\ runManifest.stages["T17"] = "success"
    /\ \A file \in {"json", "markdown", "manifest"} :
         report[file] = [by |-> runManifest.by, status |-> "success"]

\* The run manifest names the report only after all of its files exist, and
\* they are those of one rendering by the same run.
ReportBeforeManifest ==
  runManifest # NoFile /\ runManifest.report =>
    /\ report.manifest # NoFile
    /\ report.manifest.by = runManifest.by
    /\ report.json = report.manifest
    /\ report.markdown = report.manifest

\* The run manifest is the last thing written: it never records a stage of its
\* run that the state file of that run does not have.
StateFileFirst ==
  runManifest # NoFile =>
    /\ stateFile # NoFile
    /\ stateFile.by >= runManifest.by
    /\ stateFile.by = runManifest.by =>
         \A t \in Tool : stateFile.stages[t] = "absent" => runManifest.stages[t] = "absent"

\* What the caller is told is what the run manifest, and for a run that was
\* not answered from it the state file, say; and no stage is left "running".
AnswerOnDisk ==
  Returned =>
    /\ runManifest.status = answer.status
    /\ runManifest.stages = answer.stages
    /\ ~answer.cached => stateFile = [by |-> run, stages |-> answer.stages]
    /\ \A t \in Tool : answer.stages[t] # "running"

\* An exception is never swallowed: a run in which anything raised and that
\* returns has failed, as has one with a failed stage it could not do without.
FailureReported ==
  Returned /\ ~answer.cached =>
    /\ raisedIn # "none" => answer.status = "failed"
    /\ (\E t \in Tool : records[t] \in {"failed", "partial"}) => answer.status # "success"

\* Whoever reads the run directory after a kill finds no file that names what
\* was not written before it: the report's files (ReportBeforeManifest) and
\* the stages of the state file (StateFileFirst).
WriteOrder == ReportBeforeManifest /\ StateFileFirst

\* The caller is told the truth: what is on disk (AnswerOnDisk), and that
\* something failed when it did (FailureReported).
AnswerTrue == AnswerOnDisk /\ FailureReported

\* Every invocation ends, however often a write fails on its way out.
RunEnds == pc \in Active ~> pc \in Ended
=============================================================================
