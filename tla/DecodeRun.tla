------------------------------ MODULE DecodeRun ------------------------------
(***************************************************************************)
(* Stage T01 on one run directory.                                         *)
(*                                                                         *)
(* A decode invocation is a pair of processes: the Python wrapper          *)
(* run_decode (harness/decoder/runner.py) and the Go child it starts       *)
(* (tools/decoder).  The child runs one goroutine per requested protocol,  *)
(* each renaming finished files from staging/ into decoder/, and renames   *)
(* decoder_manifest.json last.  The wrapper owns the wall-clock timeout,   *)
(* never believes the exit code alone, and validates the manifest and      *)
(* every file it names.  Invocations of a resumed or repeated analysis     *)
(* share the run directory, so what one leaves behind meets the next.      *)
(*                                                                         *)
(* A file of decoder/ is represented by the invocation that wrote it; its  *)
(* bytes are a function of the capture, which never changes in a run       *)
(* directory, and of that invocation's options (AC#14: identical inputs,   *)
(* identical bytes).  os.Rename and the append to the sink's published     *)
(* list are one step: nothing but the death of the process can fall        *)
(* between them, and the list dies with the process.                       *)
(***************************************************************************)
EXTENDS Naturals, FiniteSets

CONSTANTS
  Invocation,      \* decode invocations that may use the run directory
  Option,          \* request options, as far as the written bytes depend on them
  Protocol,        \* protocol decoders: http2, ngap, pfcp
  StreamProtocol,  \* the protocols decoded into per-stream documents: {http2}
  Artifact,        \* the files a decode can publish under decoder/
  Owner,           \* Artifact -> Protocol, the decoder that writes the file
  Document,        \* files published while tshark output is still being read
  StreamIndex,     \* stream_index.jsonl of the stream protocols
  Raw,             \* raw packet files, with retain_raw (no such file without it)
  Requested,       \* Option -> SUBSET Protocol
  IndexOption,     \* options that request the packet-access index
  Faults,          \* the faults of the environment that a model lets happen
  NoFile, NoManifest

FaultKind ==
  { "panic",          \* a protocol decoder panics
    "raw_sink",       \* the sink of a raw packet file cannot be opened
    "publish",        \* a rename into decoder/ fails (disk full, permissions)
    "truncate",       \* tshark's output ends inside a record
    "crash",          \* the Go process is killed from outside (OOM, kill -9)
    "slow_exit",      \* a live Go child can outlast the grace period
    "wrapper_death" } \* the Python wrapper dies, Go runs on in its own session

ManifestStatus == {"success", "partial", "failed"}

WorkerDone == {"success", "partial", "absent", "failed", "not_requested"}

\* decoder_manifest.json: who wrote it, the files it describes, the raw files
\* its RAW_SINK_OPEN warnings name, the status of each protocol and the overall
\* status.
Manifest ==
  [by : Invocation, files : SUBSET Artifact, unretained : SUBSET Raw,
   protocols : [Protocol -> WorkerDone], status : ManifestStatus]

ASSUME DecodeAssumption ==
  /\ Owner \in [Artifact -> Protocol]
  /\ StreamProtocol \subseteq Protocol
  /\ Document \subseteq Artifact
  /\ StreamIndex \subseteq Artifact
  /\ Raw \subseteq Artifact
  /\ Document \cap StreamIndex = {}
  /\ Raw \cap (Document \cup StreamIndex) = {}
  /\ \A a \in Document \cup StreamIndex : Owner[a] \in StreamProtocol
  /\ Requested \in [Option -> SUBSET Protocol]
  /\ IndexOption \subseteq Option
  /\ Faults \subseteq FaultKind
  /\ NoFile \notin Invocation
  /\ NoManifest \notin Manifest

VARIABLES
  source,    \* source/capture.pcap: absent, partly copied, whole
  disk,      \* decoder/: which invocation's decoder wrote each file
  manifest,  \* decoder/decoder_manifest.json
  py,        \* where the wrapper of each invocation is
  got,       \* the manifest each wrapper has read
  opt,       \* the options of each invocation
  go,        \* where the main goroutine of each Go child is
  ctx,       \* has the child's context been cancelled by SIGTERM?
  worker,    \* where each protocol goroutine is
  sink,      \* ArtifactSink.published of each child
  missed,    \* files whose publication failed
  unopened,  \* raw files whose sink could not be opened
  listed     \* files described by the ProtocolRuns of each child

goVars == <<go, ctx, worker, sink, missed, unopened, listed>>
pyVars == <<py, got, opt>>
vars == <<source, disk, manifest, pyVars, goVars>>

Of(p) == {a \in Artifact : Owner[a] = p}

WorkerState == WorkerDone \cup {"reading", "stuck", "closing", "closing_empty"}

GoLive == {"preflight", "decoding", "indexing", "manifest", "aborting"}
GoEnded == {"exit0", "exit2", "exit4", "exit5", "exit6", "aborted", "killed"}
GoState == GoLive \cup GoEnded \cup {"none"}

Returned == {"success", "partial", "fatal", "invalid", "refused"}
Accepted == {"success", "partial"}
PyActive == {"copying", "waiting", "terminating", "validating"}
PyState == PyActive \cup Returned \cup {"idle", "dead"}

NoWorkers == [p \in Protocol |-> "not_requested"]

TypeOK ==
  /\ source \in {"absent", "torn", "whole"}
  /\ disk \in [Artifact -> Invocation \cup {NoFile}]
  /\ manifest \in Manifest \cup {NoManifest}
  /\ py \in [Invocation -> PyState]
  /\ got \in [Invocation -> Manifest \cup {NoManifest}]
  /\ opt \in [Invocation -> Option]
  /\ go \in [Invocation -> GoState]
  /\ ctx \in [Invocation -> BOOLEAN]
  /\ worker \in [Invocation -> [Protocol -> WorkerState]]
  /\ sink \in [Invocation -> SUBSET Artifact]
  /\ missed \in [Invocation -> SUBSET Artifact]
  /\ unopened \in [Invocation -> SUBSET Raw]
  /\ listed \in [Invocation -> SUBSET Artifact]

Init ==
  /\ source = "absent"
  /\ disk = [a \in Artifact |-> NoFile]
  /\ manifest = NoManifest
  /\ py = [i \in Invocation |-> "idle"]
  /\ got = [i \in Invocation |-> NoManifest]
  /\ opt \in [Invocation -> Option]
  /\ go = [i \in Invocation |-> "none"]
  /\ ctx = [i \in Invocation |-> FALSE]
  /\ worker = [i \in Invocation |-> NoWorkers]
  /\ sink = [i \in Invocation |-> {}]
  /\ missed = [i \in Invocation |-> {}]
  /\ unopened = [i \in Invocation |-> {}]
  /\ listed = [i \in Invocation |-> {}]

-----------------------------------------------------------------------------
(* The Python wrapper up to the child's start.                             *)

\* run_decode is called while no other wrapper is at work on the run directory.
Called(i) == py[i] = "idle" /\ \A j \in Invocation : py[j] \notin PyActive

\* Answered before a child is started, whatever the run directory holds: the
\* capture, the binary or the capability for the packet-access index is missing,
\* source/capture.pcap is another capture, or Popen raises.
RefuseRequest(i) ==
  /\ Called(i)
  /\ py' = [py EXCEPT ![i] = "refused"]
  /\ UNCHANGED <<source, disk, manifest, got, opt, goVars>>

StartChild(i) ==
  /\ py' = [py EXCEPT ![i] = "waiting"]
  /\ go' = [go EXCEPT ![i] = "preflight"]

\* The capture is copied unless source/ has it; half a copy does not match it.
StartWrapper(i) ==
  /\ Called(i)
  /\ \/ /\ source = "absent"
        /\ source' = "torn"
        /\ py' = [py EXCEPT ![i] = "copying"]
        /\ UNCHANGED go
     \/ /\ source = "torn"
        /\ py' = [py EXCEPT ![i] = "refused"]
        /\ UNCHANGED <<source, go>>
     \/ /\ source = "whole"
        /\ StartChild(i)
        /\ UNCHANGED source
  /\ UNCHANGED <<disk, manifest, got, opt, ctx, worker, sink, missed, unopened, listed>>

\* shutil.copy2 returns, the copy's checksum matches, Popen starts the child.
FinishCopy(i) ==
  /\ py[i] = "copying"
  /\ source' = "whole"
  /\ StartChild(i)
  /\ UNCHANGED <<disk, manifest, got, opt, ctx, worker, sink, missed, unopened, listed>>

\* The copy raises before or after its first byte, its checksum does not match,
\* or the source manifest or Popen fails behind a copy that does.
CopyFails(i) ==
  /\ py[i] = "copying"
  /\ source' \in {"absent", "torn", "whole"}
  /\ py' = [py EXCEPT ![i] = "refused"]
  /\ UNCHANGED <<disk, manifest, got, opt, goVars>>

-----------------------------------------------------------------------------
(* The Go child's main goroutine before decoding.                          *)

\* The child ends with this exit code; its memory ends with it.
Exit(i, code) ==
  /\ go' = [go EXCEPT ![i] = code]
  /\ worker' = [worker EXCEPT ![i] = NoWorkers]
  /\ sink' = [sink EXCEPT ![i] = {}]
  /\ missed' = [missed EXCEPT ![i] = {}]
  /\ unopened' = [unopened EXCEPT ![i] = {}]
  /\ listed' = [listed EXCEPT ![i] = {}]
  /\ UNCHANGED ctx

\* Fault-injection variant: only requested protocols get a result slot.
StartRequestedOnly(i) ==
  /\ go' = [go EXCEPT ![i] = "decoding"]
  /\ worker' = [worker EXCEPT ![i] = [p \in Requested[opt[i]] |-> "reading"]]
  /\ UNCHANGED <<ctx, sink, missed, unopened, listed>>

\* One goroutine per requested protocol.
StartWorkers(i) ==
  /\ go' = [go EXCEPT ![i] = "decoding"]
  /\ worker' = [worker EXCEPT ![i] =
                 [p \in Protocol |-> IF p \in Requested[opt[i]]
                                       THEN "reading" ELSE "not_requested"]]
  /\ UNCHANGED <<ctx, sink, missed, unopened, listed>>

\* Fault-injection variant: the published-manifest check is dropped.
PreflightUnguarded(i) ==
  /\ go[i] = "preflight"
  /\ StartWorkers(i)
  /\ UNCHANGED <<source, disk, manifest, pyVars>>

\* cfg.validate refuses a decoder/ that holds a manifest (exit 2); otherwise
\* the sink is created, the SIGTERM handler installed and decoding starts.
Preflight(i) ==
  /\ go[i] = "preflight"
  /\ IF manifest # NoManifest THEN Exit(i, "exit2") ELSE StartWorkers(i)
  /\ UNCHANGED <<source, disk, manifest, pyVars>>

\* tshark is missing, the capture unreadable or a directory not creatable.
PreflightFails(i) ==
  /\ go[i] = "preflight"
  /\ Exit(i, "exit6")
  /\ UNCHANGED <<source, disk, manifest, pyVars>>

-----------------------------------------------------------------------------
(* Protocol goroutines: decodeHTTP2, decodeNGAP, decodePFCP under          *)
(* safeDecode.                                                             *)

At(i, p, s) == go[i] = "decoding" /\ worker[i][p] = s

Goto(i, p, s) == worker' = [worker EXCEPT ![i][p] = s]

Handled(i) == sink[i] \cup missed[i] \cup unopened[i]

\* Nothing of p has been closed, well or badly.
Untouched(i, p) == Of(p) \cap (sink[i] \cup missed[i]) = {}

\* The sink of a raw file cannot be opened: a warning, and decoding goes on
\* without the raw packets.
RawSinkFails(i, p) ==
  /\ "raw_sink" \in Faults
  /\ At(i, p, "reading")
  /\ Untouched(i, p)
  /\ \E a \in Raw \cap Of(p) : unopened' = [unopened EXCEPT ![i] = @ \cup {a}]
  /\ UNCHANGED <<source, disk, manifest, pyVars, go, ctx, worker, sink, missed, listed>>

\* Any other sink cannot be opened or tshark does not start: failed, nothing
\* written.
StreamFails(i, p) ==
  /\ At(i, p, "reading")
  /\ Untouched(i, p)
  /\ Goto(i, p, "failed")
  /\ UNCHANGED <<source, disk, manifest, pyVars, go, ctx, sink, missed, unopened, listed>>

\* The JSON array ends (or tshark was killed between two records): the loop
\* `for dec.More()` ends.  A stream protocol has by then published every
\* document it could; without any packet there is none.
FinishReading(i, p) ==
  /\ At(i, p, "reading")
  /\ \/ /\ Document \cap Of(p) \subseteq Handled(i)
        /\ Goto(i, p, "closing")
     \/ /\ Document \cap Of(p) \cap Handled(i) = {}
        /\ Goto(i, p, "closing_empty")
  /\ UNCHANGED <<source, disk, manifest, pyVars, go, ctx, sink, missed, unopened, listed>>

\* tshark's output ends inside a record.  json.Decoder keeps returning the
\* same error and More() keeps returning true, so `continue` spins forever.
TruncatedRecord(i, p) ==
  /\ "truncate" \in Faults
  /\ At(i, p, "reading")
  /\ Goto(i, p, "stuck")
  /\ UNCHANGED <<source, disk, manifest, pyVars, go, ctx, sink, missed, unopened, listed>>

\* May the goroutine of p publish (or fail to publish) file a now?  Documents
\* go out while reading; of the rest, a stream protocol closes its index first.
MayClose(i, p, a) ==
  /\ a \in Of(p) \ Handled(i)
  /\ \/ /\ a \in Document
        /\ At(i, p, "reading")
     \/ /\ a \notin Document
        /\ At(i, p, "closing") \/ At(i, p, "closing_empty")
        /\ \/ p \notin StreamProtocol
           \/ a \in StreamIndex
           \/ StreamIndex \cap Of(p) \subseteq sink[i]

\* ArtifactSink.publish: rename into decoder/, append to published; the
\* descriptor enters the goroutine's ProtocolRun.
PublishFile(i, p, a) ==
  /\ MayClose(i, p, a)
  /\ disk' = [disk EXCEPT ![a] = i]
  /\ sink' = [sink EXCEPT ![i] = @ \cup {a}]
  /\ listed' = [listed EXCEPT ![i] = @ \cup {a}]
  /\ UNCHANGED <<source, manifest, pyVars, go, ctx, worker, missed, unopened>>

\* Close fails.  Without its index the stream decoder returns "failed" before
\* the collection descriptor exists; every other failure is a warning.
PublishFails(i, p, a) ==
  /\ "publish" \in Faults
  /\ MayClose(i, p, a)
  /\ missed' = [missed EXCEPT ![i] = @ \cup {a}]
  /\ UNCHANGED unopened
  /\ IF a \in StreamIndex
       THEN /\ Goto(i, p, "failed")
            /\ listed' = [listed EXCEPT ![i] = @ \ Of(p)]
       ELSE UNCHANGED <<worker, listed>>
  /\ UNCHANGED <<source, disk, manifest, pyVars, go, ctx, sink>>

\* The status switch at the end of each decoder, with waitErr the exit status
\* of tshark.  Only the record protocols remember that a Close failed.
FinalStatus(i, p, waitErr) ==
  IF worker[i][p] = "closing_empty" THEN "absent"
  ELSE IF p \notin StreamProtocol /\ Of(p) \cap missed[i] # {} THEN "partial"
  ELSE IF waitErr THEN "partial"
  ELSE IF /\ Document \cap Of(p) # {}
          /\ Document \cap Of(p) \subseteq missed[i] THEN "partial"
  ELSE "success"

\* The decoder returns once each of its files is closed.
ReturnRun(i, p) ==
  /\ At(i, p, "closing") \/ At(i, p, "closing_empty")
  /\ Of(p) \ Document \subseteq Handled(i)
  /\ \E waitErr \in BOOLEAN : Goto(i, p, FinalStatus(i, p, waitErr))
  /\ UNCHANGED <<source, disk, manifest, pyVars, go, ctx, sink, missed, unopened, listed>>

\* safeDecode recovers a panic and replaces the ProtocolRun: the descriptors
\* and warnings are gone, files already renamed into decoder/ are not.
Panic(i, p) ==
  /\ "panic" \in Faults
  /\ \E s \in {"reading", "closing", "closing_empty"} : At(i, p, s)
  /\ Goto(i, p, "failed")
  /\ listed' = [listed EXCEPT ![i] = @ \ Of(p)]
  /\ unopened' = [unopened EXCEPT ![i] = @ \ Of(p)]
  /\ UNCHANGED <<source, disk, manifest, pyVars, go, ctx, sink, missed>>

-----------------------------------------------------------------------------
(* The Go child's main goroutine after decoding.                           *)

Runs(i) == {p \in Protocol : worker[i][p] # "not_requested"}

AllFailed(i) == \A p \in Runs(i) : worker[i][p] = "failed"

Joined(i) ==
  /\ go[i] = "decoding"
  /\ \A p \in Protocol : worker[i][p] \in WorkerDone

MainGoto(i, s) ==
  /\ go' = [go EXCEPT ![i] = s]
  /\ UNCHANGED <<ctx, worker, sink, missed, unopened, listed>>

\* Fault-injection variant: a cancelled run returns without abortPublished.
JoinForgetsAbort(i) ==
  /\ Joined(i)
  /\ IF ctx[i] THEN Exit(i, "aborted")
     ELSE IF AllFailed(i) /\ Runs(i) # {} THEN Exit(i, "exit4")
     ELSE MainGoto(i, "indexing")
  /\ UNCHANGED <<source, disk, manifest, pyVars>>

\* Fault-injection variant: the all-failed check is dropped.
JoinIgnoresFailures(i) ==
  /\ Joined(i)
  /\ MainGoto(i, IF ctx[i] THEN "aborting" ELSE "indexing")
  /\ UNCHANGED <<source, disk, manifest, pyVars>>

\* The results channel is closed: every goroutine has returned.
JoinWorkers(i) ==
  /\ Joined(i)
  /\ IF ctx[i] THEN MainGoto(i, "aborting")
     ELSE IF AllFailed(i) /\ Runs(i) # {} THEN Exit(i, "exit4")
     ELSE MainGoto(i, "indexing")
  /\ UNCHANGED <<source, disk, manifest, pyVars>>

\* The packet-access index is attempted (it only ever yields a warning), then
\* the context is checked a second time.
CheckCancelled(i) ==
  /\ go[i] = "indexing"
  /\ MainGoto(i, IF ctx[i] THEN "aborting" ELSE "manifest")
  /\ UNCHANGED <<source, disk, manifest, pyVars>>

\* abortPublished removes the files of the published list one at a time.
AbortRemove(i) ==
  /\ go[i] = "aborting"
  /\ \E a \in sink[i] :
       /\ disk' = [disk EXCEPT ![a] = NoFile]
       /\ sink' = [sink EXCEPT ![i] = @ \ {a}]
  /\ UNCHANGED <<source, manifest, pyVars, go, ctx, worker, missed, unopened, listed>>

AbortDone(i) ==
  /\ go[i] = "aborting"
  /\ sink[i] = {}
  /\ Exit(i, "aborted")
  /\ UNCHANGED <<source, disk, manifest, pyVars>>

\* Fault-injection variant: a failed protocol is not counted.
OverallStatusBlind(i) ==
  IF opt[i] \in IndexOption THEN "partial" ELSE "success"

\* overallStatus: all failed, then any failure, partial run or warning.
OverallStatus(i) ==
  IF AllFailed(i) /\ Runs(i) # {} THEN "failed"
  ELSE IF \/ \E p \in Runs(i) : worker[i][p] \in {"failed", "partial"}
          \/ opt[i] \in IndexOption THEN "partial"
  ELSE "success"

\* Fault-injection variant: the manifest names every file the requested
\* decoders should have written instead of the ones they described.
WriteManifestUnchecked(i) ==
  /\ go[i] = "manifest"
  /\ manifest' = [by |-> i, files |-> UNION {Of(p) : p \in Runs(i)}, unretained |-> {},
                  protocols |-> worker[i], status |-> OverallStatus(i)]
  /\ Exit(i, "exit0")
  /\ UNCHANGED <<source, disk, pyVars>>

\* writeManifest: the rename of decoder_manifest.json is the commit point.
WriteManifest(i) ==
  /\ go[i] = "manifest"
  /\ manifest' = [by |-> i, files |-> listed[i], unretained |-> unopened[i],
                  protocols |-> worker[i], status |-> OverallStatus(i)]
  /\ Exit(i, "exit0")
  /\ UNCHANGED <<source, disk, pyVars>>

\* The manifest cannot be written: exit 5, the published files stay.
ManifestFails(i) ==
  /\ "publish" \in Faults
  /\ go[i] = "manifest"
  /\ Exit(i, "exit5")
  /\ UNCHANGED <<source, disk, manifest, pyVars>>

\* The process dies where it stands.
GoCrash(i) ==
  /\ "crash" \in Faults
  /\ go[i] \in GoLive
  /\ Exit(i, "killed")
  /\ UNCHANGED <<source, disk, manifest, pyVars>>

-----------------------------------------------------------------------------
(* The Python wrapper from proc.wait to its result.                        *)

\* Can the child of i still move by itself?  It cannot when the only thing
\* left of it is goroutines spinning on a truncated record.
Spinning(i) ==
  /\ go[i] = "decoding"
  /\ \E p \in Protocol : worker[i][p] = "stuck"
  /\ \A p \in Protocol : worker[i][p] \in WorkerDone \cup {"stuck"}

\* proc.wait raises TimeoutExpired and SIGTERM goes to the process group: the
\* handler cancels the context, before it is installed the signal kills.
Timeout(i) ==
  /\ py[i] = "waiting"
  /\ go[i] \in GoLive
  /\ py' = [py EXCEPT ![i] = "terminating"]
  /\ IF go[i] = "preflight"
       THEN Exit(i, "killed")
       ELSE /\ ctx' = [ctx EXCEPT ![i] = TRUE]
            /\ UNCHANGED <<go, worker, sink, missed, unopened, listed>>
  /\ UNCHANGED <<source, disk, manifest, got, opt>>

\* Fault-injection variant: the grace period is waited for without a bound.
GraceUnbounded(i) ==
  /\ py[i] = "terminating"
  /\ go[i] \in GoEnded
  /\ UNCHANGED vars

\* The five seconds of grace are over: SIGKILL.
GraceExpires(i) ==
  /\ py[i] = "terminating"
  /\ go[i] \in GoLive
  /\ "slow_exit" \in Faults \/ Spinning(i)
  /\ Exit(i, "killed")
  /\ UNCHANGED <<source, disk, manifest, pyVars>>

\* The child is gone.  Without a manifest the run is fatal whatever the exit
\* code; with one, validate_manifest reads it.
ReadManifest(i) ==
  /\ py[i] \in {"waiting", "terminating"}
  /\ go[i] \in GoEnded
  /\ py' = [py EXCEPT ![i] = IF manifest = NoManifest THEN "fatal" ELSE "validating"]
  /\ got' = [got EXCEPT ![i] = manifest]
  /\ UNCHANGED <<source, disk, manifest, opt, goVars>>

\* Is file a on disk with the bytes manifest m describes?
Matches(a, m) == disk[a] # NoFile /\ opt[disk[a]] = opt[m.by]

\* validate_all_artifacts, then the status decides between result,
\* DecoderPartialError (which the pipeline continues with) and a fatal error.
ValidateArtifacts(i) ==
  /\ py[i] = "validating"
  /\ py' = [py EXCEPT ![i] =
             IF \A a \in got[i].files : Matches(a, got[i])
               THEN IF got[i].status = "failed" THEN "fatal" ELSE got[i].status
               ELSE "invalid"]
  /\ UNCHANGED <<source, disk, manifest, got, opt, goVars>>

\* The wrapper is killed or interrupted; only TimeoutExpired is caught, and
\* the child was started in a session of its own.
WrapperDies(i) ==
  /\ "wrapper_death" \in Faults
  /\ py[i] \in PyActive
  /\ py' = [py EXCEPT ![i] = "dead"]
  /\ UNCHANGED <<source, disk, manifest, got, opt, goVars>>

-----------------------------------------------------------------------------
WorkerStep(i, p) ==
  \/ StreamFails(i, p)
  \/ FinishReading(i, p)
  \/ \E a \in Artifact : PublishFile(i, p, a)
  \/ ReturnRun(i, p)

MainStep(i) ==
  \/ Preflight(i)
  \/ JoinWorkers(i)
  \/ CheckCancelled(i)
  \/ AbortRemove(i)
  \/ AbortDone(i)
  \/ WriteManifest(i)

GoFault(i) ==
  \/ PreflightFails(i)
  \/ GoCrash(i)
  \/ ManifestFails(i)
  \/ \E p \in Protocol :
       \/ TruncatedRecord(i, p)
       \/ Panic(i, p)
       \/ RawSinkFails(i, p)
       \/ \E a \in Artifact : PublishFails(i, p, a)

Request(i) == RefuseRequest(i) \/ StartWrapper(i)

WrapperStep(i) ==
  \/ FinishCopy(i)
  \/ CopyFails(i)
  \/ Timeout(i)
  \/ GraceExpires(i)
  \/ ReadManifest(i)
  \/ ValidateArtifacts(i)

GoStep(i) == MainStep(i) \/ \E p \in Protocol : WorkerStep(i, p)

Next ==
  \E i \in Invocation :
    Request(i) \/ WrapperStep(i) \/ WrapperDies(i) \/ GoStep(i) \/ GoFault(i)

Spec == Init /\ [][Next]_vars

\* The wrapper runs and the timers of proc.wait fire.  Nothing is assumed of
\* the Go child, of tshark or of the arrival of another invocation.
Fairness == \A i \in Invocation : WF_vars(WrapperStep(i))

FairSpec == Spec /\ Fairness

-----------------------------------------------------------------------------
(* Properties.                                                             *)

\* Every file the published manifest names is in decoder/ with the bytes the
\* manifest describes, at every moment and not only when the wrapper checks:
\* writeManifest never commits ahead of a rename, and nothing a later
\* invocation does (refused preflight, abort, kill) touches the generation.
ManifestBacked ==
  manifest # NoManifest => \A a \in manifest.files : Matches(a, manifest)

\* A published generation is immutable (LLD section 25): no step replaces the
\* manifest or rewrites or removes a file it names.
GenerationImmutable ==
  [][manifest # NoManifest =>
       /\ manifest' = manifest
       /\ \A a \in manifest.files : disk'[a] = disk[a]]_<<manifest, disk>>

\* A child that went through abortPublished leaves no file of its own in
\* decoder/, whichever goroutines had published, failed or panicked before.
AbortLeavesNothing ==
  \A i \in Invocation : go[i] = "aborted" => \A a \in Artifact : disk[a] # i

\* The manifest's status is earned: no generation is published by a decode
\* whose protocols all failed, and "success" hides no failed or partial
\* protocol.  Of a record protocol that saw packets it lacks no file but a raw
\* one whose sink did not open, and then the manifest carries the warning that
\* says so: the overall status does not look at warnings, where T01_decode_capture.md
\* :444 has "success" mean that all required artifacts were published.
StatusHonest ==
  manifest # NoManifest =>
    /\ manifest.status # "failed"
    /\ manifest.status = "success" =>
         \A p \in Requested[opt[manifest.by]] :
           /\ manifest.protocols[p] \in {"success", "absent"}
           /\ (p \notin StreamProtocol /\ manifest.protocols[p] = "success")
                => Of(p) \subseteq manifest.files \cup manifest.unretained

\* run_decode returns or raises, whatever its child does: a goroutine that
\* spins forever, a child that ignores SIGTERM, a crash.
WrapperReturns ==
  \A i \in Invocation : py[i] \in PyActive ~> py[i] \in Returned

\* What a caller sees of the run directory: the manifest, and the result of
\* each run_decode.
Verdict ==
  [i \in Invocation |->
     IF py[i] \in Accepted \cup {"refused"} THEN py[i]
     ELSE IF py[i] \in Returned THEN "rejected" ELSE "pending"]

Generation == INSTANCE DecodeGeneration WITH
  generation <- manifest, verdict <- Verdict

\* The run directory implements a write-once decode generation whose status
\* every accepted decode returns: see DecodeGeneration.
ImplementsGeneration == Generation!GenSpec

-----------------------------------------------------------------------------
(* The inductive invariant behind ManifestBacked, GenerationImmutable and  *)
(* AbortLeavesNothing when no wrapper dies (see DecodeRun_proofs).         *)

\* At most one wrapper is at work, and a living child has one waiting for it:
\* two decoders never share the directory.
OneActive ==
  /\ \A i, j \in Invocation : py[i] \in PyActive /\ py[j] \in PyActive => i = j
  /\ \A i \in Invocation : go[i] \in GoLive => py[i] \in {"waiting", "terminating"}
  /\ \A i \in Invocation : py[i] \in {"idle", "copying"} => go[i] = "none"

\* A child that got past its preflight still finds no manifest.
UncommittedWhileDecoding ==
  \A i \in Invocation : go[i] \in GoLive \ {"preflight"} => manifest = NoManifest

\* While a child lives, its published list is exactly what it has in
\* decoder/, and until it aborts it describes nothing else.
SinkIsDisk ==
  \A i \in Invocation :
    /\ go[i] \in {"none", "preflight"} => \A a \in Artifact : disk[a] # i
    /\ go[i] \in GoLive => \A a \in Artifact : a \in sink[i] <=> disk[a] = i
    /\ go[i] \notin GoLive => sink[i] = {} /\ listed[i] = {}
    /\ go[i] # "aborting" => listed[i] \subseteq sink[i]

\* Past the join every goroutine has returned.
JoinedWhenDone ==
  \A i \in Invocation :
    go[i] \in {"indexing", "manifest"} =>
      \A p \in Protocol : worker[i][p] \in WorkerDone

\* A wrapper validates the manifest it has read.
ValidatesWhatItRead ==
  \A i \in Invocation : py[i] = "validating" => got[i] # NoManifest

\* The files of the generation are the ones its own child wrote.
ManifestOnDisk ==
  manifest # NoManifest => \A a \in manifest.files : disk[a] = manifest.by

\* A wrapper validates the manifest that is on disk.
ReadsTheGeneration ==
  \A i \in Invocation : py[i] = "validating" => got[i] = manifest

\* Before the capture is whole no child has started.
CopiedBeforeDecoding ==
  /\ source # "whole" =>
       manifest = NoManifest /\ \A i \in Invocation : go[i] = "none"
  /\ \A i \in Invocation : py[i] = "copying" => source = "torn"

RefinementInv == ReadsTheGeneration /\ CopiedBeforeDecoding

IInv ==
  /\ TypeOK
  /\ OneActive
  /\ UncommittedWhileDecoding
  /\ SinkIsDisk
  /\ JoinedWhenDone
  /\ ValidatesWhatItRead
  /\ ManifestOnDisk
  /\ AbortLeavesNothing

-----------------------------------------------------------------------------
(* The inductive invariant behind StatusHonest.  It is about one child at  *)
(* a time and survives the death of a wrapper.                             *)

\* A result slot exists exactly for the requested protocols.
RequestedRun ==
  \A i \in Invocation : go[i] \in {"decoding", "indexing", "manifest"} =>
    \A p \in Protocol :
      worker[i][p] = "not_requested" <=> p \notin Requested[opt[i]]

\* A child starts with an empty published list, and only one of a wrapper that
\* has copied the capture.
NothingBeforeDecoding ==
  \A i \in Invocation :
    /\ py[i] \in {"idle", "copying"} => go[i] = "none"
    /\ go[i] \in {"none", "preflight"} => sink[i] = {}

\* A record protocol that has neither failed nor panicked describes each file
\* it has published, and once it has succeeded every file it could open.
RecordsDescribed ==
  \A i \in Invocation : go[i] \in {"decoding", "indexing", "manifest"} =>
    \A p \in Protocol \ StreamProtocol :
      /\ worker[i][p] \notin WorkerDone => sink[i] \cap Of(p) \subseteq listed[i]
      /\ worker[i][p] = "success" => Of(p) \subseteq listed[i] \cup unopened[i]

\* A child whose protocols all failed stops at the join.
SomeRunUsable ==
  \A i \in Invocation :
    go[i] \in {"indexing", "manifest"} /\ Runs(i) # {} => ~ AllFailed(i)

HonestInv ==
  /\ TypeOK
  /\ JoinedWhenDone
  /\ RequestedRun
  /\ NothingBeforeDecoding
  /\ RecordsDescribed
  /\ SomeRunUsable
  /\ StatusHonest
=============================================================================
