# Verification of the V2 5G call-failure analyser

This directory specifies the V2 analyser (`V2/` of the repository) in TLA+,
checks the specifications with TLC on small instances and proves the central
results with TLAPS for every instance. It is organised like the code: one
module per component, an MC module and configurations beside it, and proofs in
a module of their own. Paths below are relative to `V2/`; `T01.md` stands for
`tools/T01_decode_capture.md` and so on.

## 1. The system

A capture (pcap) is turned into a diagnosis in one *run directory*. An
*analysis* (`harness/runner.py: run_analysis`) drives the stages T01 to T25 in
order; T01 starts a Go program that runs tshark once per protocol; every later
stage is Python, reads what earlier stages published and publishes its own
artifacts. Nothing is a server: state lives in files, in the memory of one
invocation, and in what an earlier invocation left behind.

| component | code | state it keeps | operations |
|---|---|---|---|
| T01 wrapper | `harness/decoder/*.py` | copy of the capture, child process, manifest read back | copy, start, wait with timeout, terminate, kill, validate manifest and artifacts |
| T01 Go child | `tools/decoder/*.go` | context, protocol goroutines, `ArtifactSink.published`, `decoder/` and its manifest | preflight, decode per protocol, publish, join, abort, write manifest |
| HTTP/2 reconstruction | `tools/decoder/http2_decoder.go`, `http2_stream_writer.go` | map of live stream states, collection members, stream documents | per frame: attribute, accumulate, complete, write, forget; flush at the end |
| Orchestrator | `harness/runner.py` | `StageRunRecord`s, `AnalysisState`, `app/analysis_state.json`, `app/run_manifest.json` | run a stage, record, stop, resume, fail, render, conclude |
| Report (T17) | `harness/post_analysis.py: render_report` | three files of `report/` | build model, publish |
| Publication | `harness/shared.py` | staged files, manifest | validate, rename one by one, manifest last |
| T02 normalisation | `harness/normalize.py` | event list, quarantine and warning counts, masking table | turn each record of the decoder into events, route them to the primary, NRF or UDR partition |
| T03 identity graph | `harness/identity.py` | observations, edges, union-find, nodes, conflicts | observe identifiers, unite what is the same, publish nodes, look up nodes of an event |
| T04 segmentation | `harness/attempts.py` | open attempts, ambiguous and unassigned events | trigger, assign, advance, close, time out |
| T05-T10 diagnostics | `harness/diagnostics.py` | PFCP node catalogue, cursors of the timeline | extract fields, three failure detectors, missing stages, timeline pages |
| T11-T16 comparison to diagnosis | `harness/post_analysis.py`, driven by `runner.py` | rankings, scenario spec, evidence packets, diagnoses of two passes | compare, rank, parse, validate, budget, call the model |
| T18-T25 tools | `harness/post_analysis.py` | cursors, targeted re-decode jobs | read-only tools, re-decode |

**How they interact.** The orchestrator calls the wrapper; the wrapper and the
Go child share the run directory and signals; protocol goroutines share the
sink, the context and `decoder/`; the HTTP/2 goroutine publishes through the
sink. T02 to T16 communicate through published artifacts and Python values, in
one thread. Successive invocations communicate through the run directory only:
`decoder_manifest.json` (which T01 treats as immutable) and
`run_manifest.json` (which `resume` answers from).

**What is hard.**
- *Concurrency*: goroutines publishing while the main goroutine aborts; the
  wrapper's timeout racing the child's commit; an orphaned child beside a new
  decode.
- *Failure*: panics, failed renames, killed processes and half-written sets of
  files, exceptions inside exception handlers.
- *Ordering*: manifest last, state file before run manifest, HTTP/2 frames
  before the headers that explain them.
- *Termination*: a decode loop that repeats one error for ever.
- *Staleness*: a manifest, a fingerprint or a stream state of an earlier life;
  a page cursor or a first-pass diagnosis used after the data changed.
- *Identity*: identifiers that are used again, seen late, or seen in one
  direction only; hashes that break ties.
- *Absence*: a stage, an answer or a document that is not there may be a failure,
  a capture that ended early, or one record that could not be read.

**What makes each component correct.**
- T01: whatever fails, a published manifest describes exactly files that are
  there, never changes, is not better than the decode was; an abort leaves
  nothing; the wrapper always returns, with the published status.
- HTTP/2: no body byte is lost without being replaced or reported, none is
  duplicated or attributed to the wrong peer; each stream has one document,
  matched by the collection.
- Orchestrator: the recorded status is earned and is what the caller is told;
  files are written in an order that a crash cannot turn into a lie; an
  exception is never swallowed; a resume answers only for the same inputs.
- T17 and publication: a manifest names a set of files of one rendering.
- T02: a record is one event with its NAS message, or a count and a warning, or
  one of the few things it leaves out knowingly.
- T03: nodes are the connected components of what was seen, whatever the order;
  joined access contexts draw nothing else with them; an event finds its nodes.
- T04: every event is assigned at most once, links agree in both directions,
  nothing follows an end, bounds hold.
- T05 to T10: an explicit failure is reported, a later success does not hide it,
  a suspicion says that it is one, and no failure is blamed twice.
- T12 to T16, T24, T25: one round of inspections, packets within their budget, and
  a report whose diagnosis speaks of the ranking beside it.

## 2. Modules

| module | role |
|---|---|
| `DecodeRun` | T01 on one run directory: wrappers, Go children, goroutines, files |
| `DecodeGeneration` | what T01 promises: a write-once generation and its verdicts |
| `DecodeRun_proofs` | theorems about `DecodeRun` |
| `MC_DecodeRun` | the instances TLC checks |
| `Http2Streams`, `MC_Http2Streams` | HTTP/2 stream reconstruction |
| `Http2Streams_proofs` | theorems about `Http2Streams` |
| `RunnerStages`, `MC_RunnerStages` | the orchestrator, with T17's publication |
| `RunnerStages_proofs` | theorems about `RunnerStages` |
| `SegmentAttempts`, `MC_SegmentAttempts` | T04: events are grouped into procedure attempts |
| `SegmentAttempts_proofs` | theorems about `SegmentAttempts` |
| `IdentityGraph`, `MC_IdentityGraph` | T03: identifiers become nodes |
| `IdentityGraph_proofs` | theorems about `IdentityGraph` |
| `NormalizeEvents` | T02: records of the decoder become events |
| `AttemptDiagnostics`, `MC_AttemptDiagnostics` | T02 composed with T05 to T10: what the detectors make of those events |
| `AttemptDiagnostics_proofs` | theorems about T02 and the tools after it in `AttemptDiagnostics` |
| `DiagnosisPasses`, `MC_DiagnosisPasses` | T12, T15, T16, T24 and T25 in the two passes of the orchestrator |
| `DiagnosisPasses_proofs` | theorems about `DiagnosisPasses` |
| `Lists` | the list comprehension of the code as a function, `Keep` |
| `Lists_proofs` | lemmas about `Keep`, concatenation, finite sets and induction, for the proofs above |

`AttemptDiagnostics` extends `NormalizeEvents`: its first steps are T02's, and the
detectors work on the events those steps wrote. `RunnerStages` and
`DiagnosisPasses` describe one function, `run_analysis`, at two depths: the first
has all its stages, files and exceptions and no data; the second has the data of
the passes over the attempts and one kind of exception.

Definitions named as deliberate bugs ("Fault-injection variant", "A bug") are
mutations of the definition that follows them. They occur in no `Next`; each
shows that some property would notice that bug.

### 2.1 DecodeRun

A decode *invocation* is a wrapper process and a Go process; several may follow
one another on one run directory (`StartWrapper` waits until no other wrapper is
at work, because the pipeline is one thread), and a child may outlive its
wrapper. Where the code is:

| model | code |
|---|---|
| `py`, `got` | where `run_decode` is; the manifest it validated (`harness/decoder/runner.py`, `validation.py`) |
| `go`, `ctx` | where `runDecode` is; its signal context (`decode_command.go`) |
| `worker`, `listed` | a protocol goroutine under `safeDecode`; the descriptors of its `ProtocolRun` |
| `sink`, `missed` | `ArtifactSink.published`; files whose `Close` failed (`artifact_writer.go`) |
| `unopened` | raw files whose sink did not open: a warning `RAW_SINK_OPEN`, and decoding goes on (`ngap_decoder.go:79`, `http2_decoder.go:212`); in the manifest, `unretained` |
| `disk`, `manifest`, `source` | `decoder/`, `decoder_manifest.json`, `source/capture.pcap` |

A file's bytes are represented by the invocation that wrote it: bytes are a
function of the capture, constant in a run directory, and of the options of the
invocation; so `Matches` (the checksum test of the wrapper) compares options.
Rename and the append to `published` are one step, since only the death of the
process can fall between them and the list dies with it. The copy of the
capture is not atomic: a wrapper that dies while copying leaves a torn copy, and
the next one refuses it. `RefuseRequest` and `CopyFails` are the answers the
wrapper gives before any decoder runs (capture, binary or capability missing,
another capture in `source/`, a copy that fails or does not match): they can come at
any time, with a published generation on disk too.

`DecodeGeneration` says what a caller can rely on: nothing is published twice; a
request may be *refused* before its decoder starts, whatever was published; a decode
whose decoder ran is *accepted* with the status of the generation on disk, or
*rejected* where there is none. That an accepted generation may be an earlier decode's is the
code's behaviour, and a divergence from `T01.md:509` (section 5).

### 2.2 Http2Streams

The environment is the two peers of each stream. They follow RFC 9113 as far as
a capture must: each ends its side once; after a reset or the end of both sides
WINDOW_UPDATE, RST_STREAM and frames in flight can follow (`LateFrames`); a
capture can begin mid-stream (`MidCapture`) and a server may answer before the
request has ended (all but `HalfDuplex`). The decoder's part is a map of states;
each handler is an operator of one stream state (`OnRequest`, `OnResponse`,
`OnBare`) followed by `Store`, which is the tail of the loop body. A frame is
its number, so "no body segment lost or duplicated" is a statement about sets.
`disk` holds one document per stream, as the files do: a second document of a
stream replaces the first.

### 2.3 RunnerStages

One invocation at a time on a run directory (`Invoke` starts another when the
previous has ended, whichever way). `pc` and `step` say where the body is;
`_set_stage` is the record plus two file writes, which are separate steps
(`WriteState`, `WriteManifest`, `WriteFails`), because a crash or exception
between them is the point of the model. A stage is the set of statuses it may
report (`Outcomes`), taken from the stage's code, or an exception. `Slip` counts
results other than the best, so that a model with `MaxSlips = 0` is a run in
which everything went well.

### 2.4 SegmentAttempts

`segment_attempts` in one thread: `Receive` is one pass of its loop over the
events, from the time-outs of what is open to the closing of the attempt that
took the event; `CloseRemaining` is one pass of the loop over what the capture
left open; `Finish` is what follows (sequence numbers, inferred parents,
transfers, supersessions, reciprocal children).

| model | code |
|---|---|
| `log` | `events`, in the order of their frames; the order of events of one frame is any |
| `clock` | the capture's latest packet, which at the end need not be an event (`capture.last_frame`, `last_timestamp`) |
| `attempt`, `open`, `completed` | `ProcedureAttempt` and `_OpenAttempt`, `open_attempts`, `completed` in the order of completion |
| `unassigned`, `ambiguous`, `relations` | the three JSONL files of those names |
| `rank` | the order of the attempts' UUIDs, which breaks ties |

An event opens at most one attempt, so an attempt is named by the position of
its trigger, and what the code copies from the trigger (UE, session, access
context, identifiers) is `Trigger(a)`. Matchers are sets of message kinds;
scores are the code's, in hundredths. The dictionary `previous_attempt_by_key`
is what `Retries` reads off `completed`: the last attempt of a key that
completed before. Assumed: at most `max_assignment_candidates_per_event` open
attempts score (20; the instance has at most four), and
`persist_unassigned_events` is on. Left out: stage timings, transitions,
visibility, topology, profile alternatives and confidence labels, which nothing
in the segmentation reads, and the writing of the files. Where the code selects
from a list (`[x for x in ... if ...]`) the model says `Keep(list, set)`, a recursive
function, and not `SelectSeq`, which takes an operator and of which therefore
nothing can be proved. `AttemptAssumption` says what the code's data are: spans
and limits are natural numbers, profiles have names of their own, UUIDs are
all different.

### 2.5 IdentityGraph

`ReadEvent` takes the next primary event; `BuildEdges` makes all edges
(`build_identity_graph` does so before its union loop); `UniteEdge` is one pass of
that loop, path halving included; `Publish` writes the nodes.

| model | code |
|---|---|
| an observation `<<event, kind>>` | `IdentifierObservation` |
| `rank` | the order of the observations' UUIDs, which are hashes |
| `Edges`, `todo` | `candidate_edges`, in the order the loop sees them |
| `parent`, `Root` | the dictionary of the union-find and its find |
| `nodes`, `Conflicts` | `nodes.jsonl`, `conflicts.jsonl` |
| `NodesForEvent`, `UeByLookup`, `RegisteredAt`, `TopologyAt` | the methods of `IdentityGraphReader` |

The abstract specification of a union-find is the relation "connected by the
edges seen so far"; `GroupsAreComponents` compares the two at every step, as sets: no
edge seen leaves a group, and no smaller set around an observation has that
property. `Halve` is one call of `find` in closed form: the loop visits every other
node on the way to the root, none of which it has changed before, and hangs each
one higher. `Sorted` gives what `sorted(..., key=...)` returns when no two keys are
equal, as here, where each key ends in the UUID. `IdentityAssumption` says that
every observation has a UUID of its own, and that events have a frame and the
identifiers T03 knows. Of these the five kinds of a subscriber are there, and one
each of the kinds that make a context, a session or the user plane; the other
kinds behave as `charging_id` does. Left out: confidence labels, masking, the index files and the revision hash.

### 2.6 NormalizeEvents

One record is one step (`NormalizeRecord`, `QuarantineRecord`, `RejectSchema`,
`OmitRecord`), in the order HTTP/2, NGAP, PFCP in which
`normalize_events` reads the artifacts. A record has a form (readable,
malformed, another schema, a bundle) and the attributes the later stages test;
`nested` is how many NAS PDUs an NGAP record has inside its own tree, beside the
one T02 looks for.
`quarantined` and `warned` are `quarantined_count` and the keys of
`warning_counts`.

### 2.7 AttemptDiagnostics

| model | code |
|---|---|
| `attempt` | the `ProcedureAttempt`: a trigger and any of the events after it that T04 may hand over, how it ended, what the capture shows of it |
| `fields`, `http`, `nas`, `pfcp`, `missing` | the results of T05 to T09 |
| `catalog` | the PFCP node state, `T08_CATALOG` |
| `cursor`, `pages` | a cursor of T10 and the pages a reader got |

The tools run in the order of the code. A reader may hold a cursor while they
run again for another attempt; the cursor then names another revision.
`StageAssumption` says that the profile is a list of stages with ids of their own,
`LimitAssumption` that page sizes are natural numbers. 0 is one of them: T10 takes the least of
what it is asked for and the cap of the mode and looks at neither, so that a
reader who asks for nothing gets an empty page and the cursor it came with, and
`PagesPartition` must hold of it. Negative sizes are not modelled.

### 2.8 DiagnosisPasses

| model | code (`runner.py` from T11 on) |
|---|---|
| `case` | the selected attempts with the results of T05 to T11 |
| `roots`, `expanded`, `kept` | `root_causes`, `expanded_roots`, `state.root_cause_results` |
| `packets` | the evidence packets on disk, by pass and attempt |
| `diagnoses`, `reported` | the list of diagnoses; `state.diagnoses` |
| `inspections` | `dependency_results` |

One action per iteration of a loop (`RankPrimary`, `BuildInitial`,
`DiagnoseInitial`, `Inspect`, `NextDiagnosis`, `RankExpanded`, `BuildExpanded`,
`DiagnoseFinal`, `Render`). Scores are the code's, in hundredths; a packet is a
list of sections, and an item of a section is one token, so that `Trim` cuts the
sections in the order and amount of `_trim_evidence_packet`. A remote model is
any member of `Answers`, an error, or a broken connection. `CasesAssumption` says
of the candidates of an attempt that they are finitely many, that their ids are
their own (they are hashes of what they show) and that scores and frames are
numbers; the candidate of an inspection has a random id, here a negative one.
`Explains` compares events and names only: the code also intersects evidence ids
(`post_analysis.py:1630`), which are hashes that name the tool and the purpose, so that
those of a terminal effect and of a candidate never meet.

## 3. Checks

Run inside this directory: `tlc -workers 2 -config X.cfg MC_Module.tla`.

| run | asks | instance |
|---|---|---|
| `decode` | safety, refinement and termination of T01 under every fault but the wrapper's death | 2 invocations with 2 different options, 2 protocols (one of streams), 4 files: a document and its index, messages and their raw packets |
| `decode_orphan` | the same safety when a wrapper may die: violated | 2 invocations, 4 files, the raw packets those of the stream protocol |
| `decode_death` | what holds even when a wrapper may die | 2 invocations of one option, wrapper death, symmetric invocations |
| `streams` | what is missing from the files, and why? is a segment duplicated or misfiled? do documents match? | 2 streams, 4 frames, 1 orderly stream with failing writes, 1 with every irregularity |
| `stages` | what is on disk, what is answered, what is reported | 2 invocations, 6 configurations, 1 slip, exceptions, failed writes, kills |
| `stages_live` | does every invocation end? | 1 invocation, 1 configuration, every fault |
| `attempts` | one owner per event, outcomes earned, closed for good, links agree | 4 events of 8 kinds, 3 profiles (one nested), 2 subscribers, 2 steps, 2 orders of UUIDs |
| `identity` | are nodes the components, found by event, by identifier and by id, with nothing drawn in by joined access contexts? | 3 events of 16 shapes in 2 frames, 2 subscribers that show SUCI and GUTI together, 1 reused AMF identifier and 1 reused GUTI, 2 orders of hashes |
| `diagnostics` | is a loss hidden that T02 could count, a failure masked, a suspicion stated as fact, a silence left unexplained or blamed twice? | 3 records of 23 (every form and failure), 2 configurations, 4 stages, 1 foreign event; a second run of the tools over up to 2 records |
| `diagnostics_ngap` | does every explicit NGAP failure reach T07? violated | 2 records |
| `passes` | one dependency round, packets within budget, diagnosis and ranking agree | 2 attempts of 8 kinds, 3 provider modes, 12 answers, a budget of 7 items |
| `passes_kept` | does the report keep the ranking of every attempt? violated | same |

**Why the bounds are enough.** *decode*: two invocations are what
interference between generations needs (one that leaves something, one that
finds it); a third would repeat the second. Two options make the bytes of the
two invocations differ or agree. One stream protocol and one record protocol
are the two kinds of decoder the code has (NGAP and PFCP share one shape). `decode` has
the stream protocol with a document and its index and the record protocol with messages and
raw packets, so that a raw sink fails beside files that do not; `decode_orphan` and
`decode_death` have the raw packets on the other side. No symmetry is declared in `decode`: the run has a liveness
property. `decode_death` has only invariants and declares the invocations symmetric. *streams*: a stream is independent of the others in the
decoder but for the map and the order of the flush, for which two keys are
enough; four frames reach headers, body, end and one frame more on one stream.
*stages*: two invocations are a run and its repetition; the stage list is the
whole list of the code, not a sample. One slip is enough to tell any stage's
degraded status apart from a clean one, since statuses are combined by "any".
*attempts*: four events are a registration, its authentication, an answer and
something in between, or three attempts of one retry key and an answer. The two
steps are "the same frame" and "two frames and seconds on, without a time
stamp": repeated, they exceed each limit in frames, and, seen from the next
event that has a stamp, each limit in seconds. Two orders of the UUIDs, one the
reverse of the other, decide each tie both ways. The limit of open attempts is
two, so that it is reached. *identity*: a chain that could draw one subscriber into another
needs two events that share a reused identifier and a third that belongs to one of
them only; the two orders of the
hashes decide each tie both ways. *diagnostics*: three records are a request,
its rejection and a success that might hide it, or a stage, its successor and
silence; the trigger is itself one of them. The second run needs two revisions
of the timeline, for which two records are enough. *passes*: two attempts are
what interference between attempts needs (one that is ranked again, one that is
not). The cases put a packet below, at and above its budget, with the excess in
the optional and in the mandatory part. Three calls and one answer of six
requests exceed the limit of calls.

**Bounds that are not in the code**: `MaxFrames`, `MaxRuns`, `MaxSlips`,
`MaxEvents`, `MaxRecords`, `RerunRecords`, `MaxForeign`. All stop behaviours; none
restricts an ordering. `MaxAlternatives`, `MaxCalls`, `Cap`, `ModeCap` and the limits of
`SegmentAttempts` are the code's own, made small.

**Fairness.** `DecodeRun` assumes only that the wrapper keeps running and that
its two timers (`proc.wait(timeout)`, the five seconds of grace) fire:
`WF_vars(WrapperStep(i))`. Nothing is assumed of Go, tshark or goroutines, which
is what makes `WrapperReturns` worth stating: the SIGKILL at the end must
suffice. `RunnerStages` assumes that its one thread keeps running
(`WF_vars(Work)`); every stage it calls is bounded there by its own outcome,
and T01's is what `WrapperReturns` shows.

`CHECK_DEADLOCK FALSE` is set where the programs end; `DiagnosisPasses` repeats its
last state instead, so that a run that hangs between two passes would show.

### 3.1 What the runs show, property by property

- `ManifestBacked`, `GenerationImmutable`, `ImplementsGeneration`: a published
  generation is complete and fixed from the instant of its rename, through any
  later refused, failed, aborted or killed decode. `decode_orphan` shows that
  this rests on the wrapper surviving its child.
- `AbortLeavesNothing`: files of goroutines that failed or panicked after a
  rename are removed too, since the sink, not the `ProtocolRun`, is the list.
- `StatusHonest`: "success" hides no failed or partial protocol. Of NGAP and PFCP it
  hides no missing file but a raw one whose sink did not open, which a warning of
  the same manifest names (`T01.md:444` asks for more). It says nothing of the raw
  and document files of HTTP/2, see section 5.
- `NothingElseLost`: what is missing from the files on disk was in a document whose
  write failed or whose file a later document of the same stream replaced; nothing
  else is lost, and no segment is there twice. The replaced ones are a loss that
  `T01.md:324` excludes, see section 5.
- `ClosedMeansWritten`: `streamIsComplete` and `completionState` encode one decision
  twice and agree; a stream that is closed on the wire does not stay in memory, if it was
  seen from its request on, its server waited for the end of the request and no frame
  follows the close.
- `AttributionExact`, `ClosedMeansWritten` and `MembersMatchDisk` hold of streams whose
  server waits for the request (the first two) or that see no frame after
  their close (the last); the other cases are divergences, section 5.
- `SuccessBacked`, `WriteOrder`: what a later invocation can believe of what it
  finds, after any crash.
- `AnswerTrue`, `RunEnds`: what the caller can believe.
- `EventsPartitioned`, `ClosedForGood`: through time-outs, ties, the limit of
  open attempts and attempts that end on the event that opens them, each event
  has one place and a closed attempt is history (T04, 19.2).
- `TimeoutsKept`: an attempt ends by its last event, by a silence that the log
  shows, or with the capture; it never resumes after a silence, in frames or in
  seconds.
- `SubscribersApart`: the limit per subscriber holds although it is checked in
  the scope of the event; a session node and identifiers shared by two
  subscribers do not carry an event across without a shared access context
  (with one they can: the sum of the rest is 0.60, the threshold 0.70).
- `RelationsSound`: retries never branch; parents found while attempts were open
  and parents inferred afterwards end in one reciprocal set.
- `GroupsAreComponents`: neither the order of the edges nor path halving shows in
  the groups, and a group's root is its least UUID.
- `LookupsSound`: each identifier of an event lies in one node that is alive in
  the event's frame; an identifier that stays with its subscriber, one kind and one
  value, is one node in the whole capture; node ids, whose hash leaves out scope and
  event, stay unique. A subscriber's SUPI and SUCI are two nodes, and of a GUTI, which is
  given away again, nothing is claimed (section 5).
- `BoundariesKept`: access contexts are joined over a reused identifier, which T03's
  document does not want (section 5), but the chain takes nothing else along: no subscriber, session
  or other identifier is drawn in, what is only associated stays apart, and a conflict
  names subscribers that are still two nodes.
- `LossAccounted`: a status "success" is earned but for three losses that are named: a
  document without a frame, a routine heartbeat that the configuration leaves out,
  and the NAS PDUs of an NGAP record after its first. Apart from these every record has its events.
  The first and the last of them are divergences (section 5).
- `NoFailureMasked`: an HTTP failure that T02 saw is an explicit candidate of T06,
  whatever other documents the stream left.
- `SuspicionsUnsure`: T06 suspects a dependency only where T02 was unsure of the
  partition.
- `SilenceExplained`: an attempt seen from its beginning that goes on past the time-out of a
  stage it awaits, the interfaces visible and the predecessors seen, ends with a
  candidate: T09 and the detectors leave the explanation to one another, never to
  nobody. `NoDoubleBlame`: a stage that T09 calls missing has all
  its predecessors.
- `PagesPartition`: the pages of one chain of cursors are the timeline of their
  first page, each item once, also if the tools run again in between.
- `OneDependencyRound`: an attempt has one initial and at most one final diagnosis;
  the final one follows an inspection that found something and asks for nothing,
  and no initial one leads to more inspections than a pass may ask for.
- `DiagnosisFitsRoot`, `ConflictsRecorded`: the diagnosis shown for an attempt answers
  the ranking shown for it, and where the model names another primary candidate
  the conflict is shown.
- `SecondRankingExplained`: the second ranking differs from the first by what an
  inspection of that attempt found, or by the terms it is not given.

## 4. Proofs

`tlapm DecodeRun_proofs.tla` proves, for any number of invocations, options,
protocols and files:

| theorem | of | assuming |
|---|---|---|
| `TypeCorrect` | `TypeOK` | nothing more than `DecodeAssumption` |
| `StatusAlwaysHonest` | `StatusHonest` | the same |
| `AbortAlwaysClean` | `AbortLeavesNothing` | the same |
| `WrapperStepsCount` | `Patience`: at most five steps of a wrapper until its result | the same |
| `InvariantHolds` | `IInv` | `"wrapper_death" \notin Faults` |
| `ManifestAlwaysBacked` | `ManifestBacked` | the same |
| `GenerationNeverChanges` | `GenerationImmutable` | the same |
| `RunImplementsGeneration` | `ImplementsGeneration` | the same |

The extra assumption is necessary: `decode_orphan` is the counterexample
without it.

**The argument for `DecodeRun`.** `ManifestBacked` alone is not inductive: from an arbitrary
state in which it holds, a child could still be decoding beside a published
manifest and overwrite a file. `IInv` excludes exactly that.
`OneActive` (a living child has its wrapper waiting for it, and one wrapper is at
work) and `UncommittedWhileDecoding` (a child past its preflight still finds no
manifest) together say that nobody publishes next to a manifest.
`SinkIsDisk` (a child's published list is what it has in `decoder/`, and bounds
what it has described) gives `ManifestOnDisk` at the commit and
`AbortLeavesNothing` at the end of an abort; `JoinedWhenDone` and
`ValidatesWhatItRead` type the manifest and the wrapper's reading of it.
For the refinement, `RefinementInv` adds that a validating wrapper holds the
manifest that is on disk and that no child starts before the capture is whole.
`StatusHonest` rests on a different invariant (`HonestInv`) about one child at a
time: `RecordsDescribed` relates the descriptors of a record protocol to its
published files and `SomeRunUsable` carries the join's "not all failed" to the
commit. `AbortAlwaysClean` without the fault assumption needs only that a child's
own files are in its list while it lives.

`WrapperStepsCount` is the part of `WrapperReturns` that is no matter of fairness:
each step of a wrapper lowers its `Patience`, and nothing its child, another invocation
or the environment does raises it, because a child never comes back to life by itself
(`ChildNeverRevives`).

`tlapm Http2Streams_proofs.tla` proves, for any streams, any length of the
capture, any streams with late frames, half of a conversation or a failing write
(`Http2Assumption`, which does not need every stream to be in `KeyOrder`):

| theorem | of |
|---|---|
| `InvariantHolds` | `IInv` |
| `TypeCorrect` | `TypeOK` |
| `NothingElseEverLost` | `NothingElseLost` |
| `ClosedAlwaysWritten` | `ClosedMeansWritten` |
| `MembersAlwaysMatch` | `MembersMatchDisk` |
| `AttributionAlwaysExact` | `AttributionExact` |

**The argument for `Http2Streams`.** The decoder never sees a peer, only what it
concluded from the frames it remembers; the properties compare its documents with
the peers. `LiveTrue` and `StateTrue` say what a live state implies about the wire:
an end flag means that some peer ended, a state that has the request headers
has every response header and end since, and the client had ended before the
server began where the two take turns. `DocTrue` is the same about a
document, and why a stream without late frames gets only one: its frames
stop at the close. `PlacedOnce` says of each body segment that it is on one side
of the live state or of one document, `FramesKept` the same of frame lists;
counting places (`SegmentsKept`) follows from it. Each kind of frame only proves that
the updated state is true and has one frame more (`Extended`); `StoreStep`, with
`KeepStep` and `WriteStep` below it, does the rest once for all of them and for the
flush.

`NothingElseLost` is about files, of which a stream has one, whatever it wrote
before. `DiskIsLast` says that a stream's file is its last document whose write did not fail.
A segment that is neither in memory nor in the file is then in a document that
failed or is not the last (`NotOnDisk`), which is what `Gone` says of it; one that is in the file is
there once, since `PlacedOnce` has it in one document only.

`tlapm RunnerStages_proofs.tla` proves, for any set of configurations, any number
of invocations and interruptions and any set of faults (`RunnerAssumption`, and
`NoFileAssumption`: an absent file is none of the contents a file can have):

| theorem | of |
|---|---|
| `InvariantHolds` | `IInv` |
| `TypeCorrect` | `TypeOK` |
| `SuccessAlwaysBacked` | `SuccessBacked` |
| `WritesInOrder` | `WriteOrder` |
| `AnswersAreTrue` | `AnswerTrue` |
| `EveryStepLeavesFewer` | `StepsLeft`: each step of an invocation lowers it, and it is never above 468 |

**The argument for `RunnerStages`.** The properties compare files with each other,
or a file with an answer; whether they will agree is settled steps before the
write. `FirstRecord` and `Mine` say that from the first record on disk until the
end the run manifest is an intermediate one of this invocation, so that a report
may be replaced without contradicting a manifest that names the old one; in the
window before it, no report is published. `WritesKnown` says that only the last
write of a run says more than "partial", `ReportSoFar` which of the three files of
the report are from this rendering, and `RecordsKept` that a stage's record,
once made, stays and reaches the state file before the run manifest. "success" is
earned because `FailureRemembered` keeps a failure as the hint until the
conclusion, and `RunningIsNow` and `CancelledIsFinal` exclude a stage that is still
running, or was cancelled, when no failure is remembered. `AnswerEarned` and
`AnswerCached` relate an answer to the last write or to the files that a
repeated invocation found. A death may happen between any two writes and erases
what the process knew (`NothingKnown`).

`EveryStepLeavesFewer` is the part of `RunEnds` that is no matter of fairness. The
ways back are what makes it worth showing: a failed write leads from the report to the
conclusion without one, and anything that raises leads into the handler, which writes
and renders again. `StepsLeft` counts the places still to come through (`Ahead`), then the files
left to write at one place (`Pending`), and the handler once (`Spared`): `GoesOn` names
the three ways to go on, and each step takes one.

`tlapm DiagnosisPasses_proofs.tla` proves, for any number of attempts, any cases,
answers, budget and limits (`NAssumption`, `CapAssumption`, `MaxCallsAssumption`,
`SectionsAssumption`, `CasesAssumption`, `AnswersAssumption`, `StoreAssumption`):

| theorem | of | assuming |
|---|---|---|
| `DiagnosesInOrder` | `IInv` | nothing more |
| `ShownDiagnosisFits` | `DiagnosisFitsRoot` | the same |
| `ShownConflictsRecorded` | `ConflictsRecorded` | the same |
| `CourseKept` | `CourseInv`, `InspectionsInv` | the same |
| `NoThirdPass` | `OneDependencyRound` | the same |
| `RankingsStand` | `RankedInv` | the same |
| `SecondRankingJustified` | `SecondRankingExplained` | the same |
| `DiagnosesTyped` | `TypeOK` | `NoneIsNoCandidate`: `None` is not one of the records that stand for the candidate of an inspection |

**The argument for `DiagnosisPasses`.** The report takes the last diagnosis of each
attempt out of one list that both passes append to. `IInv` fixes the shape of the
list: the first N entries are the initial diagnoses in the order of the
attempts (`InitialsFit`), and each entry after them is the final diagnosis of an
attempt whose second ranking the loop has passed, and answers that ranking
(`FinalsFit`). `Positions` ties the loop counters to the lengths (`Lengths`), `Built`
says that the packet a diagnosis is made from carries the ranking of its own
pass, and `Rankings` that a second ranking belongs to the attempts that have
one. From these, the last entry of an attempt is the final one exactly when the
report shows the second ranking. Trimming must be seen to leave the ranking
part of a packet alone (`InitialPacketTrimmed`, `ExpandedPacketTrimmed`).

`IInv` says nothing more once a run has failed; the other invariants do, because
`OneDependencyRound` is about failed runs too. `CourseInv` keeps who asked for what:
an initial diagnosis has at most `MaxCalls` requests, all about its own attempt
(`FollowedFits`), a final one none. `InspectionsInv` counts the inspections of an
attempt against the requests of its initial diagnosis, and ties a second ranking to
something returned. `RankedInv` says that both rankings are, to the end, what the
candidates and the inspections make them, which holds only because nothing is
inspected behind the second ranking. `SecondRankingExplained` then is a statement
about two calls of `RankRootCauses`. `Outranks` is shown to be a strict order of
candidates with distinct ids, so that each finite set has a best one
(`PrimaryLeads`, from `Foremost`). If the first primary candidate had neither an explained effect nor
a divergence, its score loses nothing by what the second ranking is not told, while no other
score rises; an old candidate that now leads it would have led it before (`OtherPrimary`).

The budget is an argument about sums. `_trim_evidence_packet` goes through the
sections and takes from each what is still too much; `TrimFits` shows by
induction over the sections that k of them keep `Max(0, P(k) - excess)` of their `P(k)` items,
so that all of them keep what the budget leaves.

`tlapm SegmentAttempts_proofs.tla` proves, for any capture, registry, number of
subscribers, order of the UUIDs and limits (`AttemptAssumption`):

| theorem | of | assuming |
|---|---|---|
| `Invariant` | `Inv` | nothing more |
| `SegmentTypes` | `TypeOK` | the same |
| `EventsInOnePlace` | `EventsPartitioned` | the same |
| `ClosedStaysClosed` | `ClosedForGood` (an action property) | the same |
| `TimeoutsAreKept` | `TimeoutsKept` | the same |
| `OpenIsBounded` | `OpenBound` | the same |
| `SubscribersKeptApart` | `SubscribersApart` | `Limits.confidence > 60` |
| `RelationsAreSound` | `RelationsSound` | nothing more |

The extra assumption is necessary, and is the code's default (0.70): without the
subscriber and the access context the other terms of a score sum to 0.60, so that
with a lower threshold an event could reach a stranger's attempt on them alone.

**The argument for `SegmentAttempts`.** `Receive` does many things to many attempts
in one step. The proof goes through it once: `Passed` summarises what one pass did
(who was closed and with what outcome, who took the event, what was opened),
and the parts of `Inv` are shown from the summary, not from the action. `QueuesInv`: an
attempt is open or completed, once. `EventsInv`: an event is in one list or among the
unassigned, and the lists are in the order of the log. `OutcomesInv`: what is open has heard
of an event within its time-outs and has not ended; what is completed has the outcome it
earned, which no later event can change because the log only grows behind it.
`OpenBound`: the limit is checked for the scope of the event alone, and an attempt is opened
in that scope. `RetriesInv` and `LinksInv` speak of the relations before the end, `LinksAgree`
of those that `Finish` has made reciprocal.

`tlapm AttemptDiagnostics_proofs.tla` proves, for any records, registry, policy,
profile, configuration and page sizes, and any length of the capture
(`FrameAssumption`, `DependencyAssumption`, `StageAssumption`, `LimitAssumption`):

| theorem | of | assuming |
|---|---|---|
| `LossesKnown` | `LossInv` | nothing more |
| `LossAlwaysAccounted` | `LossAccounted` | the same |
| `FailuresKnown` | `MaskInv` | the same |
| `FailureNeverMasked` | `NoFailureMasked` | the same |
| `ToolsFit` | `ToolsInv` | the same |
| `SuspicionsEarned` | `SuspicionsUnsure` | the same |
| `BlameGivenOnce` | `NoDoubleBlame` | the same |
| `ReaderFits` | `Reads` | `NoneIsNoCursor`: `None` is not one of the records that stand for a cursor |
| `PagesAreTheTimeline` | `PagesPartition` | the same |
| `DiagnosticsTypes` | `TypeOK` | the same |
| `SilenceAlwaysExplained` | `SilenceExplained` | nothing more |

**The argument for `AttemptDiagnostics`.** The status of T02 is computed from a few
counters when all records have been read; whether it is earned was settled
record by record. `Kept` says of each record what became of it: it was counted as
quarantined, its source failed, it was left out without a word (a document without a frame,
a routine heartbeat), or its own event and that of its first NAS PDU are in the
files. `RecordBecomes` adds that these are one or two events with distinct ids, so that
counting them, and the NAS PDUs nobody looked for, is exact. For `NoFailureMasked`, the two tools judge different things: T02
one document, T06 all documents of a stream. `HttpTrue` ties an HTTP event to
its document and `OneAnswer` says that only one document of a stream has an answer, as the
decoder's documents do; T06 then finds that answer and no other
(`FailureReported`), and the tools after it leave its result alone (`FailuresTaken`).

Behind T02, `ToolsInv` carries what the tools rely on: events are as their records
say (`EventsInv`), the attempt and the catalog took theirs from the primary
partition (`TakenInv`), the findings of a tool that has run are finite and stand
(`FoundInv`). `SuspicionsUnsure` follows because a service the policy does not list is
one whose partition T02 marked as ambiguous. The loop of T09 over the stages is a recursive
function (`Verdicts`): a verdict depends on those of the stages before it only, and
"absent" is given only where every predecessor is "completed". `Reads` says of a
reader that its pages are the timeline of the revision its cursor names, up to the
cursor, and all of it when there is none left; revisions are never reused, so it
survives any number of runs of the tools in between. The timeline is a concatenation over
frames and parts; that it is a finite list at all is `OrderedItems`.

For `SilenceExplained`, take a stage at which the attempt broke off (`SilenceBroken`). Its
predecessors come before it in the list and were seen, so T09 has called none of them absent
and does not skip the stage; with the interfaces visible, it calls the stage
missing unless a detector already has a candidate to which it leaves the
explanation. Either way there is one. Nothing is assumed of the profile: a stage whose
predecessors the list puts later, or were skipped, is not broken off in this sense, and
T09 is silent about it (see 5, T09). Whether a stage is broken off is settled when the attempt is cut
(`BrokenOffStays`).

`tlapm IdentityGraph_proofs.tla` proves, for any events, any order of the UUIDs and any
length of the capture (`IdentityAssumption`):

| theorem | of | assuming |
|---|---|---|
| `Sorting` | `Sorted`: each element once, in the order of the keys | the keys are tuples of one length, all different |
| `Uniting` | `Unite` on any forest whose parents have smaller UUIDs | nothing more |
| `Grouping` | `IInv` | the same |
| `Components` | `GroupsAreComponents` | the same |
| `LookupsAnswered` | `LookupsSound` | the same |
| `BoundariesAlwaysKept` | `BoundariesKept` | the same |
| `GraphTyped` | `TypeOK` | the same |

**The argument for `IdentityGraph`.** Parents have smaller UUIDs (`Forest`), so that
climbing ends (`RootDefined`) and whatever holds of the roots, and of each
observation whose parent it holds of, holds of all (`Climb`). Halving keeps every root,
whichever nodes it visits (`HalvingKeepsRoots`). `Groups` is the inductive form of
`GroupsAreComponents`: both ends of an edge seen have one root, and a set that no
edge seen leaves is left by no parent (`Together`). The first half is what uniting
adds; the second is why it never joins too much, and it survives halving, which the
statement about whole groups would not show directly. `Linked` adds that `todo` is
the rest of the edges. When all are seen, each exact group is in one group, since its chain
holds it together (`ChainHolds`, `ExactTogether`), and a group takes in
nothing else: what may be united with an observation (`Unitable`: its exact group, or, for an access
context, the access contexts) is a set that no union edge leaves (`GroupsAlike`), so
that a group has one type (`TypesAgree`) and, outside the access contexts, one identifier
in one scope. That is `BoundariesKept`, and what keeps the ends of an association, and the
subscribers of a conflict, on two nodes.
Node ids then differ although they leave out the scope: what shows the same value in
the same frame comes from one record, and so has the same scope (`ScopeInFrame`).
The lookups follow from `Laid`: the published list has one node per root.

**Induction.** The library's induction theorems take an operator and cannot be
instantiated here. `Lists_proofs` draws induction over natural numbers from their
well-foundedness instead: a set of numbers at which a claim fails has a least member
(`LeastNat`, `Induction`). What `Keep`, `FlattenSeq`, `Verdicts` and the sums of a packet
yield for inputs of any size is proved with it.

**Only model-checked**: `WrapperReturns` and `RunEnds`, which are liveness and need
fairness and ENABLED. Their measures are proved (`WrapperStepsCount`, `EveryStepLeavesFewer`); that
a step is always possible until the end, and is taken, is what TLC adds. Every
invariant and action property of the passing runs is stated by a theorem, some under the
assumptions the tables name.

## 5. Divergences

Three are runs that TLC refutes, listed with their sources in `PROJECT.json`: an
orphaned child overwrites a published generation; explicit NGAP failures are
read as successes; a second ranking of one attempt takes the others out of the
report.

Seen while modelling, expressible in the modules, and left out of the runs.

Decode and HTTP/2:

- `http2_decoder.go:251`: a child that is terminated between its files and its
  manifest leaves files without one (`T01.md:148`).
- `ngap_decoder.go:79`, and alike in the PFCP and HTTP/2 decoders: a raw sink that
  cannot be opened is a warning, decoding goes on without the file and the
  run is a "success"; `T01.md:444` has that mean that all required artifacts were
  published. `StatusHonest` asks for the warning only.
- `harness/decoder/runner.py:262`: Go refuses a decoder/ with a published
  generation (exit 2), but the wrapper then finds the earlier manifest and
  returns it as this call's result (`T01.md:509`, `:681`).
- `http2_decoder.go:416`, `http2_stream_writer.go:65`: a frame after the close
  creates the stream anew, and its document replaces the first one under the same
  name, whose segments and frames are then in no file (`T01.md:324`, `:340`, `:524`).
  `NothingElseLost` names this loss (`Gone`).
- `http2_decoder.go:471` computes success although the raw file or some
  documents of HTTP/2 could not be published; `T01.md:444` asks for partial.
- `http2_decoder.go:383`: once response headers are known, a DATA frame counts
  as response, so a client that ends its request after an early answer leaves
  the stream in memory until the end of the capture (`T01.md:523`).
- `http2_decoder.go:380`: the header block of trailers is dropped
  (`T01_IMPLEMENTATION_NOTES.md:560`); the models leave header values out.

Orchestrator:

- `runner.py:938`: the "parsed" of T13 is unknown to `_normalize_stage_status`, so
  any run with a scenario is partial (`LLD.md:3073`).
- `runner.py:942`, `:202`: the fingerprint of a resume leaves inputs out.
- `runner.py:699`: a run whose handler ran is failed while its report, built
  from the same records, can say partial (`LLD.md:2224`, `3071`).
- `runner.py:687`: a failure after T04 is booked on "runner", since those stages
  are never marked running (`T03` document `:1245`, `LLD.md:3004`).
- `shared.py:524`: the report's files are renamed one at a time; a crash leaves
  files of two renderings (`T17_render_report.md:228`). `WriteOrder` shows that the
  run manifest never names such a mixture.
- `runner.py:742`: a `run_dir` that is not the resolved path makes every write of
  the run manifest raise (`requirement.md:287`); the configuration `Relative` of
  `MC_RunnerStages` takes that path.

T02 and T03:

- A frame with several NGAP PDUs is quarantined whole; two records without
  `record_id` get one event id, which fails the stage.
- `normalize.py:646`: an HTTP/2 document without a frame is dropped silently while the
  status is success (`T02.md:958`). `normalize.py:785`: only the first NAS PDU of an NGAP
  record becomes an event, and nothing tells of the others (`T02.md:451`, `:486`, `:909`).
  `Unreported` of `NormalizeEvents` stands for both.
- `identity.py:759`: access contexts that share an identifier are united before
  anybody asks whether they contradict, and a conflict is noted afterwards, where the document never unions
  them first (`T03` document `:839`, `:846`, `:1450`). If no event shows both
  subscribers, an AMF UE NGAP id that is used again joins their access contexts without any
  conflict (`:694`). `BoundariesKept` says what the joined context does not draw in.
- `identity.py:636`: a GUTI that is given to another subscriber stays one node, never
  split by a later binding (`T03` document `:693`, `:831`).
- Access contexts are scoped by source and destination in this order, so both
  directions of one UE are two contexts; a PDU session seen without an access
  identifier has the scope "access:unknown", which joins sessions of different
  UEs; `access_context_at` ignores its key; `sessions_for_context` misses
  sessions whose observation sorts before the context's; the nodes of a SUPI and
  of its SUCI stay apart.

T04:

- `attempts.py:975`: a retransmitted request opens a second attempt; the best
  score it can reach is 0.85, the threshold 0.90 (`architecture.md:385`,
  `requirement.md:406`).
- `attempts.py:544`: a tie at the top is recorded as ambiguous and the greater
  UUID gets the event; `T04` document 9.1, step 5, accepts a tie only under a
  nesting rule.
- `attempts.py:1208`: "prior" is prior in completion, so an attempt can be
  recorded as the retry of one that began after it.
- `attempts.py:1278`: an inferred parent may be on another access context, which
  the parent of an open attempt may not (`T04` document, 19.2).
- `attempts.py:1118`: without a terminal stage, success terminals are tried before
  failure terminals, event by event; `T04` document 13 wants failure first and
  frame by frame.

T05 to T10:

- T06: "truncated_capture" is none of the names it tests (`T06.md:199`); a
  request without an answer is a candidate without waiting for a time-out
  (`T06.md:197`); only services the partition policy does not list raise the
  suspicion of a dependency.
- T07: neither a reject without a visible cause nor a failure cause on an accept
  is reported.
- T08: numeric PFCP causes other than 1 and 64 are unknown; an answer that names
  its request has another key than the request (`diagnostics.py:2375`,
  `T08_find_pfcp_failures.md:199`).
- T09: conditions admitted by T04 always end as "applicability_fact_unknown"; a
  stage that did not come is a candidate as soon as the attempt ends, also before its
  deadline or with a capture that ends first, where `T09.md:15`, `:231`, `:234` and `:353`
  want it inconclusive; `SilenceExplained` therefore asks for a candidate only
  behind the deadline; several independent stages may be missing at once
  (`T09.md:199`); a predecessor that was legally skipped, or has a larger `order`, blocks
  what follows it (`diagnostics.py:1125`), where `profiles/README.md:279` lets a stage
  follow "every required predecessor [that] is completed or legally skipped" and
  `:275` says that `order` is for presentation.
- T05: its conflicts cannot occur.

T12 to T16, T24, T25:

- The second ranking is given no terminal effects and no comparison, so the
  primary candidate can change without new evidence (`T12.md:393`).
- Trimming removes dependency evidence first, which `T15.md:173` makes mandatory;
  `build_expanded` ignores its own budget and number of alternatives; an overflow
  of the mandatory part ends the whole run.
- After a failure behind the second ranking the report shows that ranking beside
  the initial diagnosis (`T17.md:36`); diagnoses made before a failure in the
  initial loop are not in the report. `DiagnosisFitsRoot` is therefore about runs
  that ended well.
- A connection that breaks while the answer is read is no `URLError` and ends the
  run (`T16.md:377`); there are no retries and no ledger (`T16.md`, 14).
- Candidate and evidence ids of an answer are not checked; without a primary
  candidate an invented one raises no conflict (`T16.md:254`).
- The same request twice gives the candidate twice; the local provider looks for
  a category "http_incomplete" that T06 never uses; the expanded packet shows
  inspections of other attempts (`T15.md:418`, `:498`).
- A failed final diagnosis hides the initial one and is not in the stage status
  of T16.
- No detector sets the marks cleanup, downstream, recovered retry or
  contradicted, nor a causal impact: these terms of the score are never used.

## 6. Not modelled, and why

Packet dissection (`tshark_layers.go`), identifiers (`ids.go`) and the JSON
writers are data conversion without state. The legacy decoder under
`reference/`, the smoke test and the re-exports of `__init__.py` have no logic of
their own. tshark, the file system's own crash semantics (`fsync`) and the model
behind T16 are external. The comparison of T11 and the scenarios of T13 and T14
are functions of large documents, represented by their results; T18 to T23 are
read-only projections of finished results; the targeted re-decode (T20) runs
the decoder of `DecodeRun` in a directory of its own. The text of the report is
left out.

## 7. Plan

Written in the order of how much the rest depends on it. Done, with proofs of all
safety properties: `DecodeRun` with `DecodeGeneration`, `Http2Streams`,
`RunnerStages`, `NormalizeEvents` with `AttemptDiagnostics`, `SegmentAttempts`,
`IdentityGraph` and `DiagnosisPasses`. Left:

1. The comparison of T11 and the scenarios of T13 and T14 as functions over small
   timelines, checked against a reference definition.
2. The cursors of T18 to T23, and the targeted re-decode beside a decode.
