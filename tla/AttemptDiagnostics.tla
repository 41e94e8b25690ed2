-------------------------- MODULE AttemptDiagnostics --------------------------
(***************************************************************************)
(* T05 to T10 (harness/diagnostics.py) for one attempt of the events T02   *)
(* wrote: what was requested, the failure candidates of the three          *)
(* detectors, the missing stages, and the timeline, read page by page.     *)
(* T04 is represented by what it hands over: a trigger and any of the      *)
(* primary events after it.  The tools may run again for another attempt   *)
(* of the same events (T04 with another configuration) while a reader      *)
(* still holds a cursor.                                                   *)
(*                                                                         *)
(* A frame number also stands for its time stamp, in seconds.              *)
(***************************************************************************)
EXTENDS NormalizeEvents

CONSTANTS
  Words,         \* message name -> the words in it
  Triggers,      \* the messages that open an attempt of the profile
  Terminals,     \* the messages of the profile's terminal matchers
  Stage,         \* the profile's stages, by order and stage id
  Reasons,       \* why T04 closed the attempt
  Sights,        \* what of it the capture shows: incomplete_history, visibility
  MaxForeign,    \* bound: later events that belong to another attempt
  SuccessCauses, \* NAS and NGAP causes that mean success
  PfcpSuccess, PfcpFailure, \* PFCP causes known to mean success or failure
  Limits,        \* page sizes a caller asks for
  ModeCap,       \* the largest page of the mode
  MaxRuns,       \* bound: how often the tools run
  RerunRecords   \* bound: records of a capture for which they run again

\* The validation of a profile rejects a stage id that comes twice.
ASSUME StageAssumption ==
  /\ Stage \in Seq(Range(Stage))
  /\ \A i, j \in DOMAIN Stage : Stage[i].id = Stage[j].id => i = j

\* Nobody looks whether a caller asks for at least one item.
ASSUME LimitAssumption == Limits \subseteq Nat /\ ModeCap \in Nat /\ MaxRuns \in Nat

VARIABLES
  pc,      \* the tool to run next
  runs,    \* how many times the tools have been started
  catalog, \* normalized/diagnostics/pfcp_node_state
  attempt, \* the ProcedureAttempt
  fields,  \* result of T05
  http,    \* result of T06
  nas,     \* result of T07
  pfcp,    \* result of T08
  missing, \* result of T09
  cursor,  \* the cursor a reader of the timeline holds
  pages    \* the timeline of its first page, and what it was given so far

results == <<fields, http, nas, pfcp, missing>>
diagnosticVars == <<pc, runs, catalog, attempt, results, cursor, pages>>
vars == <<normalizeVars, diagnosticVars>>

\* (frame, event_id); an event id is as good an order as its hash.
Before(e, f) ==
  \/ e.frame < f.frame
  \/ e.frame = f.frame /\ e.id[1] < f.id[1]
  \/ e.frame = f.frame /\ e.id[1] = f.id[1] /\ e.id[2] < f.id[2]

Earliest(S) == CHOOSE e \in S : \A f \in S \ {e} : Before(e, f)
Latest(S) == CHOOSE e \in S : \A f \in S \ {e} : Before(f, e)
Of(protocols) == {e \in attempt.events : e.protocol \in protocols}

\* _candidate_from_event; `words` are the words T09 compares with a stage.
Candidate(detector, category, event, related, explicit, words) ==
  [detector |-> detector, category |-> category, frame |-> event.frame,
   events |-> {e.id : e \in related}, explicit |-> explicit, words |-> words]

-----------------------------------------------------------------------------
(* T06 *)

Transactions(S) == {{e \in S : e.rec.key = k} : k \in {e.rec.key : e \in S}}

Answered(G) == {e \in G : e.rec.status # None}

\* Fault-injection variant: the last document of the stream decides.
HttpStatusOfLast(G) == Latest(G).rec.status

\* The last answer; a later document of the same stream may have none.
HttpStatus(G) == IF Answered(G) = {} THEN None ELSE Latest(Answered(G)).rec.status

Representative(G) == IF Answered(G) = {} THEN Latest(G) ELSE Latest(Answered(G))

\* The states as T01 names them; "truncated_capture" is none of the names
\* the code asks for, the least state stands for the rest.
CompletionState(G) ==
  LET states == {e.rec.state : e \in G} IN
  IF "reset" \in states THEN "reset"
  ELSE IF HttpStatus(G) # None /\ \E e \in G : e.rec.method # None THEN "complete"
  ELSE IF "request_only" \in states THEN "request_only"
  ELSE LET inOrder == SelectSeq(<<"complete", "incomplete", "response_only",
                                  "truncated_capture">>, LAMBDA s : s \in states)
       IN Head(inOrder)

IncompleteCategory(state, reason) ==
  IF state = "reset" THEN "http_reset"
  ELSE IF state # "response_only"
          /\ (state = "request_only" \/ reason \in {"response_timeout", "idle_timeout"})
    THEN "http_timeout" ELSE "http_incomplete_capture"

Failed(G) == HttpStatus(G) # None /\ HttpStatus(G) >= 400
FailedOrIncomplete(G) == Failed(G) \/ CompletionState(G) # "complete"

HttpCandidate(G) ==
  IF Failed(G)
    THEN Candidate("T06", "http_status_failure", Representative(G), G, TRUE, {})
    ELSE LET c == IncompleteCategory(CompletionState(G), attempt.reason)
         IN Candidate("T06", c, Representative(G), G, FALSE, {})

\* Transactions of one method and path, one of which failed before the last.
RetryGroups(T) ==
  LET Signature(G) == LET f == {e \in G : e.rec.method # None}
                      IN IF f = {} THEN None ELSE <<Earliest(f).rec.method, Earliest(f).rec.path>>
      Bucket(G) == {H \in T : Signature(H) = Signature(G)}
      Precedes(G, H) == Before(Representative(G), Representative(H))
  IN {UNION Bucket(G) : G \in {H \in T : /\ FailedOrIncomplete(H)
                                         /\ \E J \in Bucket(H) : Precedes(H, J)}}

\* The code names the services of the NRF and the UDR itself; no event has the
\* NF types that it also asks for.
Suspected(G) ==
  \E e \in G : InferSbiApi(e.rec.path) \in {"nnrf-nfm", "nnrf-disc", "nudr-dr"}

HttpResult ==
  LET T == Transactions(Of({"HTTP2"}))
      bad == {G \in T : FailedOrIncomplete(G)}
  IN [candidates |-> {HttpCandidate(G) : G \in bad},
      retries |-> RetryGroups(T),
      suspicions |-> {G \in bad : Suspected(G)}]

-----------------------------------------------------------------------------
(* T07 *)

Says(e, words) == Words[e.type] \cap words # {}

\* Without a visible cause a message is never a failure.
CauseClass(e) ==
  IF /\ e.outcome = "success" \/ Says(e, {"ACCEPT", "COMPLETE"})
     /\ ~Says(e, {"REJECT", "FAIL", "UNSUCCESSFUL"})
    THEN "success"
  ELSE IF e.cause = None THEN "unknown"
  ELSE IF e.cause \in SuccessCauses THEN "success" ELSE "failure"

NasNgapCandidate(e) ==
  Candidate("T07", IF Says(e, {"PAGING"}) THEN "reachability_failure" ELSE "nas_ngap_failure",
            e, {e}, TRUE, Words[e.type])

\* Terminal effects are noted in the loop that finds the candidates: one of the
\* same or an earlier event makes an effect a possible consequence.
NasNgapResult ==
  LET S == Of({"NAS", "NGAP"})
      failures == {e \in S : CauseClass(e) = "failure"}
      answered == \E e \in S : Says(e, {"ACCEPT", "COMPLETE", "REJECT"})
      terminal == {e \in S : \/ Says(e, {"RELEASE", "DEREGISTRATION"})
                             \/ CauseClass(e) # "unknown" /\ e.type \in Terminals}
  IN [candidates |-> {NasNgapCandidate(e) : e \in failures},
      request_only |-> IF answered THEN {} ELSE
                         {e.id : e \in {f \in S : Says(f, {"REQUEST"}) \/ f.type = "INITIAL_UE_MESSAGE"}},
      effects |-> {[event |-> e.id, frame |-> e.frame,
                    downstream |-> \E f \in failures : f = e \/ Before(f, e)] : e \in terminal}]

-----------------------------------------------------------------------------
(* T08 *)

\* An answer that names its request has a key of its own; without the name,
\* the sequence and the SEID of the header, which is the receiver's.
PfcpKey(e) ==
  IF e.rec.response_to # None THEN <<"response_to", e.rec.response_to>>
  ELSE <<e.rec.pair, e.rec.seq, e.rec.seid>>

PfcpCauseClass(e) ==
  IF e.cause \in PfcpSuccess THEN "success"
  ELSE IF e.cause \in PfcpFailure THEN "failure" ELSE "unknown"

PfcpOutcomeOf(G) ==
  LET classes == {PfcpCauseClass(e) : e \in G} IN
  IF "failure" \in classes THEN "failure"
  ELSE IF "success" \in classes /\ \E e \in G : Says(e, {"RESPONSE"})
    THEN "success" ELSE "unknown"

PfcpFailureEvent(G) == Latest({e \in G : PfcpCauseClass(e) = "failure"})

PfcpResult ==
  LET S == Of({"PFCP"})
      groups == {{e \in S : PfcpKey(e) = k} : k \in {PfcpKey(e) : e \in S}}
      failed == {G \in groups : PfcpOutcomeOf(G) = "failure"}
      reports == {e \in S : Says(e, {"REPORT"}) /\ PfcpCauseClass(e) = "failure"}
      Named(category, e) == Candidate("T08", category, e, {e}, TRUE, {})
  IN [candidates |-> {Named("pfcp_failure", PfcpFailureEvent(G)) : G \in failed}
                     \cup {Named("pfcp_session_report_failure", e) : e \in reports},
      transactions |-> groups,
      unanswered |-> {Latest(G).id : G \in {H \in groups : PfcpOutcomeOf(H) = "unknown"}}]

-----------------------------------------------------------------------------
(* T09 *)

\* T04's transitions: the first event of the attempt that matches a stage.
Matching(s) == {e \in attempt.events : e.type \in s.messages}
Observed(s) == Matching(s) # {}
Transition(s) == Earliest(Matching(s))

Facts == [completion_reason |-> attempt.reason, initiator |-> "UE"]

Applicability(s) ==
  IF s.condition = None THEN "yes"
  ELSE IF s.condition.fact \notin DOMAIN Facts THEN "unknown"
  ELSE IF Facts[s.condition.fact] = s.condition.value THEN "yes" ELSE "no"

StartFrame == Min({e.frame : e \in attempt.events})
EndFrame == Max({e.frame : e \in attempt.events})

\* The time of a stage runs from the last of its predecessors that was seen.
Anchor(s) ==
  LET before == {Transition(p) : p \in {q \in Range(Stage) : q.id \in s.after /\ Observed(q)}}
  IN IF before = {} THEN StartFrame ELSE Latest(before).frame

\* A stage is late if the attempt outlasts its time-out, whenever it came.
DeadlineMissed(s) ==
  LET deadline == IF EndFrame - Anchor(s) <= s.timeout THEN EndFrame ELSE Anchor(s)
  IN s.timeout # None /\ Transition(s).frame > deadline

Explicit == http.candidates \cup nas.candidates \cup pfcp.candidates

Related(s) == {c \in Explicit : /\ s.words \subseteq c.words
                                /\ StartFrame <= c.frame /\ c.frame <= EndFrame}

\* Fault-injection variant: a terminal stage is taken for the request's duplicate.
DuplicateAnyTerminal(s) ==
  (s.success \/ s.failure) /\ nas.request_only # {}

\* A request without an answer already speaks for a terminal stage.
Duplicate(s) == s.failure /\ ~s.success /\ nas.request_only # {}

\* Fault-injection variant: only what is missing blocks what follows.
BlocksMissingOnly(verdict) == verdict = "missing"

Blocks(verdict) == verdict # "completed"

\* A predecessor that has no verdict yet is not reached either.
PredecessorMissed(i, v) ==
  \E p \in Stage[i].after : \A j \in 1 .. i - 1 : Stage[j].id = p => Blocks(v[j])

\* The verdict on a stage after those before it, in the order of the tests.
Verdict(i, v) ==
  LET s == Stage[i] IN
  IF Observed(s) THEN "completed"
  ELSE IF Applicability(s) = "no" THEN "inapplicable"
  ELSE IF Applicability(s) = "unknown" THEN "fact_unknown"
  ELSE IF PredecessorMissed(i, v) THEN "predecessor_not_reached"
  ELSE IF s.optional THEN "optional"
  ELSE IF ~(s.needs \subseteq attempt.visible) THEN "invisible"
  ELSE IF attempt.incomplete THEN "truncated"
  ELSE IF Related(s) # {} THEN "explained"
  ELSE IF Duplicate(s) THEN "duplicate" ELSE "missing"

Verdicts == LET v[i \in DOMAIN Stage] == Verdict(i, v) IN v

MissingCandidate(i) ==
  [detector |-> "T09", category |-> "missing_transition", frame |-> EndFrame,
   events |-> {}, explicit |-> FALSE, words |-> Stage[i].words]

MissingResult ==
  LET v == Verdicts
      absent == {i \in DOMAIN Stage : v[i] = "missing"}
  IN [stages |-> v,
      late |-> {i \in DOMAIN Stage : v[i] = "completed" /\ DeadlineMissed(Stage[i])},
      absent |-> absent,
      candidates |-> {MissingCandidate(i) : i \in absent}]

-----------------------------------------------------------------------------
(* T10 *)

\* What is shown, kind by kind: a frame and what stands there.
Shown ==
  <<{<<e.frame, e.id>> : e \in attempt.events},
    {<<StartFrame, f>> : f \in fields},
    {<<Transition(s).frame, s.id>> : s \in {q \in Range(Stage) : Observed(q)}},
    {<<c.frame, <<c.detector, c.category, c.events>> >> : c \in Explicit},
    {<<EndFrame, Stage[i].id>> : i \in missing.absent}>>

\* By frame; the items of one frame stay in some order, here by kind.
InOrder(shown, last) ==
  LET Row(f, k) == SetToSeq({<<k, i>> : i \in {j \in shown[k] : j[1] = f}})
  IN FlattenSeq([f \in 1 .. last |-> FlattenSeq([k \in 1 .. Len(shown) |-> Row(f, k)])])

Timeline == InOrder(Shown, EndFrame)

\* The revision covers the items and the results they come from.
Revision == <<attempt, results>>

\* Fault-injection variant: a cursor is good for every revision of the attempt.
AuthenticCursorAnyRevision(c, limit) == c # None => c.limit = limit

\* The key of a cursor depends on the revision, its digest on the page size.
AuthenticCursor(c, limit) ==
  c # None => c.revision = Revision /\ c.limit = limit

\* Fault-injection variant: a full last page also gets a cursor.
NextCursorAlsoAtEnd(next, limit, n) ==
  IF next <= n THEN [revision |-> Revision, limit |-> limit, offset |-> next] ELSE None

NextCursor(next, limit, n) ==
  IF next < n THEN [revision |-> Revision, limit |-> limit, offset |-> next] ELSE None

-----------------------------------------------------------------------------
NoPages == [timeline |-> << >>, items |-> << >>]

DiagnosticsInit ==
  /\ pc = "normalize" /\ runs = 0 /\ catalog = {}
  /\ attempt = None /\ fields = {} /\ http = None /\ nas = None /\ pfcp = None
  /\ missing = None /\ cursor = None /\ pages = NoPages

Init == NormalizeInit /\ DiagnosticsInit

NormalizeStep ==
  /\ pc = "normalize" /\ Normalize
  /\ UNCHANGED diagnosticVars

\* Every PFCP event of the capture, attempts or no attempts.
BuildPfcpCatalog ==
  /\ pc = "normalize" /\ source = "closed"
  /\ catalog' = {[event |-> e.id, state |-> IF e.rec.heartbeat THEN "heartbeat"
                                             ELSE "session_signaling"] :
                   e \in {f \in Partition("primary") : f.protocol = "PFCP"}}
  /\ pc' = "segment"
  /\ UNCHANGED <<normalizeVars, runs, attempt, results, cursor, pages>>

\* T04: an attempt is its trigger and later primary events.
Segment ==
  /\ pc \in {"segment", "timeline"} /\ runs < MaxRuns
  /\ runs > 0 => Len(log) <= RerunRecords
  /\ \E trigger \in Partition("primary") :
       /\ trigger.type \in Triggers
       /\ LET later == {e \in Partition("primary") : Before(trigger, e)} IN
          \E S \in SUBSET later, reason \in Reasons, sight \in Sights :
            /\ Cardinality(later \ S) <= MaxForeign
            /\ attempt' = [events |-> {trigger} \cup S, reason |-> reason,
                           incomplete |-> sight.incomplete, visible |-> sight.visible]
  /\ pc' = "request" /\ runs' = runs + 1
  /\ UNCHANGED <<normalizeVars, catalog, results, cursor, pages>>

GetUeRequest ==
  /\ pc = "request"
  /\ fields' = {"access_type", "request_type", "release_origin"}
               \cup {"registration_type" : e \in {f \in attempt.events : Says(f, {"REGISTRATION"})}}
  /\ pc' = "T06"
  /\ UNCHANGED <<normalizeVars, runs, catalog, attempt, http, nas, pfcp, missing, cursor, pages>>

FindHttpFailures ==
  /\ pc = "T06" /\ http' = HttpResult /\ pc' = "T07"
  /\ UNCHANGED <<normalizeVars, runs, catalog, attempt, fields, nas, pfcp, missing, cursor, pages>>

FindNasNgapFailures ==
  /\ pc = "T07" /\ nas' = NasNgapResult /\ pc' = "T08"
  /\ UNCHANGED <<normalizeVars, runs, catalog, attempt, fields, http, pfcp, missing, cursor, pages>>

FindPfcpFailures ==
  /\ pc = "T08" /\ pfcp' = PfcpResult /\ pc' = "T09"
  /\ UNCHANGED <<normalizeVars, runs, catalog, attempt, fields, http, nas, missing, cursor, pages>>

DetectMissingTransitions ==
  /\ pc = "T09" /\ missing' = MissingResult /\ pc' = "timeline"
  /\ UNCHANGED <<normalizeVars, runs, catalog, attempt, fields, http, nas, pfcp, cursor, pages>>

Smaller(a, b) == IF a < b THEN a ELSE b

\* One page, from the start or from the cursor of the page before it.
GetAttemptTimeline(c, asked) ==
  LET limit == Smaller(asked, ModeCap)
      items == Timeline
      offset == IF c = None THEN 0 ELSE c.offset
      page == SubSeq(items, offset + 1, Smaller(offset + limit, Len(items)))
      next == offset + Len(page)
  IN /\ pc = "timeline" /\ AuthenticCursor(c, limit)
     /\ pages' = IF c = None THEN [timeline |-> items, items |-> page]
                ELSE [pages EXCEPT !.items = @ \o page]
     /\ cursor' = NextCursor(next, limit, Len(items))
     /\ UNCHANGED <<normalizeVars, pc, runs, catalog, attempt, results>>

\* Any other cursor is an error: the reader must begin again.
RejectCursor(asked) ==
  /\ pc = "timeline" /\ ~AuthenticCursor(cursor, Smaller(asked, ModeCap))
  /\ cursor' = None /\ pages' = NoPages
  /\ UNCHANGED <<normalizeVars, pc, runs, catalog, attempt, results>>

Next ==
  \/ NormalizeStep \/ BuildPfcpCatalog \/ Segment \/ GetUeRequest
  \/ FindHttpFailures \/ FindNasNgapFailures \/ FindPfcpFailures \/ DetectMissingTransitions
  \/ \E asked \in Limits : \/ \E c \in {None, cursor} : GetAttemptTimeline(c, asked)
                           \/ RejectCursor(asked)

Spec == Init /\ [][Next]_vars

-----------------------------------------------------------------------------
TypeOK ==
  /\ NormalizeTypeOK
  /\ pc \in {"normalize", "segment", "request", "T06", "T07", "T08", "T09", "timeline"}
  /\ runs \in 0 .. MaxRuns
  /\ {c.event : c \in catalog} \subseteq {e.id : e \in Partition("primary")}
  /\ attempt # None => attempt.events \subseteq Partition("primary")
  /\ pc = "timeline" => missing.absent \subseteq DOMAIN Stage
  /\ cursor # None => cursor.offset \in 0 .. Len(pages.timeline) - 1

Done(tool) ==
  LET Place(t) == CHOOSE n \in 1 .. 8 :
                    t = <<"normalize", "segment", "request", "T06", "T07", "T08", "T09", "timeline">>[n]
  IN Place(pc) > Place(tool)

\* An HTTP failure that T02 saw is an explicit candidate of T06 that cites it,
\* whatever other documents the stream has left (find_http_failures,
\* _http_status against _http2_outcome).
NoFailureMasked ==
  Done("T06") =>
    \A e \in Of({"HTTP2"}) : e.outcome = "failure" =>
      \E c \in http.candidates : c.explicit /\ e.id \in c.events

\* T06 suspects a dependency only where T02 was unsure where the service
\* belongs: what the policy lists never reaches the detector
\* (_dependency_suspicion_reason against _route_event).
SuspicionsUnsure ==
  Done("T06") => \A G \in http.suspicions : \E e \in G : e.partial

\* A stage of every course that succeeds: not optional, under no condition, and
\* not there for failures alone.
Awaited(s) == ~s.optional /\ s.condition = None /\ (s.failure => s.success)

\* All predecessors of the i-th stage were seen, and are listed before it.
Reached(i) ==
  \A p \in Stage[i].after : \E j \in 1 .. i - 1 : Stage[j].id = p /\ Observed(Stage[j])

\* The attempt goes on after the time-out of the stage, so the capture does too.
Overdue(s) == s.timeout # None /\ EndFrame - Anchor(s) > s.timeout

\* The i-th stage was due on a visible interface and did not come.
BrokenOff(i) ==
  LET s == Stage[i] IN
  /\ Awaited(s) /\ ~Observed(s) /\ Reached(i) /\ Overdue(s)
  /\ s.needs \subseteq attempt.visible

\* An attempt that was seen from its beginning and broke off at a stage of the
\* course ends with a candidate: the detectors and T09 leave the explanation to
\* one another, never to nobody (T09's suppressions, diagnostics.py:1252-1277).
\* The code reports the stage before it is overdue as well, which
\* T09_detect_missing_transitions.md:353 excludes; this property does not ask it.
SilenceExplained ==
  pc = "timeline" /\ ~attempt.incomplete /\ (\E i \in DOMAIN Stage : BrokenOff(i))
    => Explicit \cup missing.candidates # {}

\* One break, one blame: a stage that T09 calls missing has all its
\* predecessors, so no stage before it is missing or explained by another
\* candidate (the skipping of stages whose predecessor was not reached).
NoDoubleBlame ==
  pc = "timeline" =>
    \A i \in missing.absent, j \in DOMAIN Stage :
      Stage[j].id \in Stage[i].after => missing.stages[j] = "completed"

\* The pages of one chain of cursors are the timeline of their first page, every
\* item once and in order, also if the tools run again in between
\* (get_attempt_timeline, _decode_timeline_offset).
PagesPartition ==
  /\ pages.items = SubSeq(pages.timeline, 1, Len(pages.items))
  /\ cursor = None => pages.items = pages.timeline

\* Unsuccessful outcome PDUs are failures (T02_normalize_events.md:479-481), and
\* T07 reports an NGAP failure that shows its cause.
NgapFailuresReported ==
  Done("T07") =>
    \A e \in Of({"NGAP"}) : e.rec.class = "unsuccessfulOutcome" /\ e.cause # None =>
      \E c \in nas.candidates : e.id \in c.events
=============================================================================
