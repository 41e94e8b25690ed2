--------------------------- MODULE SegmentAttempts ---------------------------
(***************************************************************************)
(* Stage T04, segment_attempts (harness/attempts.py): the canonical events *)
(* of a capture, in the order of their frames, are grouped into procedure  *)
(* attempts.                                                               *)
(*                                                                         *)
(* For each event the loop first times out the open attempts that have     *)
(* been silent for too long, then opens an attempt if the event triggers a *)
(* procedure, or else gives the event to the open attempt that scores      *)
(* highest, which may thereby reach its end.  What is open when the        *)
(* capture ends is timed out or incomplete; then parents and children,     *)
(* transfers and supersessions are worked out over all attempts.           *)
(*                                                                         *)
(* An event is its message kind, the identity nodes T03 found for it and   *)
(* the identifiers it carries; profile matchers are sets of kinds.  An     *)
(* attempt is named by the position of its trigger in the log: there is at *)
(* most one per event.  Its UUID is a hash, of which only the order among  *)
(* attempts matters (rank).  Scores are in hundredths.  Stage timings,     *)
(* visibility and confidence labels are left out.                          *)
(***************************************************************************)
EXTENDS Integers, Sequences, FiniteSets, SequencesExt, Lists

CONSTANTS
  Event,      \* the events T02 and T03 may deliver, without their position
  Step,       \* how far one event is from the next: frames, seconds, stamped
  Profile,    \* procedure profiles of the resolved registry
  Registry,   \* Profile -> what the profile declares
  Limits,     \* AttemptSegmentationConfig
  Ranks,      \* the possible orders of the attempts' UUIDs
  MaxEvents,  \* bound: events of the capture
  None        \* an identity or an identifier that is missing, or no time

VARIABLES
  log,         \* the events handled so far, with frame and time
  clock,       \* the capture's latest packet: frame, second, time stamp if it has one
  attempt,     \* the attempts by trigger position
  open,        \* open_attempts, in the order they were opened
  completed,   \* completed, in the order they were completed
  unassigned,  \* unassigned_events.jsonl
  ambiguous,   \* ambiguous_assignments.jsonl: event and tied attempts
  relations,   \* relationships.jsonl
  phase,       \* reading events, closing what is open, done
  rank         \* the order of the attempts' UUIDs

vars == <<log, clock, attempt, open, completed, unassigned, ambiguous, relations,
          phase, rank>>

Position == 1 .. MaxEvents

Outcome == {"open", "succeeded", "failed", "aborted", "timed_out", "incomplete_capture"}

Attempt ==
  [profile : Profile, parent : Position \cup {0}, children : SUBSET Position,
   events : Seq(Position), stages : SUBSET Nat, outcome : Outcome, number : Nat]

Relation ==
  [kind : {"parent_child", "retry_of", "supersedes", "access_transfer"},
   left : Position, right : Position]

\* What a profile declares; stages are in the order of (order, stage_id).
\* UUIDs and profile ids are all different.
ASSUME AttemptAssumption ==
  /\ MaxEvents \in Nat
  /\ \A s \in Step : s.frames \in Nat /\ s.seconds \in Nat /\ s.stamped \in BOOLEAN
  /\ \A r \in Ranks : r \in [Position -> Int] /\ IsInjective(r)
  /\ IsFiniteSet(Profile)
  /\ \A p, q \in Profile : Registry[p].id = Registry[q].id => p = q
  /\ \A p \in Profile :
       /\ Registry[p].id \in Nat /\ Registry[p].initial \in BOOLEAN
       /\ Registry[p].timeout \in Nat \cup {None} /\ Registry[p].window \in Nat \cup {None}
       /\ Registry[p].parents \subseteq Profile /\ Registry[p].from \subseteq Profile
       /\ Registry[p].closes \subseteq Profile /\ DOMAIN Registry[p].stages \subseteq Nat
  /\ Limits.confidence \in 0 .. 100 /\ Limits.perUE \in Nat \ {0}
  /\ Limits.idleSeconds \in Nat /\ Limits.responseSeconds \in Nat
  /\ Limits.idleFrames \in Nat \ {0} /\ Limits.responseFrames \in Nat \ {0}

TypeOK ==
  /\ \A n \in DOMAIN log :
       log[n].event \in Event /\ log[n].frame \in Nat /\ log[n].time \in Nat \cup {None}
  /\ DOMAIN attempt \subseteq DOMAIN log
  /\ \A a \in DOMAIN attempt : attempt[a] \in Attempt
  /\ open \in Seq(DOMAIN attempt)
  /\ completed \in Seq(DOMAIN attempt)
  /\ unassigned \subseteq DOMAIN log
  /\ \A x \in ambiguous : x.event \in DOMAIN log /\ x.tied \subseteq DOMAIN attempt
  /\ relations \subseteq Relation
  /\ phase \in {"reading", "closing", "done"}
  /\ rank \in Ranks

Init ==
  /\ log = << >>
  /\ clock = [frame |-> 1, second |-> 0, time |-> None]
  /\ attempt = << >>
  /\ open = << >>
  /\ completed = << >>
  /\ unassigned = {}
  /\ ambiguous = {}
  /\ relations = {}
  /\ phase = "reading"
  /\ rank \in Ranks

-----------------------------------------------------------------------------
(* Orders and comparisons.                                                 *)

\* s before t in the order of Python's tuples.
Before(s, t) ==
  \E k \in DOMAIN s : s[k] < t[k] /\ \A j \in 1 .. (k - 1) : s[j] = t[j]

\* max(S, key=Key).
Greatest(S, Key(_)) == CHOOSE a \in S : \A b \in S \ {a} : Before(Key(b), Key(a))

Same(x, y) == x # None /\ x = y

Differ(x, y) == x # None /\ y # None /\ x # y

\* The event that triggered attempt a: its identity nodes and identifiers are
\* the attempt's for as long as it is open.
Trigger(a) == log[a].event

\* Fault-injection variant: any event of the capture keeps an attempt alive.
LastEntryOfCapture(a) == Last(log)

LastEntry(a) == log[Last(attempt[a].events)]

-----------------------------------------------------------------------------
(* Time.                                                                   *)

\* The time-out of the profile's last stage, or the configured one.
ResponseSeconds(p) ==
  IF Registry[p].timeout # None THEN Registry[p].timeout ELSE Limits.responseSeconds

\* _timeout_reason_at_event: seconds if both events have a time stamp, else
\* frames; the response limit or the idle limit is exceeded.
Silent(p, from, to) ==
  IF from.time # None /\ to.time # None
    THEN \/ to.time - from.time > ResponseSeconds(p)
         \/ to.time - from.time > Limits.idleSeconds
    ELSE \/ to.frame - from.frame > Limits.responseFrames
         \/ to.frame - from.frame > Limits.idleFrames

\* _response_timeout_reached, at the end of the capture.
SilentAtEnd(p, from) ==
  IF clock.time # None /\ from.time # None
    THEN clock.time - from.time > ResponseSeconds(p)
    ELSE clock.frame - from.frame > Limits.responseFrames

-----------------------------------------------------------------------------
(* Opening and scoring.                                                    *)

Points(condition, n) == IF condition THEN n ELSE 0

\* _profile_candidates: the score of profile p for a trigger e.
TriggerScore(p, e) ==
  80 + Points(Registry[p].initial /\ e.nas, 10) + Points(e.pdu # None, 5)

Candidates(e) == {p \in Profile : e.kind \in Registry[p].triggers}

Selected(e) ==
  Greatest(Candidates(e), LAMBDA p : <<TriggerScore(p, e), Registry[p].id>>)

\* _assignment_score of event e, in frame f, for attempt a.
Score(a, e, f) ==
  LET t == Trigger(a)
      sum == Points(Same(t.ue, e.ue), 35) + Points(Same(t.ctx, e.ctx), 25)
             + Points(Same(t.session, e.session), 20) + Points(Same(t.pdu, e.pdu), 15)
             + Points(Same(t.amf, e.amf), 10) + Points(Same(t.ran, e.ran), 10)
             + Points(f >= LastEntry(a).frame, 5)
  IN  IF Differ(t.ctx, e.ctx) THEN 0 ELSE IF sum > 100 THEN 100 ELSE sum

\* _open_attempt_count_for_scope
OpenInScope(alive, e) ==
  Cardinality({a \in alive :
    IF e.ue # None THEN Trigger(a).ue = e.ue
    ELSE IF e.ctx # None THEN Trigger(a).ctx = e.ctx
    ELSE Trigger(a).ue = None /\ Trigger(a).ctx = None})

\* _matching_open_attempt: the event is a repetition for an open attempt.
Repeats(alive, e, f) ==
  \E a \in alive :
    /\ attempt[a].profile = Selected(e)
    /\ ~ Differ(Trigger(a).ctx, e.ctx)
    /\ Score(a, e, f) >= 90

\* Does event e open an attempt?
Opens(alive, e, f) ==
  /\ Candidates(e) # {}
  /\ OpenInScope(alive, e) < Limits.perUE
  /\ ~ Repeats(alive, e, f)
  /\ TriggerScore(Selected(e), e) >= Limits.confidence

\* Fault-injection variant: any score will do.
OwnersAboveZero(alive, e, f) ==
  {a \in alive : /\ Score(a, e, f) > 0
                 /\ \A b \in alive : Score(b, e, f) <= Score(a, e, f)}

\* The open attempts with the highest score, if it reaches the threshold.
Owners(alive, e, f) ==
  {a \in alive : /\ Score(a, e, f) > 0 /\ Score(a, e, f) >= Limits.confidence
                 /\ \A b \in alive : Score(b, e, f) <= Score(a, e, f)}

\* The candidates that share the highest score, be it enough or not.
Tied(alive, e, f) ==
  {a \in alive : /\ Score(a, e, f) > 0
                 /\ \A b \in alive : Score(b, e, f) <= Score(a, e, f)}

\* _attach_open_parent: the open attempts that may be the parent of one that
\* e triggers.
OpenParents(alive, p, e) ==
  {a \in alive :
     /\ attempt[a].profile \in Registry[p].parents
     /\ ~ Differ(Trigger(a).ue, e.ue)
     /\ ~ Differ(Trigger(a).session, e.session)
     /\ ~ Differ(Trigger(a).ctx, e.ctx)}

\* _open_attempt and _attach_open_parent: the attempts with one triggered by
\* the n-th event.
WithNew(attempts, alive, n, e) ==
  LET p == Selected(e)
      parents == OpenParents(alive, p, e)
      parent == IF parents = {} THEN 0
                ELSE Greatest(parents, LAMBDA a : <<log[a].frame, rank[a]>>)
      new == [profile |-> p, parent |-> parent, children |-> {}, events |-> << >>,
              stages |-> {}, outcome |-> "open", number |-> 0]
  IN  [a \in DOMAIN attempts \cup {n} |->
         IF a = n THEN new
         ELSE IF a = parent THEN [attempts[a] EXCEPT !.children = @ \cup {n}]
         ELSE attempts[a]]

-----------------------------------------------------------------------------
(* Advancing and closing.                                                  *)

\* The stages of profile p that a message completes, of which those in
\* passed are complete already.
Completes(p, passed, kind) ==
  {k \in DOMAIN Registry[p].stages :
     LET stage == Registry[p].stages[k] IN
     kind \in stage.on /\ (k \notin passed \/ stage.repeatable)}

\* Fault-injection variant: the reason is recorded as the outcome.
VerdictReason(p, passed, kind) ==
  IF kind \in Registry[p].success THEN "success_terminal"
  ELSE IF kind \in Registry[p].failure THEN "failure_terminal" ELSE "open"

\* _advance_attempt: the last terminal stage decides, failure over success;
\* without one the terminals of the profile do, success first.
Verdict(p, passed, kind) ==
  LET def == Registry[p]
      deciding == {k \in Completes(p, passed, kind) :
                     def.stages[k].success \/ def.stages[k].failure}
  IN  IF deciding # {}
        THEN IF def.stages[Greatest(deciding, LAMBDA k : <<k>>)].failure
               THEN "failed" ELSE "succeeded"
      ELSE IF kind \in def.success THEN "succeeded"
      ELSE IF kind \in def.failure THEN "failed"
      ELSE IF kind \in def.abort THEN "aborted"
      ELSE "open"

\* Fault-injection variant: the parent takes the event as well.
WithEventShared(attempts, a, n, e) ==
  [attempts EXCEPT ![a].events = Append(@, n),
                   ![IF attempts[a].parent = 0 THEN a ELSE attempts[a].parent].events = Append(@, n),
                   ![a].stages = @ \cup Completes(attempts[a].profile, @, e.kind),
                   ![a].outcome = Verdict(attempts[a].profile, attempts[a].stages, e.kind)]

\* _assign_event and _advance_attempt: attempt a takes the n-th event.
WithEvent(attempts, a, n, e) ==
  [attempts EXCEPT ![a].events = Append(@, n),
                   ![a].stages = @ \cup Completes(attempts[a].profile, @, e.kind),
                   ![a].outcome = Verdict(attempts[a].profile, attempts[a].stages, e.kind)]

\* retry_key: profile, UE and session.
SameRetryKey(a, b) ==
  /\ attempt'[a].profile = attempt'[b].profile
  /\ log'[a].event.ue = log'[b].event.ue
  /\ log'[a].event.session = log'[b].event.session

\* Fault-injection variant: any attempt with the key that did not succeed is
\* retried, not only the last.
RetriesOfAll ==
  {[kind |-> "retry_of", left |-> completed'[x[1]], right |-> completed'[x[2]]] :
     x \in {y \in ((Len(completed) + 1) .. Len(completed')) \X (1 .. Len(completed')) :
       /\ y[2] < y[1]
       /\ SameRetryKey(completed'[y[1]], completed'[y[2]])
       /\ attempt'[completed'[y[2]]].outcome # "succeeded"}}

\* _attach_retry_relationship for the attempts that complete in this step: each
\* retries the last one with its key that completed before it, unless that one
\* succeeded or ended too long ago.
Retries ==
  {[kind |-> "retry_of", left |-> completed'[x[1]], right |-> completed'[x[2]]] :
     x \in {y \in ((Len(completed) + 1) .. Len(completed')) \X (1 .. Len(completed')) :
       LET a == completed'[y[1]]
           b == completed'[y[2]]
           end == log'[Last(attempt'[b].events)].time
           start == log'[a].time
           window == Registry[attempt'[a].profile].window
       IN  /\ y[2] < y[1]
           /\ SameRetryKey(a, b)
           /\ \A m \in (y[2] + 1) .. (y[1] - 1) : ~ SameRetryKey(a, completed'[m])
           /\ attempt'[b].outcome # "succeeded"
           /\ ~ (window # None /\ end # None /\ start # None /\ start - end > window)}}

\* Fault-injection variant: what has ended stays among the open attempts.
CloseKeepsOpen(attempts, alive, ended) ==
  /\ attempt' = attempts
  /\ open' = alive
  /\ completed' = completed \o ended
  /\ relations' = relations \cup Retries

\* _complete_open_attempt for the attempts of the sequence ended.
Close(attempts, alive, ended) ==
  /\ attempt' = attempts
  /\ open' = Keep(alive, ToSet(alive) \ ToSet(ended))
  /\ completed' = completed \o ended
  /\ relations' = relations \cup Retries

-----------------------------------------------------------------------------
(* One pass of the loop over the events.                                   *)

\* The packet that is s away from the latest one.
Tick(s) ==
  clock' = [frame |-> clock.frame + s.frames, second |-> clock.second + s.seconds,
            time |-> IF s.stamped THEN clock.second + s.seconds ELSE None]

\* The event e goes to the attempt owner, opened by it or open before; the
\* attempts of expired have timed out.
Give(e, owner, attempts, alive, expired) ==
  LET n == Len(log) + 1
      given == WithEvent(attempts, owner, n, e)
  IN  Close(given, alive,
            IF given[owner].outcome = "open" THEN expired ELSE Append(expired, owner))

\* The rest of the pass once the attempts of expired have timed out.
Handle(e, expired) ==
  LET n == Len(log) + 1
      f == clock'.frame
      active == ToSet(open) \ expired
      alive == Keep(open, active)
      ended == Keep(open, expired)
      late == [a \in DOMAIN attempt |->
                 IF a \in expired THEN [attempt[a] EXCEPT !.outcome = "timed_out"]
                                  ELSE attempt[a]]
  IN  \/ /\ Opens(active, e, f)
         /\ Give(e, n, WithNew(late, active, n, e), Append(alive, n), ended)
         /\ UNCHANGED <<unassigned, ambiguous>>
      \/ /\ ~ Opens(active, e, f)
         /\ ambiguous' = IF Cardinality(Tied(active, e, f)) > 1
                           THEN ambiguous \cup {[event |-> n, tied |-> Tied(active, e, f)]}
                           ELSE ambiguous
         /\ \/ /\ Owners(active, e, f) = {}
               /\ unassigned' = unassigned \cup {n}
               /\ Close(late, alive, ended)
            \/ \E owner \in Owners(active, e, f) :
                 /\ \A b \in Owners(active, e, f) : rank[b] <= rank[owner]
                 /\ Give(e, owner, late, alive, ended)
                 /\ UNCHANGED unassigned

\* The next event of the primary reader.
Receive(e, s) ==
  /\ phase = "reading"
  /\ Len(log) < MaxEvents
  /\ Tick(s)
  /\ log' = Append(log, [event |-> e, frame |-> clock'.frame, time |-> clock'.time])
  /\ \E expired \in SUBSET ToSet(open) :
       /\ \A a \in ToSet(open) :
            a \in expired <=> Silent(attempt[a].profile, LastEntry(a), clock')
       /\ Handle(e, expired)
  /\ UNCHANGED <<phase, rank>>

-----------------------------------------------------------------------------
(* The end of the capture.                                                 *)

\* The last packet of the capture need not be an event.
EndOfCapture(s) ==
  /\ phase = "reading"
  /\ Tick(s)
  /\ phase' = "closing"
  /\ UNCHANGED <<log, attempt, open, completed, unassigned, ambiguous, relations, rank>>

\* The loop over what is still open, in the order of (start frame, UUID).
CloseRemaining ==
  /\ phase = "closing"
  /\ open # << >>
  /\ LET a == Greatest(ToSet(open), LAMBDA b : << - log[b].frame, - rank[b]>>)
         outcome == IF SilentAtEnd(attempt[a].profile, LastEntry(a))
                      THEN "timed_out" ELSE "incomplete_capture"
     IN  /\ UNCHANGED <<log, clock, unassigned, ambiguous, phase, rank>>
         /\ Close([attempt EXCEPT ![a].outcome = outcome], open, <<a>>)

Start(a) == log[a].frame
End(a) == LastEntry(a).frame

\* The attempts that may be the nearest prior one of a, and the nearest.
Prior(a, profiles) ==
  {b \in DOMAIN attempt \ {a} :
     /\ attempt[b].profile \in profiles
     /\ Start(b) <= Start(a)
     /\ ~ Differ(Trigger(a).ue, Trigger(b).ue)
     /\ ~ Differ(Trigger(a).session, Trigger(b).session)}

Nearest(attempts) == Greatest(attempts, LAMBDA b : <<End(b), Start(b), rank[b]>>)

\* The parent found while both were open, or the nearest overlapping attempt.
InferredParent(a) ==
  LET overlapping == {b \in Prior(a, Registry[attempt[a].profile].parents) : End(b) >= Start(a)}
  IN  IF attempt[a].parent # 0 \/ overlapping = {} THEN attempt[a].parent
      ELSE Nearest(overlapping)

\* The attempt from whose access a has moved.
Transfers(a) ==
  LET prior == {b \in Prior(a, Registry[attempt[a].profile].from) :
                  Differ(Trigger(a).ctx, Trigger(b).ctx)}
  IN  IF prior = {} THEN {} ELSE {Nearest(prior)}

\* The latest attempt of each profile that a closes.
Supersedes(a) ==
  UNION {LET prior == {b \in Prior(a, {p}) : ~ Differ(Trigger(a).ctx, Trigger(b).ctx)}
         IN  IF prior = {} THEN {} ELSE {Nearest(prior)} :
         p \in Registry[attempt[a].profile].closes}

\* _apply_sequence_numbers
SequenceNumber(a) ==
  1 + Cardinality({b \in DOMAIN attempt :
        /\ Trigger(b).ue = Trigger(a).ue
        /\ Registry[attempt[b].profile].type = Registry[attempt[a].profile].type
        /\ Before(<<Start(b), rank[b]>>, <<Start(a), rank[a]>>)})

\* _append_relationship: a record for each attempt and each of its targets.
Links(kind, targets) ==
  UNION {{[kind |-> kind, left |-> a, right |-> b] : b \in targets[a]} : a \in DOMAIN targets}

\* _infer_profile_relationships and _finalize_parent_child_links.
Finish ==
  /\ phase = "closing"
  /\ open = << >>
  /\ phase' = "done"
  /\ attempt' = [a \in DOMAIN attempt |->
       [attempt[a] EXCEPT
          !.parent = InferredParent(a),
          !.children = @ \cup {c \in DOMAIN attempt : InferredParent(c) = a},
          !.number = SequenceNumber(a)]]
  /\ relations' = relations
       \cup Links("access_transfer", [a \in DOMAIN attempt |-> Transfers(a)])
       \cup Links("supersedes", [a \in DOMAIN attempt |-> Supersedes(a)])
       \cup Links("parent_child", [a \in DOMAIN attempt |-> {c \in DOMAIN attempt : InferredParent(c) = a}])
  /\ UNCHANGED <<log, clock, open, completed, unassigned, ambiguous, rank>>

Next ==
  \/ \E e \in Event, s \in Step : Receive(e, s)
  \/ \E s \in Step : EndOfCapture(s)
  \/ CloseRemaining
  \/ Finish

Spec == Init /\ [][Next]_vars

-----------------------------------------------------------------------------
(* Properties.                                                             *)

\* Every event is in exactly one place: once in the event list of one attempt,
\* or among the unassigned (T04, 19.2: event lists equal the accepted
\* assignments and are free of duplicates).
EventsPartitioned ==
  \A n \in DOMAIN log :
    Cardinality({x \in (DOMAIN attempt) \X Position :
                   x[2] \in DOMAIN attempt[x[1]].events /\ attempt[x[1]].events[x[2]] = n})
      + (IF n \in unassigned THEN 1 ELSE 0) = 1

\* T04, 19.2: a closed attempt never absorbs a later event and keeps its
\* outcome, and it is closed once.
ClosedForGood ==
  [][\A k \in DOMAIN completed :
       /\ completed'[k] = completed[k]
       /\ attempt'[completed[k]].events = attempt[completed[k]].events
       /\ attempt'[completed[k]].outcome = attempt[completed[k]].outcome
       /\ completed[k] \notin ToSet(open')]_vars

\* Is the last event of attempt a one that its profile calls an end?
EndedByEvent(a) ==
  LET kind == log[Last(attempt[a].events)].event.kind
      def == Registry[attempt[a].profile]
  IN  \/ kind \in def.success \cup def.failure \cup def.abort
      \/ \E k \in DOMAIN def.stages :
           kind \in def.stages[k].on /\ (def.stages[k].success \/ def.stages[k].failure)

\* Has the capture gone on, for others, beyond a time-out of attempt a since its
\* last event?
Overdue(a) ==
  LET p == attempt[a].profile
  IN  \/ \E n \in (Last(attempt[a].events) + 1) .. Len(log) : Silent(p, LastEntry(a), log[n])
      \/ phase # "reading" /\ SilentAtEnd(p, LastEntry(a))

\* The outcome of a closed attempt is the one its events and the capture's
\* silence account for: it ended by its last event; or no end was seen and the
\* capture went on, or went on for others, beyond its time-out; or the capture
\* ended first.  None is closed early, and none is left to look incomplete.
OutcomeEarned ==
  \A a \in ToSet(completed) :
    /\ attempt[a].outcome \in {"succeeded", "failed", "aborted"} <=> EndedByEvent(a)
    /\ attempt[a].outcome = "timed_out" => Overdue(a)
    /\ attempt[a].outcome = "incomplete_capture" => ~ Overdue(a)

\* An attempt never resumes after a silence: two consecutive events of one are
\* within its time-outs of each other.
NoLongSilence ==
  \A a \in DOMAIN attempt : \A k \in 1 .. (Len(attempt[a].events) - 1) :
    ~ Silent(attempt[a].profile, log[attempt[a].events[k]], log[attempt[a].events[k + 1]])

\* max_open_attempts_per_ue bounds the open attempts of a subscriber.
OpenBound ==
  \A a \in ToSet(open) :
    Trigger(a).ue # None =>
      Cardinality({b \in ToSet(open) : Trigger(b).ue = Trigger(a).ue}) <= Limits.perUE

\* An event of one subscriber is given to an attempt of another only on the
\* very access context of that attempt: no sum of the other scores suffices.
ForeignNeedsContext ==
  \A a \in DOMAIN attempt : \A n \in ToSet(attempt[a].events) :
    Differ(Trigger(a).ue, log[n].event.ue) => Same(Trigger(a).ctx, log[n].event.ctx)

\* Retries form chains: an attempt retries at most one other and is retried by
\* at most one, both of the same profile and subscriber, and no attempt that
\* succeeded is retried, in whatever order the attempts were completed.
RetryChains ==
  \A r \in relations :
    r.kind = "retry_of" =>
      /\ attempt[r.left].profile = attempt[r.right].profile
      /\ Trigger(r.left).ue = Trigger(r.right).ue
      /\ attempt[r.right].outcome \notin {"succeeded", "open"}
      /\ \A q \in relations :
           q.kind = "retry_of" /\ (q.left = r.left \/ q.right = r.right) => q = r

\* T04, 19.2: in the end parent and child references are reciprocal, and each
\* has its relationship record.
LinksAgree ==
  phase = "done" =>
    \A a, b \in DOMAIN attempt :
      /\ attempt[b].parent = a <=> b \in attempt[a].children
      /\ attempt[b].parent = a <=>
           [kind |-> "parent_child", left |-> a, right |-> b] \in relations

\* Time-outs are kept in both directions: no attempt lives on over a silence
\* (NoLongSilence) and none is ended without one (OutcomeEarned).
TimeoutsKept == NoLongSilence /\ OutcomeEarned

\* Subscribers are kept apart, in what they are given (ForeignNeedsContext)
\* and in how much of it may be open (OpenBound).
SubscribersApart == ForeignNeedsContext /\ OpenBound

\* What T04 says of two attempts holds of both (RetryChains, LinksAgree).
RelationsSound == RetryChains /\ LinksAgree
=============================================================================
