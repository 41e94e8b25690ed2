--------------------------- MODULE DiagnosisPasses ---------------------------
(***************************************************************************)
(* The second half of the pipeline (harness/runner.py from T11 on, with    *)
(* T12, T15, T16, T24 and T25 of harness/post_analysis.py): the candidates *)
(* of every selected attempt are ranked, a packet of evidence is cut to    *)
(* its budget and shown to a model, the inspections the model asks for     *)
(* are run, and the attempts they say something about go through the same  *)
(* steps once more before the report takes what is left in the state.      *)
(*                                                                         *)
(* Scores are in hundredths.  An item of a packet is one token.            *)
(***************************************************************************)
EXTENDS Lists, FiniteSets, SequencesExt

CONSTANTS
  N,               \* the selected attempts are 1 .. N, in the order of T04
  Cases,           \* what T04 to T11 may hand over for an attempt
  Modes,           \* provider modes: "none", "local", "openrouter"
  Answers,         \* what a model behind a URL may answer
  Store,           \* the events of partitions nrf and udr, as T02 wrote them
  Checkpoints,     \* results of the scenario validation
  Cap,             \* tokens a packet may have
  MaxAlternatives, \* alternatives in an initial packet
  MaxCalls,        \* requests of one diagnosis that are followed
  None, Invented   \* no value; a candidate id of no packet

ASSUME NAssumption == N \in Nat \ {0}
ASSUME CapAssumption == Cap \in Nat
ASSUME MaxCallsAssumption == MaxCalls \in Nat
ASSUME SectionsAssumption == Checkpoints \in Nat /\ MaxAlternatives \in Nat

\* What T11 reports: the ids of the candidates of an attempt are distinct.
ASSUME CasesAssumption ==
  \A k \in Cases :
    /\ DOMAIN k = {"candidates", "effects", "divergence", "low", "incomplete", "begins",
                   "timeline", "evidence", "need"}
    /\ IsFiniteSet(k.candidates)
    /\ \A c \in k.candidates : /\ c # None /\ c.explicit \in BOOLEAN
                               /\ c.id \in Nat /\ c.base \in Int /\ c.frame \in Int
    /\ \A c, d \in k.candidates : c.id = d.id => c = d
    /\ {k.timeline, k.evidence, k.need} \subseteq Nat

ASSUME AnswersAssumption == \A w \in Answers : w.requests \in Seq(ToSet(w.requests))
ASSUME StoreAssumption == Store \in Seq(ToSet(Store)) /\ \A e \in ToSet(Store) : e.frame \in Int

Attempts == 1 .. N

VARIABLES
  mode,        \* config.provider_config.mode
  case,        \* the attempts, with their candidates, terminal effects, ...
  pc,          \* the step of run_analysis
  turn,        \* the attempt a loop is at
  roots,       \* root_causes: the primary ranking
  expanded,    \* expanded_roots
  kept,        \* state.root_cause_results
  packets,     \* the packets published on disk, by pass and attempt
  diagnoses,   \* the diagnoses, in the order the provider gave them
  reported,    \* state.diagnoses
  inspections, \* dependency_results
  outcome      \* the status of the run, "running" until the report

analysis == <<mode, case>>
ranking == <<roots, expanded, kept>>
vars == <<analysis, pc, turn, ranking, packets, diagnoses, reported, inspections, outcome>>

Least(i, j) == IF i < j THEN i ELSE j
Most(i, j) == IF i > j THEN i ELSE j

-----------------------------------------------------------------------------
(* T12.  `view` is what the ranking knows of the attempt. *)

Primary(a) == case[a]

\* The second ranking is asked without terminal effects and comparison.
Expanded(a) == [case[a] EXCEPT !.effects = {}, !.divergence = None]

When(condition, points) == IF condition THEN points ELSE 0
Clamp(points) == Most(0, Least(100, points))

Linked(c) == c.events # {} /\ c.relevance = "attempt_related"

\* _candidate_explains_terminal.  That the two share evidence ids, its third way,
\* does not happen: these are hashes that name the tool and the purpose, and
\* those of terminal effects (diagnostics.py:969) are of their own kind.
Explains(c, view) ==
  \E e \in view.effects : e.event \in c.events \/ c.component \in e.words

Diverges(c, view) == view.divergence # None /\ view.divergence \in {c.component, c.category}

Score(c, view) ==
  Clamp(Clamp(c.base)
        + When(c.explicit, 8) + When(Linked(c), 8)
        + When(Explains(c, view), 8)
        + When(Explains(c, view) /\ c.protocol \notin {"NAS", "NGAP"}, 5)
        + When(c.impact = "causal", 10) + When(c.impact = "contributing", 5)
        + When(Diverges(c, view), 10)
        - When("cleanup" \in c.marks, 30) - When("downstream" \in c.marks, 20)
        - When("recovered_retry" \in c.marks, 15) - When("contradicted" \in c.marks, 25)
        - When(view.low, 12) - When(view.incomplete, 15))

Eligible(c, view) == c.impact # "unrelated" /\ Score(c, view) >= 45

Priority(protocol) ==
  CASE protocol = "NAS" -> 0 [] protocol = "NGAP" -> 1
    [] protocol = "HTTP2" -> 2 [] protocol = "PFCP" -> 3 [] OTHER -> 99

Key(c, view) ==
  <<-Score(c, view), -When(c.explicit, 1), -When(Linked(c), 1), -When(Explains(c, view), 1),
    c.frame, Priority(c.protocol), c.id>>

Outranks(c, d, view) ==
  LET k == Key(c, view)
      l == Key(d, view)
  IN \E i \in 1 .. 7 : k[i] < l[i] /\ \A j \in 1 .. (i - 1) : k[j] = l[j]

Confidence(points) ==
  IF points >= 85 THEN "high" ELSE IF points >= 70 THEN "medium" ELSE "low"

\* The best eligible candidate is the primary one; of the others, sinks are
\* kept whatever their score and the rest within the margin of the primary.
RankRootCauses(a, pass, C, view, parent, consumed) ==
  LET E == {c \in C : Eligible(c, view)}
      best == CHOOSE c \in E : \A d \in E \ {c} : Outranks(c, d, view)
      others == {c \in E : c # best}
      sinks == {c \in others : c.marks \cap {"cleanup", "downstream"} # {}}
      near == {c \in others \ sinks : Score(best, view) - Score(c, view) <= 15}
  IN [attempt |-> a, pass |-> pass, candidates |-> C, parent |-> parent, consumed |-> consumed,
      primary |-> IF E = {} THEN None ELSE best, alternatives |-> near, downstream |-> sinks,
      confidence |-> IF E = {} THEN "inconclusive" ELSE Confidence(Score(best, view))]

\* What the hash of a ranking depends on.
Revision(root) ==
  [attempt |-> root.attempt, pass |-> root.pass,
   primary |-> IF root.primary = None THEN None ELSE root.primary.id,
   candidates |-> {c.id : c \in root.candidates}, consumed |-> root.consumed]

-----------------------------------------------------------------------------
(* T15.  `optional` counts the items of the sections that may be cut, in    *)
(* the order they are cut: dependency_evidence, timeline, scenario_results, *)
(* downstream_effects, alternatives, evidence, dependency_tools_available.  *)

Items(optional, sections) == Cardinality(UNION {{i} \X (1 .. optional[i]) : i \in sections})

\* The mandatory part grows with every dependency revision it names.
Mandatory(p) == case[p.attempt].need + p.consumed

\* Fault-injection variant: more is cut from a section than it has.
TrimTooMuch(p) ==
  LET excess == Mandatory(p) + Items(p.optional, 1 .. 7) - Cap
      Cut(i) == Most(0, excess - Items(p.optional, 1 .. (i - 1)))
  IN [p EXCEPT !.optional = [i \in 1 .. 7 |-> p.optional[i] - Cut(i)]]

\* Tail items go, section by section, until the packet fits.
Trim(p) ==
  LET excess == Mandatory(p) + Items(p.optional, 1 .. 7) - Cap
      Cut(i) == Most(0, excess - Items(p.optional, 1 .. (i - 1)))
  IN [p EXCEPT !.optional = [i \in 1 .. 7 |-> Most(0, p.optional[i] - Cut(i))]]

InitialPacket(a) ==
  LET root == roots[a] IN
  [attempt |-> a, pass |-> "primary", revision |-> Revision(root), parent |-> None,
   primary |-> root.primary, consumed |-> 0,
   optional |-> <<0, case[a].timeline, Checkpoints, Cardinality(root.downstream),
                  Least(Cardinality(root.alternatives), MaxAlternatives), case[a].evidence, 2>>]

\* Fault-injection variant: the packet keeps the revision it started from.
ExpandedPacketStale(a) ==
  [packets["primary"][a] EXCEPT !.pass = "dependency_expanded",
                                !.parent = packets["primary"][a].revision,
                                !.primary = expanded[a].primary,
                                !.consumed = Len(inspections)]

\* Fault-injection variant: the primary failure is not replaced.
ExpandedPacketOldPrimary(a) ==
  [packets["primary"][a] EXCEPT !.pass = "dependency_expanded",
                                !.parent = packets["primary"][a].revision,
                                !.revision = Revision(expanded[a]),
                                !.consumed = Len(inspections)]

\* Starts from the initial packet as it was published, and takes every
\* inspection of the run.
ExpandedPacket(a) ==
  LET first == packets["primary"][a]
      root == expanded[a]
  IN [first EXCEPT !.pass = "dependency_expanded", !.revision = Revision(root),
                   !.parent = first.revision, !.primary = root.primary,
                   !.consumed = Len(inspections),
                   !.optional = [@ EXCEPT ![1] = Len(inspections),
                                          ![4] = Cardinality(root.downstream),
                                          ![5] = Cardinality(root.alternatives)]]

Fits(p) == Mandatory(p) <= Cap

-----------------------------------------------------------------------------
(* T16 *)

Request(tool, a, from, to) == [tool |-> tool, attempt |-> a, from |-> from, to |-> to]

\* What the local model asks for.
DeterministicRequests(p) ==
  LET c == p.primary
      from == IF p.optional[2] > 0 THEN case[p.attempt].begins ELSE Most(0, c.frame - 20)
  IN IF c = None THEN << >>
     ELSE IF /\ c.protocol = "HTTP2"
             /\ c.category \in {"http_status_failure", "http_incomplete", "udr_dependency_failure"}
       THEN <<Request("inspect_udr_flow", p.attempt, from, c.frame)>>
     ELSE IF /\ c.protocol \in {"HTTP2", "MULTI"}
             /\ c.category \in {"missing_transition", "nrf_dependency_failure"}
       THEN <<Request("inspect_nrf_flow", p.attempt, from, c.frame)>>
     ELSE << >>

PrimaryId(p) == IF p.primary = None THEN None ELSE p.primary.id

LocalPayload(p, pass) ==
  [primary |-> PrimaryId(p),
   requests |-> IF pass = "initial" THEN DeterministicRequests(p) ELSE << >>]

RemotePayload(p, answer) ==
  [primary |-> CASE answer.names = "nothing" -> None
                 [] answer.names = "packet" -> PrimaryId(p)
                 [] OTHER -> Invented,
   requests |-> answer.requests]

Payloads(p, pass) ==
  IF mode = "local" THEN {LocalPayload(p, pass)} ELSE {RemotePayload(p, w) : w \in Answers}

Diagnosis(p, pass, status, primary, conflict, requests) ==
  [attempt |-> p.attempt, pass |-> pass, revision |-> p.revision, status |-> status,
   primary |-> primary, conflict |-> conflict, requests |-> requests]

\* Fault-injection variant: requests are followed in both passes.
FollowedAgain(p, pass, requests) ==
  SubSeq(requests, 1, Least(MaxCalls, Len(requests)))

\* Requests of the final pass are dropped, and those that name another
\* attempt or an empty range of frames.
Followed(p, pass, requests) ==
  LET valid == Keep(requests, {r \in ToSet(requests) : r.attempt = p.attempt /\ r.from <= r.to})
  IN IF pass = "final" THEN << >> ELSE SubSeq(valid, 1, Least(MaxCalls, Len(valid)))

Conflicts(p, primary) == p.primary # None /\ primary \notin {None, PrimaryId(p)}

Validated(p, pass, payload) ==
  Diagnosis(p, pass, "success", payload.primary, Conflicts(p, payload.primary),
            Followed(p, pass, payload.requests))

\* A timeout, a refused connection or a malformed answer is a failed
\* diagnosis; nothing is asked of the local model that could fail.
GenerateDiagnosis(p, pass) ==
  IF mode = "none" THEN {Diagnosis(p, pass, "disabled", None, FALSE, << >>)}
  ELSE {Validated(p, pass, payload) : payload \in Payloads(p, pass)}
       \cup {Diagnosis(p, pass, "failed", None, FALSE, << >>) : m \in {mode} \ {"local"}}

-----------------------------------------------------------------------------
(* T24, T25 *)

Failing(e) == (e.status # None /\ e.status >= 400) \/ e.state # "complete"

\* The k-th inspection.  Its candidate has a random id; two of them tie only
\* when they are about the same event, so any order of the ids will do.
DependencyCandidate(k, tool, e) ==
  [id |-> -k, events |-> {e.id}, protocol |-> "HTTP2", frame |-> e.frame, component |-> None,
   category |-> IF tool = "inspect_nrf_flow" THEN "nrf_dependency_failure" ELSE "udr_dependency_failure",
   base |-> IF tool = "inspect_nrf_flow" THEN 75 ELSE 74,
   explicit |-> TRUE, relevance |-> "dependency_related", impact |-> "contributing", marks |-> {}]

InspectFlow(k, r) ==
  LET partition == IF r.tool = "inspect_nrf_flow" THEN "nrf" ELSE "udr"
      seen == Keep(Store, {e \in ToSet(Store) : /\ e.partition = partition
                                                /\ r.from <= e.frame /\ e.frame <= r.to})
      failed == Keep(seen, {e \in ToSet(seen) : Failing(e)})
  IN [attempt |-> r.attempt, tool |-> r.tool,
      status |-> IF seen = << >> THEN "empty" ELSE "completed",
      candidates |-> IF failed = << >> THEN {} ELSE {DependencyCandidate(k, r.tool, Head(failed))}]

Inspected(a) == {i \in DOMAIN inspections : inspections[i].attempt = a}

\* Fault-injection variant: results are not told apart by attempt.
ReturnedByAny(a) == UNION {inspections[i].candidates : i \in DOMAIN inspections}

Returned(a) == UNION {inspections[i].candidates : i \in Inspected(a)}

-----------------------------------------------------------------------------
(* run_analysis *)

Init ==
  /\ mode \in Modes
  /\ case \in [Attempts -> Cases]
  /\ pc = "rank" /\ turn = 1
  /\ roots = [a \in Attempts |-> None]
  /\ expanded = [a \in Attempts |-> None]
  /\ kept = [a \in Attempts |-> None]
  /\ packets = [pass \in {"primary", "dependency_expanded"} |-> [a \in Attempts |-> None]]
  /\ diagnoses = << >> /\ reported = << >> /\ inspections = << >>
  /\ outcome = "running"

\* The loop goes to its next attempt, or is over.
Advance(again, after) ==
  IF turn < N THEN turn' = turn + 1 /\ pc' = again ELSE turn' = 1 /\ pc' = after

\* An exception nothing handles: the report is rendered from the state.
Raise ==
  /\ pc' = "render" /\ outcome' = "failed"
  /\ UNCHANGED <<analysis, turn, ranking, packets, diagnoses, reported, inspections>>

RankPrimary ==
  /\ pc = "rank" /\ pc' = "build"
  /\ roots' = [a \in Attempts |->
                 RankRootCauses(a, "primary", case[a].candidates, Primary(a), None, 0)]
  /\ kept' = roots'
  /\ UNCHANGED <<analysis, turn, expanded, packets, diagnoses, reported, inspections, outcome>>

BuildInitial ==
  /\ pc = "build" /\ Fits(InitialPacket(turn))
  /\ packets' = [packets EXCEPT !["primary"][turn] = Trim(InitialPacket(turn))]
  /\ pc' = "ask"
  /\ UNCHANGED <<analysis, turn, ranking, diagnoses, reported, inspections, outcome>>

\* The mandatory evidence alone is more than the budget.
BuildFails ==
  /\ \/ pc = "build" /\ ~Fits(InitialPacket(turn))
     \/ pc = "rebuild" /\ expanded[turn] # None /\ ~Fits(ExpandedPacket(turn))
  /\ Raise

\* state.diagnoses is given the list when the last attempt has its diagnosis.
DiagnoseInitial ==
  /\ pc = "ask"
  /\ \E d \in GenerateDiagnosis(packets["primary"][turn], "initial") :
       diagnoses' = Append(diagnoses, d)
  /\ Advance("build", "inspect")
  /\ reported' = IF turn = N THEN diagnoses' ELSE reported
  /\ UNCHANGED <<analysis, ranking, packets, inspections, outcome>>

\* A connection that breaks while the answer is read raises an error that is
\* none of those generate_diagnosis catches.
ProviderBreaks ==
  /\ pc \in {"ask", "reask"} /\ mode \notin {"none", "local"}
  /\ Raise

NextRequest == Cardinality(Inspected(turn)) + 1

Inspect ==
  /\ pc = "inspect" /\ NextRequest <= Len(diagnoses[turn].requests)
  /\ inspections' = Append(inspections, InspectFlow(Len(inspections) + 1,
                                                    diagnoses[turn].requests[NextRequest]))
  /\ UNCHANGED <<analysis, pc, turn, ranking, packets, diagnoses, reported, outcome>>

NextDiagnosis ==
  /\ pc = "inspect" /\ NextRequest > Len(diagnoses[turn].requests)
  /\ Advance("inspect", "rerank")
  /\ UNCHANGED <<analysis, ranking, packets, diagnoses, reported, inspections, outcome>>

RankExpanded ==
  LET ranked == {a \in Attempts : Returned(a) # {}} IN
  /\ pc = "rerank"
  /\ expanded' = [a \in Attempts |->
       IF a \in ranked
         THEN RankRootCauses(a, "dependency_expanded", roots[a].candidates \cup Returned(a),
                             Expanded(a), Revision(roots[a]), Len(inspections))
         ELSE None]
  /\ kept' = IF ranked = {} THEN kept ELSE expanded'
  /\ pc' = IF ranked = {} THEN "render" ELSE "rebuild"
  /\ UNCHANGED <<analysis, turn, roots, packets, diagnoses, reported, inspections, outcome>>

SkipAttempt ==
  /\ pc = "rebuild" /\ expanded[turn] = None
  /\ Advance("rebuild", "render")
  /\ UNCHANGED <<analysis, ranking, packets, diagnoses, reported, inspections, outcome>>

BuildExpanded ==
  /\ pc = "rebuild" /\ expanded[turn] # None /\ Fits(ExpandedPacket(turn))
  /\ packets' = [packets EXCEPT !["dependency_expanded"][turn] = Trim(ExpandedPacket(turn))]
  /\ pc' = "reask"
  /\ UNCHANGED <<analysis, turn, ranking, diagnoses, reported, inspections, outcome>>

\* state.diagnoses is the same list.
DiagnoseFinal ==
  /\ pc = "reask"
  /\ \E d \in GenerateDiagnosis(packets["dependency_expanded"][turn], "final") :
       diagnoses' = Append(diagnoses, d)
  /\ reported' = diagnoses'
  /\ Advance("rebuild", "render")
  /\ UNCHANGED <<analysis, ranking, packets, inspections, outcome>>

\* The status of T16 is that of the initial diagnoses.
Render ==
  /\ pc = "render" /\ pc' = "done"
  /\ outcome' = IF outcome = "failed" THEN "failed"
                ELSE IF \E a \in Attempts : diagnoses[a].status = "failed" THEN "partial"
                ELSE "success"
  /\ UNCHANGED <<analysis, turn, ranking, packets, diagnoses, reported, inspections>>

Terminated == pc = "done" /\ UNCHANGED vars

Next ==
  \/ RankPrimary \/ BuildInitial \/ BuildFails \/ DiagnoseInitial \/ ProviderBreaks
  \/ Inspect \/ NextDiagnosis \/ RankExpanded
  \/ SkipAttempt \/ BuildExpanded \/ DiagnoseFinal
  \/ Render \/ Terminated

Spec == Init /\ [][Next]_vars

-----------------------------------------------------------------------------
(* render_report: an attempt is shown with the last of its diagnoses. *)

Shown(a) == {i \in DOMAIN reported : /\ reported[i].attempt = a
                                     /\ \A j \in DOMAIN reported :
                                          reported[j].attempt = a => j <= i}

Finished == pc = "done" /\ outcome # "failed"

-----------------------------------------------------------------------------
(* Types *)

Id == Int \cup {None, Invented}

RootOf(a, r) ==
  /\ r.attempt = a /\ r.pass \in {"primary", "dependency_expanded"}
  /\ r.primary # None => r.primary \in r.candidates
  /\ r.alternatives \subseteq r.candidates /\ r.downstream \subseteq r.candidates
  /\ r.confidence = "inconclusive" <=> r.primary = None

PacketOf(a, p) ==
  /\ p.attempt = a /\ p.consumed \in Nat /\ p.optional \in [1 .. 7 -> Nat]
  /\ Mandatory(p) + Items(p.optional, 1 .. 7) <= Cap

DiagnosisType(d) ==
  /\ d.attempt \in Attempts /\ d.pass \in {"initial", "final"}
  /\ d.status \in {"disabled", "failed", "success"}
  /\ d.primary \in Id /\ d.conflict \in BOOLEAN

\* The state is of the shape the code gives it; published packets keep to
\* their budget.
TypeOK ==
  /\ mode \in Modes /\ case \in [Attempts -> Cases]
  /\ pc \in {"rank", "build", "ask", "inspect", "rerank", "rebuild", "reask", "render", "done"}
  /\ turn \in Attempts
  /\ outcome \in {"running", "success", "partial", "failed"}
  /\ \A a \in Attempts :
       /\ \A r \in {roots[a], expanded[a], kept[a]} \ {None} : RootOf(a, r)
       /\ \A p \in {packets["primary"][a], packets["dependency_expanded"][a]} \ {None} : PacketOf(a, p)
  /\ \A i \in DOMAIN diagnoses : DiagnosisType(diagnoses[i])
  /\ reported \in {<< >>, diagnoses}
  /\ \A i \in DOMAIN inspections : inspections[i].attempt \in Attempts

-----------------------------------------------------------------------------
(* Properties *)

\* An attempt has one initial diagnosis and at most one final one, which
\* follows an inspection that found something and asks for nothing more; no
\* initial diagnosis leads to more inspections than a pass may ask for
\* (T16_generate_diagnosis.md:186 "no third pass", :388).
OneDependencyRound ==
  /\ \A i, j \in DOMAIN diagnoses :
       i < j /\ diagnoses[i].attempt = diagnoses[j].attempt =>
         diagnoses[i].pass = "initial" /\ diagnoses[j].pass = "final"
  /\ \A i \in DOMAIN diagnoses : diagnoses[i].pass = "final" =>
       /\ diagnoses[i].requests = << >>
       /\ \E j \in Inspected(diagnoses[i].attempt) : inspections[j].candidates # {}
  /\ \A a \in Attempts : Cardinality(Inspected(a)) <= MaxCalls

\* When nothing went wrong, the diagnosis the report shows for an attempt was
\* made from a packet built on the very ranking it shows: a ranking that was
\* made again is never explained by the model's view of the first one
\* (T17_render_report.md:36, T15_build_evidence_packet.md:500).
DiagnosisFitsRoot ==
  Finished => \A a \in Attempts : kept[a] # None =>
    \E i \in Shown(a) : reported[i].revision = Revision(kept[a])

\* When nothing went wrong and the report names a primary candidate, a model
\* that named another one is shown with its conflict
\* (T16_generate_diagnosis.md:257).
ConflictsRecorded ==
  Finished => \A a \in Attempts : kept[a] # None => \A i \in Shown(a) :
    /\ kept[a].primary # None
    /\ reported[i].primary \notin {None, PrimaryId(kept[a])}
    => reported[i].conflict

\* The second ranking forgets no candidate of the first and adds only what an
\* inspection for this attempt returned; another primary candidate is either
\* one of those, or the first one had owed its place to a terminal effect or
\* to the baseline, which the second ranking is not told of
\* (T12_rank_root_causes.md:212-213).
SecondRankingExplained ==
  \A a \in Attempts : expanded[a] # None =>
    LET first == roots[a]
        second == expanded[a]
    IN /\ first.candidates \subseteq second.candidates
       /\ \A c \in second.candidates \ first.candidates :
            \E i \in DOMAIN inspections : /\ inspections[i].attempt = a
                                          /\ c \in inspections[i].candidates
       /\ \/ second.primary = first.primary
          \/ second.primary \in second.candidates \ first.candidates
          \/ /\ first.primary # None
             /\ \/ Explains(first.primary, Primary(a))
                \/ Diverges(first.primary, Primary(a))

\* T12_rank_root_causes.md:227 has the ranking of the primary pass preserved
\* in the report.  An attempt that was ranked still has a ranking in the end.
RankingKept ==
  Finished => \A a \in Attempts : roots[a] # None => kept[a] # None
==============================================================================
