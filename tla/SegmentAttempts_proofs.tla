----------------------- MODULE SegmentAttempts_proofs -----------------------
(***************************************************************************)
(* The safety properties of T04's segmentation, for any capture, registry  *)
(* and order of the attempts' UUIDs.                                       *)
(***************************************************************************)
EXTENDS SegmentAttempts, Lists_proofs

-----------------------------------------------------------------------------
(* max(..., key=...) exists.                                               *)

LEMMA BeforePair ==
  ASSUME NEW a, NEW b, NEW c, NEW d, a < c \/ (a = c /\ b < d)
  PROVE  Before(<<a, b>>, <<c, d>>)
<1> DEFINE s == <<a, b>>
           t == <<c, d>>
<1>1. DOMAIN s = {1, 2} /\ s[1] = a /\ s[2] = b /\ t[1] = c /\ t[2] = d
  OBVIOUS
<1> HIDE DEF s, t
<1>2. CASE a < c
  <2>1. 1 \in DOMAIN s /\ s[1] < t[1] /\ \A j \in 1 .. (1 - 1) : s[j] = t[j]
    BY <1>1, <1>2
  <2> QED
    BY <2>1 DEF Before, s, t
<1>3. CASE a = c /\ b < d
  <2>1. 2 \in DOMAIN s /\ s[2] < t[2] /\ \A j \in 1 .. (2 - 1) : s[j] = t[j]
    BY <1>1, <1>3
  <2> QED
    BY <2>1 DEF Before, s, t
<1> QED
  BY <1>2, <1>3

LEMMA BeforeTriple ==
  ASSUME NEW a, NEW b, NEW x, NEW c, NEW d, NEW y,
         a < c \/ (a = c /\ b < d) \/ (a = c /\ b = d /\ x < y)
  PROVE  Before(<<a, b, x>>, <<c, d, y>>)
<1> DEFINE s == <<a, b, x>>
           t == <<c, d, y>>
<1>1. /\ DOMAIN s = {1, 2, 3} /\ s[1] = a /\ s[2] = b /\ s[3] = x
      /\ t[1] = c /\ t[2] = d /\ t[3] = y
  OBVIOUS
<1> HIDE DEF s, t
<1>2. CASE a < c
  <2>1. 1 \in DOMAIN s /\ s[1] < t[1] /\ \A j \in 1 .. (1 - 1) : s[j] = t[j]
    BY <1>1, <1>2
  <2> QED
    BY <2>1 DEF Before, s, t
<1>3. CASE a = c /\ b < d
  <2>1. 2 \in DOMAIN s /\ s[2] < t[2] /\ \A j \in 1 .. (2 - 1) : s[j] = t[j]
    BY <1>1, <1>3
  <2> QED
    BY <2>1 DEF Before, s, t
<1>4. CASE a = c /\ b = d /\ x < y
  <2>1. 3 \in DOMAIN s /\ s[3] < t[3] /\ \A j \in 1 .. (3 - 1) : s[j] = t[j]
    BY <1>1, <1>4
  <2> QED
    BY <2>1 DEF Before, s, t
<1> QED
  BY <1>2, <1>3, <1>4

\* Among finitely many elements one is the greatest by f and then by g, if no
\* two share g.
LEMMA GreatestPair ==
  ASSUME NEW S, IsFiniteSet(S), S # {}, NEW f \in [S -> Int], NEW g \in [S -> Int],
         IsInjective(g)
  PROVE  \E a \in S : \A b \in S \ {a} : f[b] < f[a] \/ (f[b] = f[a] /\ g[b] < g[a])
<1>1. PICK x \in S : \A b \in S : f[b] <= f[x]
  BY Maximum
<1> DEFINE T == {b \in S : f[b] = f[x]}
           h == [b \in T |-> g[b]]
<1>2. IsFiniteSet(T) /\ T # {} /\ T \subseteq S
  BY <1>1, FS_Subset
<1>3. h \in [T -> Int]
  BY <1>2
<1> HIDE DEF T
<1>4. PICK a \in T : \A b \in T : h[b] <= h[a]
  BY <1>2, <1>3, Maximum
<1>5. a \in S /\ f[a] = f[x]
  BY <1>4 DEF T
<1>6. ASSUME NEW b \in S \ {a} PROVE f[b] < f[a] \/ (f[b] = f[a] /\ g[b] < g[a])
  <2>1. CASE f[b] # f[x]
    BY <1>1, <1>5, <2>1
  <2>2. CASE f[b] = f[x]
    <3>1. b \in T
      BY <2>2 DEF T
    <3>2. g[b] <= g[a] /\ g[b] # g[a]
      BY <1>2, <1>4, <3>1 DEF IsInjective
    <3> QED
      BY <1>5, <2>2, <3>2
  <2> QED
    BY <2>1, <2>2
<1> QED
  BY <1>5, <1>6

LEMMA GreatestTriple ==
  ASSUME NEW S, IsFiniteSet(S), S # {}, NEW e \in [S -> Int], NEW f \in [S -> Int],
         NEW g \in [S -> Int], IsInjective(g)
  PROVE  \E a \in S : \A b \in S \ {a} :
           e[b] < e[a] \/ (e[b] = e[a] /\ f[b] < f[a])
             \/ (e[b] = e[a] /\ f[b] = f[a] /\ g[b] < g[a])
<1>1. PICK x \in S : \A b \in S : e[b] <= e[x]
  BY Maximum
<1> DEFINE T == {b \in S : e[b] = e[x]}
           h == [b \in T |-> f[b]]
           k == [b \in T |-> g[b]]
<1>2. IsFiniteSet(T) /\ T # {} /\ T \subseteq S
  BY <1>1, FS_Subset
<1>3. h \in [T -> Int] /\ k \in [T -> Int] /\ IsInjective(k)
  BY <1>2 DEF IsInjective
<1> HIDE DEF T, h, k
<1>4. PICK a \in T : \A b \in T \ {a} : h[b] < h[a] \/ (h[b] = h[a] /\ k[b] < k[a])
  BY <1>2, <1>3, GreatestPair
<1>5. a \in S /\ e[a] = e[x] /\ h[a] = f[a] /\ k[a] = g[a]
  BY <1>4 DEF T, h, k
<1>6. ASSUME NEW b \in S \ {a}
      PROVE  e[b] < e[a] \/ (e[b] = e[a] /\ f[b] < f[a])
               \/ (e[b] = e[a] /\ f[b] = f[a] /\ g[b] < g[a])
  <2>1. CASE e[b] # e[x]
    BY <1>1, <1>5, <2>1
  <2>2. CASE e[b] = e[x]
    <3>1. b \in T /\ h[b] = f[b] /\ k[b] = g[b]
      BY <2>2 DEF T, h, k
    <3> QED
      BY <1>4, <1>5, <2>2, <3>1
  <2> QED
    BY <2>1, <2>2
<1> QED
  BY <1>5, <1>6

-----------------------------------------------------------------------------
(* The invariant: types, and where attempts and events are.                *)

Stamp == Nat \cup {None}

Entry == [event : Event, frame : Nat, time : Stamp]

TypeInv ==
  /\ log \in Seq(Entry) /\ Len(log) <= MaxEvents
  /\ clock \in [frame : Nat, second : Nat, time : Stamp]
  /\ DOMAIN attempt \subseteq DOMAIN log
  /\ attempt \in [DOMAIN attempt -> Attempt]
  /\ unassigned \subseteq DOMAIN log
  /\ \A x \in ambiguous : x.event \in DOMAIN log /\ x.tied \subseteq DOMAIN attempt
  /\ relations \subseteq Relation
  /\ phase \in {"reading", "closing", "done"}
  /\ rank \in Ranks

\* Each attempt is open or completed, once.
QueuesInv ==
  /\ open \in Seq(DOMAIN attempt) /\ IsInjective(open)
  /\ completed \in Seq(DOMAIN attempt) /\ IsInjective(completed)
  /\ ToSet(open) \cap ToSet(completed) = {}
  /\ DOMAIN attempt = ToSet(open) \cup ToSet(completed)

\* The events of the attempts: the k-th of one is no earlier than the k-th of
\* the log, which bounds their number.
EventsInv ==
  /\ \A a \in DOMAIN attempt :
       /\ attempt[a].events # << >>
       /\ \A k \in DOMAIN attempt[a].events :
            attempt[a].events[k] \in DOMAIN log \ unassigned /\ k <= attempt[a].events[k]
  /\ \A n \in DOMAIN log \ unassigned :
       \E a \in DOMAIN attempt : \E k \in DOMAIN attempt[a].events : attempt[a].events[k] = n
  /\ \A a, b \in DOMAIN attempt :
       \A k \in DOMAIN attempt[a].events : \A l \in DOMAIN attempt[b].events :
         attempt[a].events[k] = attempt[b].events[l] => a = b /\ k = l

LEMMA AttemptsFinite ==
  ASSUME TypeInv
  PROVE  /\ DOMAIN log = 1 .. Len(log) /\ Len(log) \in Nat
         /\ DOMAIN attempt \subseteq Position
         /\ \A S : S \subseteq DOMAIN attempt => IsFiniteSet(S)
<1>1. DOMAIN log = 1 .. Len(log) /\ Len(log) \in Nat
  BY DEF TypeInv
<1>2. DOMAIN attempt \subseteq Position
  BY <1>1, AttemptAssumption DEF TypeInv, Position, AttemptAssumption
<1>3. IsFiniteSet(DOMAIN log)
  BY <1>1, FS_Interval
<1>4. IsFiniteSet(DOMAIN attempt)
  BY <1>3, FS_Subset DEF TypeInv
<1> QED
  BY <1>1, <1>2, <1>4, FS_Subset

LEMMA LogEntry ==
  ASSUME TypeInv, NEW n \in DOMAIN log
  PROVE  /\ log[n] \in Entry /\ log[n].event \in Event
         /\ log[n].frame \in Nat /\ log[n].time \in Stamp
<1>1. log[n] \in Entry
  BY DEF TypeInv
<1> QED
  BY <1>1 DEF Entry

LEMMA RankInjective ==
  ASSUME TypeInv
  PROVE  rank \in [Position -> Int] /\ IsInjective(rank)
BY AttemptAssumption DEF TypeInv, AttemptAssumption

\* The profile of a trigger is one of its candidates.
LEMMA SelectedIsCandidate ==
  ASSUME NEW e, Candidates(e) # {}
  PROVE  Selected(e) \in Candidates(e)
<1> DEFINE S == Candidates(e)
           f == [p \in S |-> TriggerScore(p, e)]
           g == [p \in S |-> Registry[p].id]
<1>1. S \subseteq Profile
  BY DEF Candidates
<1>2. IsFiniteSet(S)
  BY <1>1, FS_Subset, AttemptAssumption DEF AttemptAssumption
<1>3. \A p \in S : TriggerScore(p, e) \in Int
  BY DEF TriggerScore, Points
<1>4. \A p \in S : Registry[p].id \in Int
  BY <1>1, AttemptAssumption DEF AttemptAssumption
<1>5. IsInjective(g)
  BY <1>1, AttemptAssumption DEF AttemptAssumption, IsInjective
<1>6. f \in [S -> Int] /\ g \in [S -> Int]
  BY <1>3, <1>4
<1>7. S # {}
  OBVIOUS
<1> HIDE DEF S
<1>8. PICK a \in S : \A b \in S \ {a} : f[b] < f[a] \/ (f[b] = f[a] /\ g[b] < g[a])
  <2> HIDE DEF f, g
  <2> QED
    BY <1>2, <1>5, <1>6, <1>7, GreatestPair
<1>9. \A b \in S \ {a} :
        Before(<<TriggerScore(b, e), Registry[b].id>>, <<TriggerScore(a, e), Registry[a].id>>)
  BY <1>8, BeforePair
<1>10. Greatest(S, LAMBDA p : <<TriggerScore(p, e), Registry[p].id>>) \in S
  BY <1>9 DEF Greatest
<1> QED
  BY <1>10 DEF Selected, S

\* The parent found among the open attempts is one of them.
LEMMA ParentIsOpen ==
  ASSUME TypeInv, NEW S, S \subseteq DOMAIN attempt, S # {}
  PROVE  Greatest(S, LAMBDA a : <<log[a].frame, rank[a]>>) \in S
<1> DEFINE f == [a \in S |-> log[a].frame]
           g == [a \in S |-> rank[a]]
<1>1. IsFiniteSet(S) /\ S \subseteq Position
  BY AttemptsFinite
<1>2. f \in [S -> Int]
  <2>1. \A a \in S : log[a].frame \in Nat
    BY LogEntry DEF TypeInv
  <2> QED
    BY <2>1
<1>3. g \in [S -> Int] /\ IsInjective(g)
  BY <1>1, RankInjective DEF IsInjective
<1>4. PICK a \in S : \A b \in S \ {a} : f[b] < f[a] \/ (f[b] = f[a] /\ g[b] < g[a])
  <2> HIDE DEF f, g
  <2> QED
    BY <1>1, <1>2, <1>3, GreatestPair
<1>5. \A b \in S \ {a} : Before(<<log[b].frame, rank[b]>>, <<log[a].frame, rank[a]>>)
  BY <1>4, BeforePair
<1> QED
  BY <1>5 DEF Greatest

\* So is the one that is closed first at the end of the capture.
LEMMA FirstIsOpen ==
  ASSUME TypeInv, NEW S, S \subseteq DOMAIN attempt, S # {}
  PROVE  Greatest(S, LAMBDA b : << - log[b].frame, - rank[b]>>) \in S
<1> DEFINE f == [a \in S |-> - log[a].frame]
           g == [a \in S |-> - rank[a]]
<1>1. IsFiniteSet(S) /\ S \subseteq Position
  BY AttemptsFinite
<1>2. f \in [S -> Int]
  <2>1. \A a \in S : log[a].frame \in Nat
    BY LogEntry DEF TypeInv
  <2> QED
    BY <2>1
<1>3. \A a \in S : rank[a] \in Int
  BY <1>1, RankInjective
<1>4. g \in [S -> Int]
  BY <1>3
<1>5. ASSUME NEW a \in S, NEW b \in S, g[a] = g[b] PROVE a = b
  <2>1. rank[a] = rank[b]
    BY <1>3, <1>5
  <2> QED
    BY <1>1, <2>1, RankInjective DEF IsInjective
<1>6. IsInjective(g)
  BY <1>5 DEF IsInjective
<1>7. PICK a \in S : \A b \in S \ {a} : f[b] < f[a] \/ (f[b] = f[a] /\ g[b] < g[a])
  <2> HIDE DEF f, g
  <2> QED
    BY <1>1, <1>2, <1>4, <1>6, GreatestPair
<1>8. \A b \in S \ {a} : Before(<< - log[b].frame, - rank[b]>>, << - log[a].frame, - rank[a]>>)
  BY <1>7, BeforePair
<1> QED
  BY <1>8 DEF Greatest

\* The nearest of some attempts is one of them.
LEMMA NearestIsOne ==
  ASSUME TypeInv, EventsInv, NEW S, S \subseteq DOMAIN attempt, S # {}
  PROVE  Nearest(S) \in S
<1> DEFINE e == [a \in S |-> End(a)]
           f == [a \in S |-> Start(a)]
           g == [a \in S |-> rank[a]]
<1>1. IsFiniteSet(S) /\ S \subseteq Position
  BY AttemptsFinite
<1>2. f \in [S -> Int]
  <2>1. \A a \in S : log[a].frame \in Nat
    BY LogEntry DEF TypeInv
  <2> QED
    BY <2>1 DEF Start
<1>3. g \in [S -> Int] /\ IsInjective(g)
  BY <1>1, RankInjective DEF IsInjective
<1>4. \A a \in S : End(a) \in Int
  <2> SUFFICES ASSUME NEW a \in S PROVE End(a) \in Int
    OBVIOUS
  <2>1. attempt[a].events \in Seq(Position) /\ attempt[a].events # << >>
    BY DEF TypeInv, EventsInv, Attempt
  <2>2. Len(attempt[a].events) \in DOMAIN attempt[a].events
    BY <2>1
  <2>3. Last(attempt[a].events) \in DOMAIN log
    BY <2>2 DEF EventsInv, Last
  <2> QED
    BY <2>3, LogEntry DEF End, LastEntry
<1>5. e \in [S -> Int]
  BY <1>4
<1>6. PICK a \in S : \A b \in S \ {a} :
        e[b] < e[a] \/ (e[b] = e[a] /\ f[b] < f[a])
          \/ (e[b] = e[a] /\ f[b] = f[a] /\ g[b] < g[a])
  <2> HIDE DEF e, f, g
  <2> QED
    BY <1>1, <1>2, <1>3, <1>5, GreatestTriple
<1>7. \A b \in S \ {a} :
        Before(<<End(b), Start(b), rank[b]>>, <<End(a), Start(a), rank[a]>>)
  BY <1>6, BeforeTriple
<1> QED
  BY <1>7 DEF Nearest, Greatest

-----------------------------------------------------------------------------
(* What the pieces of a step do.                                           *)

LEMMA SeqGrows ==
  ASSUME NEW S, NEW T, S \subseteq T
  PROVE  Seq(S) \subseteq Seq(T)
OBVIOUS

\* A verdict is passed exactly on what the profile calls an end.
LEMMA VerdictSound ==
  ASSUME NEW p, NEW passed, NEW kind
  PROVE  /\ Verdict(p, passed, kind) \in {"open", "succeeded", "failed", "aborted"}
         /\ Verdict(p, passed, kind) # "open" =>
              \/ kind \in Registry[p].success \cup Registry[p].failure \cup Registry[p].abort
              \/ \E k \in DOMAIN Registry[p].stages :
                   /\ kind \in Registry[p].stages[k].on
                   /\ Registry[p].stages[k].success \/ Registry[p].stages[k].failure
         /\ Verdict(p, passed, kind) = "open" =>
              /\ kind \notin Registry[p].success \cup Registry[p].failure \cup Registry[p].abort
              /\ \A k \in Completes(p, passed, kind) :
                   ~ (Registry[p].stages[k].success \/ Registry[p].stages[k].failure)
<1> DEFINE deciding == {k \in Completes(p, passed, kind) :
                          Registry[p].stages[k].success \/ Registry[p].stages[k].failure}
<1>1. CASE deciding # {}
  <2>1. Verdict(p, passed, kind) \in {"succeeded", "failed"}
    BY <1>1 DEF Verdict
  <2>2. PICK k \in DOMAIN Registry[p].stages :
          /\ kind \in Registry[p].stages[k].on
          /\ Registry[p].stages[k].success \/ Registry[p].stages[k].failure
    BY <1>1 DEF Completes
  <2> QED
    BY <2>1, <2>2
<1>2. CASE deciding = {}
  <2>1. Verdict(p, passed, kind) =
          IF kind \in Registry[p].success THEN "succeeded"
          ELSE IF kind \in Registry[p].failure THEN "failed"
          ELSE IF kind \in Registry[p].abort THEN "aborted"
          ELSE "open"
    BY <1>2 DEF Verdict
  <2> QED
    BY <1>2, <2>1
<1> QED
  BY <1>1, <1>2

\* The attempts with a new one: what the others keep, and what it starts with.
Opened(old, now, alive, n) ==
  /\ now \in [DOMAIN old \cup {n} -> Attempt]
  /\ \A a \in DOMAIN old :
       /\ now[a].profile = old[a].profile /\ now[a].parent = old[a].parent
       /\ now[a].events = old[a].events /\ now[a].stages = old[a].stages
       /\ now[a].outcome = old[a].outcome
       /\ now[a].children = IF a = now[n].parent THEN old[a].children \cup {n}
                            ELSE old[a].children
  /\ now[n].parent \in alive \cup {0}
  /\ now[n].events = << >> /\ now[n].stages = {} /\ now[n].outcome = "open"
  /\ now[n].children = {}

LEMMA NewAttempt ==
  ASSUME TypeInv, NEW old \in [DOMAIN attempt -> Attempt], NEW alive, alive \subseteq DOMAIN attempt,
         NEW n, n = Len(log) + 1, n <= MaxEvents, NEW e, Candidates(e) # {},
         NEW now, now = WithNew(old, alive, n, e)
  PROVE  Opened(old, now, alive, n)
<1> DEFINE p == Selected(e)
           parents == OpenParents(alive, p, e)
           parent == IF parents = {} THEN 0
                     ELSE Greatest(parents, LAMBDA a : <<log[a].frame, rank[a]>>)
           new == [profile |-> p, parent |-> parent, children |-> {}, events |-> << >>,
                   stages |-> {}, outcome |-> "open", number |-> 0]
<1>1. p \in Profile
  BY SelectedIsCandidate DEF Candidates
<1>2. parents \subseteq alive
  BY DEF OpenParents
<1> HIDE DEF parents
<1>3. parent \in alive \cup {0}
  <2>1. CASE parents = {}
    BY <2>1
  <2>2. CASE parents # {}
    <3>1. parents \subseteq DOMAIN attempt
      BY <1>2
    <3>2. Greatest(parents, LAMBDA a : <<log[a].frame, rank[a]>>) \in parents
      BY <2>2, <3>1, ParentIsOpen
    <3> QED
      BY <1>2, <2>2, <3>2
  <2> QED
    BY <2>1, <2>2
<1>4. n \in Position /\ n \notin DOMAIN attempt /\ DOMAIN attempt \subseteq Position
  <2>1. DOMAIN attempt \subseteq 1 .. Len(log) /\ Len(log) \in Nat
    BY AttemptsFinite DEF TypeInv
  <2> QED
    BY <2>1, AttemptsFinite DEF Position
<1>5. now = [a \in DOMAIN old \cup {n} |->
               IF a = n THEN new
               ELSE IF a = parent THEN [old[a] EXCEPT !.children = @ \cup {n}]
               ELSE old[a]]
  BY DEF WithNew, parents
<1> HIDE DEF parent, p
<1>6. parent \in Position \cup {0} /\ parent # n
  BY <1>3, <1>4 DEF Position
<1>7. new \in Attempt
  BY <1>1, <1>6 DEF Attempt, Outcome
<1>8. now[n] = new
  BY <1>5
<1>9. \A a \in DOMAIN attempt : now[a] = IF a = parent THEN [old[a] EXCEPT !.children = @ \cup {n}]
                                         ELSE old[a]
  BY <1>4, <1>5
<1>10. ASSUME NEW a \in DOMAIN attempt PROVE [old[a] EXCEPT !.children = @ \cup {n}] \in Attempt
  <2>1. old[a] \in Attempt
    OBVIOUS
  <2> QED
    BY <1>4, <2>1 DEF Attempt
<1>11. \A a \in DOMAIN attempt \cup {n} : now[a] \in Attempt
  BY <1>7, <1>8, <1>9, <1>10
<1>12. now \in [DOMAIN attempt \cup {n} -> Attempt]
  BY <1>5, <1>11
<1>13. new.parent = parent
  OBVIOUS
<1>14. ASSUME NEW a \in DOMAIN attempt
       PROVE  /\ now[a].profile = old[a].profile /\ now[a].parent = old[a].parent
              /\ now[a].events = old[a].events /\ now[a].stages = old[a].stages
              /\ now[a].outcome = old[a].outcome
              /\ now[a].children = IF a = now[n].parent THEN old[a].children \cup {n}
                                   ELSE old[a].children
  <2>1. old[a] \in Attempt
    OBVIOUS
  <2> QED
    BY <1>8, <1>9, <1>13, <2>1, ZenonT(40) DEF Attempt
<1>15. /\ now[n].parent \in alive \cup {0}
       /\ now[n].events = << >> /\ now[n].stages = {} /\ now[n].outcome = "open"
       /\ now[n].children = {}
  BY <1>3, <1>8
<1> QED
  BY <1>12, <1>14, <1>15 DEF Opened

\* The attempts of which one has taken the n-th event.
Taken(old, now, a, n, e) ==
  /\ now \in [DOMAIN old -> Attempt]
  /\ \A b \in DOMAIN old \ {a} : now[b] = old[b]
  /\ now[a].profile = old[a].profile /\ now[a].parent = old[a].parent
  /\ now[a].children = old[a].children
  /\ now[a].events = Append(old[a].events, n)
  /\ now[a].stages = old[a].stages \cup Completes(old[a].profile, old[a].stages, e.kind)
  /\ now[a].outcome = Verdict(old[a].profile, old[a].stages, e.kind)

LEMMA GivenEvent ==
  ASSUME NEW S, NEW old \in [S -> Attempt], NEW a \in S, NEW n \in Position, NEW e,
         old[a].profile \in Profile, NEW now, now = WithEvent(old, a, n, e)
  PROVE  Taken(old, now, a, n, e)
<1> DEFINE more == Completes(old[a].profile, old[a].stages, e.kind)
           verdict == Verdict(old[a].profile, old[a].stages, e.kind)
<1>1. more \subseteq Nat
  BY AttemptAssumption DEF Completes, AttemptAssumption
<1>2. verdict \in Outcome
  BY VerdictSound DEF Outcome
<1>3. now = [b \in S |-> IF b = a THEN [old[a] EXCEPT !.events = Append(@, n),
                                                     !.stages = @ \cup more,
                                                     !.outcome = verdict]
                         ELSE old[b]]
  BY DEF WithEvent
<1> HIDE DEF more, verdict
<1>4. old[a] \in Attempt
  OBVIOUS
<1>5. now[a] = [old[a] EXCEPT !.events = Append(@, n), !.stages = @ \cup more, !.outcome = verdict]
  BY <1>3
<1>6. /\ now[a].profile = old[a].profile /\ now[a].parent = old[a].parent
      /\ now[a].children = old[a].children
      /\ now[a].events = Append(old[a].events, n)
      /\ now[a].stages = old[a].stages \cup more
      /\ now[a].outcome = verdict
      /\ now[a] \in Attempt
  <2>1. old[a].events \in Seq(Position)
    BY <1>4 DEF Attempt
  <2>2. Append(old[a].events, n) \in Seq(Position)
    BY <2>1
  <2> QED
    BY <1>1, <1>2, <1>4, <1>5, <2>2 DEF Attempt
<1>7. \A b \in S \ {a} : now[b] = old[b]
  BY <1>3
<1>8. now \in [S -> Attempt]
  BY <1>3, <1>6, <1>7
<1> QED
  BY <1>6, <1>7, <1>8 DEF Taken, more, verdict

\* What Close does to the queues, of which alive is what was open and ended
\* what is completed now.
Closes(S, attempts, alive, ended) ==
  /\ attempt' = attempts
  /\ open' \in Seq(S) /\ IsInjective(open') /\ ToSet(open') = alive \ ended
  /\ completed' \in Seq(S) /\ IsInjective(completed')
  /\ ToSet(completed') = ToSet(completed) \cup ended
  /\ Len(completed) <= Len(completed')
  /\ \A k \in DOMAIN completed : k \in DOMAIN completed' /\ completed'[k] = completed[k]
  /\ relations' = relations \cup Retries

LEMMA CloseCloses ==
  ASSUME NEW S, NEW attempts, NEW alive \in Seq(S), NEW ended \in Seq(S), completed \in Seq(S),
         IsInjective(alive), IsInjective(ended), IsInjective(completed),
         ToSet(completed) \cap ToSet(ended) = {}, Close(attempts, alive, ended)
  PROVE  Closes(S, attempts, ToSet(alive), ToSet(ended))
<1>1. open' = Keep(alive, ToSet(alive) \ ToSet(ended)) /\ completed' = completed \o ended
  BY DEF Close
<1>2. /\ open' \in Seq(S) /\ IsInjective(open')
      /\ ToSet(open') = ToSet(alive) \cap (ToSet(alive) \ ToSet(ended))
  BY <1>1, KeepSelects, KeepElements
<1>3. /\ completed' \in Seq(S) /\ IsInjective(completed')
      /\ ToSet(completed') = ToSet(completed) \cup ToSet(ended)
  BY <1>1, ConcatElements
<1>4. /\ Len(completed) <= Len(completed')
      /\ \A k \in DOMAIN completed : k \in DOMAIN completed' /\ completed'[k] = completed[k]
  BY <1>1
<1>5. ToSet(open') = ToSet(alive) \ ToSet(ended)
  BY <1>2
<1> QED
  BY <1>2, <1>3, <1>4, <1>5 DEF Close, Closes

-----------------------------------------------------------------------------
(* What one pass of the loop over the events does.                         *)

\* The clock and the log after the event e.
Logged(e) ==
  LET n == Len(log) + 1
  IN  /\ phase = "reading" /\ phase' = phase /\ rank' = rank
      /\ clock' \in [frame : Nat, second : Nat, time : Stamp]
      /\ log' \in Seq(Entry) /\ Len(log') = n /\ n <= MaxEvents
      /\ DOMAIN log' = DOMAIN log \cup {n}
      /\ \A k \in DOMAIN log : log'[k] = log[k]
      /\ log'[n] = [event |-> e, frame |-> clock'.frame, time |-> clock'.time]

\* The ends that the pass records: those that have been silent, and the owner
\* of the event if the event is its end.
EndsOf(expired, owner) ==
  expired \cup {a \in {owner} \ {0} : attempt'[a].outcome # "open"}

\* The attempts of expired have timed out, and the event has gone to owner,
\* which may be new, or to none (0).
Passed(e, expired, owner) ==
  LET n == Len(log) + 1
      active == ToSet(open) \ expired
      events == IF owner = n THEN << >> ELSE attempt[owner].events
      stages == IF owner = n THEN {} ELSE attempt[owner].stages
      p == attempt'[owner].profile
  IN  /\ expired \subseteq ToSet(open)
      /\ \A a \in ToSet(open) :
           a \in expired <=> Silent(attempt[a].profile, LastEntry(a), clock')
      /\ \/ owner = 0
         \/ owner = n /\ Opens(active, e, clock'.frame)
         \/ owner \in Owners(active, e, clock'.frame)
      /\ attempt' \in [DOMAIN attempt \cup ({owner} \ {0}) -> Attempt]
      /\ \A a \in DOMAIN attempt :
           /\ attempt'[a].profile = attempt[a].profile
           /\ attempt'[a].parent = attempt[a].parent
           /\ attempt'[a].children = IF owner = n /\ a = attempt'[n].parent
                                       THEN attempt[a].children \cup {n} ELSE attempt[a].children
           /\ a # owner =>
                /\ attempt'[a].events = attempt[a].events
                /\ attempt'[a].stages = attempt[a].stages
                /\ attempt'[a].outcome = IF a \in expired THEN "timed_out" ELSE attempt[a].outcome
      /\ owner # 0 =>
           /\ attempt'[owner].events = Append(events, n)
           /\ attempt'[owner].stages = stages \cup Completes(p, stages, e.kind)
           /\ attempt'[owner].outcome = Verdict(p, stages, e.kind)
      /\ owner = n => attempt'[n].parent \in active \cup {0} /\ attempt'[n].children = {}
      /\ Closes(DOMAIN attempt', attempt', active \cup ({owner} \ {0}), EndsOf(expired, owner))
      /\ unassigned' = IF owner = 0 THEN unassigned \cup {n} ELSE unassigned
      /\ \A x \in ambiguous' : \/ x \in ambiguous
                               \/ x.event = n /\ x.tied \subseteq DOMAIN attempt

LEMMA ReceiveLogs ==
  ASSUME TypeInv, NEW e \in Event, NEW s \in Step, Receive(e, s)
  PROVE  Logged(e)
<1>1. /\ phase = "reading" /\ phase' = phase /\ rank' = rank /\ Len(log) < MaxEvents
      /\ clock' = [frame |-> clock.frame + s.frames, second |-> clock.second + s.seconds,
                   time |-> IF s.stamped THEN clock.second + s.seconds ELSE None]
      /\ log' = Append(log, [event |-> e, frame |-> clock'.frame, time |-> clock'.time])
  BY DEF Receive, Tick
<1>2. clock' \in [frame : Nat, second : Nat, time : Stamp]
  BY <1>1, AttemptAssumption, SMTT(40) DEF AttemptAssumption, TypeInv, Stamp
<1> DEFINE entry == [event |-> e, frame |-> clock'.frame, time |-> clock'.time]
<1>3. entry \in Entry
  BY <1>2 DEF Entry
<1>4. log' = Append(log, entry)
  BY <1>1
<1> HIDE DEF entry
<1>5. log \in Seq(Entry)
  BY DEF TypeInv
<1>6. /\ log' \in Seq(Entry) /\ Len(log') = Len(log) + 1
      /\ DOMAIN log' = DOMAIN log \cup {Len(log) + 1}
      /\ \A k \in DOMAIN log : log'[k] = log[k]
      /\ log'[Len(log) + 1] = entry
  BY <1>3, <1>4, <1>5
<1>7. Len(log) + 1 <= MaxEvents
  BY <1>1, <1>5, AttemptAssumption DEF AttemptAssumption
<1> QED
  BY <1>1, <1>2, <1>6, <1>7 DEF Logged, entry

LEMMA GiveGives ==
  ASSUME NEW S, NEW old \in [S -> Attempt], NEW a \in S, NEW e, Len(log) + 1 \in Position,
         NEW alive \in Seq(S), NEW ended \in Seq(S), completed \in Seq(S),
         IsInjective(alive), IsInjective(ended), IsInjective(completed),
         ToSet(completed) \cap ToSet(ended) = {}, a \notin ToSet(ended) \cup ToSet(completed),
         a # 0, Give(e, a, old, alive, ended)
  PROVE  /\ attempt' = WithEvent(old, a, Len(log) + 1, e)
         /\ Closes(S, attempt', ToSet(alive), EndsOf(ToSet(ended), a))
<1> DEFINE given == WithEvent(old, a, Len(log) + 1, e)
           ends == IF given[a].outcome = "open" THEN ended ELSE Append(ended, a)
<1>1. Close(given, alive, ends)
  BY DEF Give
<1> HIDE DEF given
<1>2. attempt' = given
  BY <1>1 DEF Close
<1>3. /\ ends \in Seq(S) /\ IsInjective(ends) /\ ToSet(ends) = EndsOf(ToSet(ended), a)
      /\ ToSet(completed) \cap ToSet(ends) = {}
  <2>1. CASE given[a].outcome = "open"
    BY <1>2, <2>1 DEF EndsOf
  <2>2. CASE given[a].outcome # "open"
    <3>1. ends = Append(ended, a)
      BY <2>2
    <3>2. ToSet(ends) = ToSet(ended) \cup {a} /\ IsInjective(ends)
      BY <3>1, AppendElements
    <3>3. ends \in Seq(S)
      BY <3>1
    <3>4. EndsOf(ToSet(ended), a) = ToSet(ended) \cup {a}
      BY <1>2, <2>2 DEF EndsOf
    <3> QED
      BY <3>2, <3>3, <3>4
  <2> QED
    BY <2>1, <2>2
<1> HIDE DEF ends
<1>4. Closes(S, given, ToSet(alive), ToSet(ends))
  BY <1>1, <1>3, CloseCloses
<1> QED
  BY <1>2, <1>3, <1>4 DEF given

LEMMA ReceivePasses ==
  ASSUME TypeInv, QueuesInv, NEW e \in Event, NEW s \in Step, Receive(e, s)
  PROVE  \E expired, owner : Passed(e, expired, owner)
<1> DEFINE n == Len(log) + 1
           f == clock'.frame
<1>0. n <= MaxEvents
  BY ReceiveLogs DEF Logged
<1>1. PICK expired \in SUBSET ToSet(open) :
        /\ \A a \in ToSet(open) :
             a \in expired <=> Silent(attempt[a].profile, LastEntry(a), clock')
        /\ Handle(e, expired)
  BY DEF Receive
<1> DEFINE active == ToSet(open) \ expired
           alive == Keep(open, active)
           ended == Keep(open, expired)
           late == [a \in DOMAIN attempt |->
                      IF a \in expired THEN [attempt[a] EXCEPT !.outcome = "timed_out"]
                                       ELSE attempt[a]]
<1>2. /\ alive \in Seq(DOMAIN attempt) /\ IsInjective(alive) /\ ToSet(alive) = active
      /\ ended \in Seq(DOMAIN attempt) /\ IsInjective(ended) /\ ToSet(ended) = expired
  <2>1. /\ alive \in Seq(DOMAIN attempt) /\ IsInjective(alive) /\ ToSet(alive) = ToSet(open) \cap active
        /\ ended \in Seq(DOMAIN attempt) /\ IsInjective(ended) /\ ToSet(ended) = ToSet(open) \cap expired
    BY KeepSelects, KeepElements DEF QueuesInv
  <2> QED
    BY <2>1
<1>3. /\ late \in [DOMAIN attempt -> Attempt]
      /\ \A a \in DOMAIN attempt :
           /\ late[a].profile = attempt[a].profile /\ late[a].parent = attempt[a].parent
           /\ late[a].children = attempt[a].children /\ late[a].events = attempt[a].events
           /\ late[a].stages = attempt[a].stages
           /\ late[a].outcome = IF a \in expired THEN "timed_out" ELSE attempt[a].outcome
  <2> SUFFICES ASSUME NEW a \in DOMAIN attempt
               PROVE  /\ late[a] \in Attempt
                      /\ late[a].profile = attempt[a].profile /\ late[a].parent = attempt[a].parent
                      /\ late[a].children = attempt[a].children /\ late[a].events = attempt[a].events
                      /\ late[a].stages = attempt[a].stages
                      /\ late[a].outcome = IF a \in expired THEN "timed_out" ELSE attempt[a].outcome
    OBVIOUS
  <2>1. attempt[a] \in Attempt
    BY DEF TypeInv
  <2> QED
    BY <2>1 DEF Attempt, Outcome
<1>4. \A x \in ambiguous' : \/ x \in ambiguous
                            \/ x.event = n /\ x.tied \subseteq DOMAIN attempt
  <2>1. Tied(active, e, f) \subseteq DOMAIN attempt
    BY DEF Tied, QueuesInv
  <2>2. ambiguous' \subseteq ambiguous \cup {[event |-> n, tied |-> Tied(active, e, f)]}
    BY <1>1 DEF Handle
  <2>3. ASSUME NEW x \in ambiguous', x \notin ambiguous
        PROVE  x.event = n /\ x.tied \subseteq DOMAIN attempt
    <3>1. x = [event |-> n, tied |-> Tied(active, e, f)]
      BY <2>2, <2>3
    <3> HIDE DEF n, f, active
    <3> QED
      BY <2>1, <3>1
  <2> QED
    BY <2>3
<1>5. \/ /\ Opens(active, e, f) /\ unassigned' = unassigned
         /\ Give(e, n, WithNew(late, active, n, e), Append(alive, n), ended)
      \/ unassigned' = unassigned \cup {n} /\ Close(late, alive, ended)
      \/ \E owner \in Owners(active, e, f) :
           Give(e, owner, late, alive, ended) /\ unassigned' = unassigned
  BY <1>1 DEF Handle
<1> HIDE DEF n, f, active, alive, ended, late
<1>6. /\ n = Len(log) + 1 /\ n \in Position /\ n \notin DOMAIN attempt /\ n # 0 /\ 0 \notin DOMAIN attempt
      /\ \A a \in DOMAIN attempt : a # n /\ a # 0
  <2>1. DOMAIN attempt \subseteq 1 .. Len(log) /\ Len(log) \in Nat
    BY AttemptsFinite DEF TypeInv
  <2> QED
    BY <1>0, <2>1 DEF Position, n
<1>7. /\ expired \subseteq DOMAIN attempt /\ active \subseteq DOMAIN attempt
      /\ completed \in Seq(DOMAIN attempt) /\ IsInjective(completed)
      /\ ToSet(completed) \cap ToSet(open) = {}
      /\ ToSet(completed) \subseteq DOMAIN attempt
  BY DEF QueuesInv, active
<1>8. CASE /\ Opens(active, e, f) /\ unassigned' = unassigned
           /\ Give(e, n, WithNew(late, active, n, e), Append(alive, n), ended)
  <2> DEFINE S == DOMAIN attempt \cup {n}
             new == WithNew(late, active, n, e)
  <2>1. Candidates(e) # {}
    BY <1>8 DEF Opens
  <2>2. /\ new \in [S -> Attempt]
        /\ \A a \in DOMAIN attempt :
             /\ new[a].profile = late[a].profile /\ new[a].parent = late[a].parent
             /\ new[a].events = late[a].events /\ new[a].stages = late[a].stages
             /\ new[a].outcome = late[a].outcome
             /\ new[a].children = IF a = new[n].parent THEN late[a].children \cup {n}
                                  ELSE late[a].children
        /\ new[n].parent \in active \cup {0}
        /\ new[n].events = << >> /\ new[n].stages = {} /\ new[n].outcome = "open"
        /\ new[n].children = {}
    <3>1. active \subseteq DOMAIN attempt /\ n = Len(log) + 1 /\ n <= MaxEvents
      BY <1>0, <1>6, <1>7
    <3>2. late \in [DOMAIN attempt -> Attempt]
      BY <1>3
    <3>3. new = WithNew(late, active, n, e)
      OBVIOUS
    <3> HIDE DEF new
    <3>4. Opened(late, new, active, n)
      BY <2>1, <3>1, <3>2, <3>3, NewAttempt
    <3> QED
      BY <1>3, <3>4 DEF Opened
  <2> HIDE DEF new
  <2>3. /\ Append(alive, n) \in Seq(S) /\ IsInjective(Append(alive, n))
        /\ ToSet(Append(alive, n)) = active \cup {n}
    <3>1. alive \in Seq(S)
      BY <1>2, SeqGrows
    <3>2. n \notin ToSet(alive)
      BY <1>2, <1>6, <1>7
    <3> QED
      BY <1>2, <3>1, <3>2, AppendElements
  <2>4. ended \in Seq(S) /\ completed \in Seq(S)
    BY <1>2, <1>7, SeqGrows
  <2>5. /\ ToSet(completed) \cap ToSet(ended) = {} /\ n \notin ToSet(ended) \cup ToSet(completed)
        /\ n \in S
    BY <1>2, <1>6, <1>7 DEF active
  <2>6. Give(e, n, new, Append(alive, n), ended)
    BY <1>8 DEF new
  <2>7. /\ attempt' = WithEvent(new, n, n, e)
        /\ Closes(S, attempt', active \cup {n}, EndsOf(expired, n))
    <3> HIDE DEF S
    <3>1. Len(log) + 1 \in Position /\ n = Len(log) + 1 /\ n # 0
      BY <1>6
    <3>2. IsInjective(ended) /\ ToSet(ended) = expired /\ IsInjective(completed)
      BY <1>2, <1>7
    <3>3. new \in [S -> Attempt]
      BY <2>2
    <3>4. /\ attempt' = WithEvent(new, n, Len(log) + 1, e)
          /\ Closes(S, attempt', ToSet(Append(alive, n)), EndsOf(ToSet(ended), n))
      BY <2>3, <2>4, <2>5, <2>6, <3>1, <3>2, <3>3, GiveGives
    <3>5. Closes(S, attempt', active \cup {n}, EndsOf(expired, n))
      BY <2>3, <3>2, <3>4
    <3> QED
      BY <3>1, <3>4, <3>5
  <2>8. new[n].profile \in Profile
    BY <2>2 DEF Attempt
  <2>9. /\ attempt' \in [S -> Attempt]
        /\ \A b \in DOMAIN attempt : attempt'[b] = new[b]
        /\ attempt'[n].profile = new[n].profile /\ attempt'[n].parent = new[n].parent
        /\ attempt'[n].children = new[n].children
        /\ attempt'[n].events = Append(new[n].events, n)
        /\ attempt'[n].stages = new[n].stages \cup Completes(new[n].profile, new[n].stages, e.kind)
        /\ attempt'[n].outcome = Verdict(new[n].profile, new[n].stages, e.kind)
    <3>1. \A b \in DOMAIN attempt : b \in S \ {n}
      BY <1>6
    <3> HIDE DEF S
    <3>2. new \in [S -> Attempt] /\ n \in S /\ n \in Position
      BY <1>6, <2>2, <2>5
    <3>3. Taken(new, attempt', n, n, e)
      BY <2>7, <2>8, <3>2, GivenEvent
    <3>4. DOMAIN new = S
      BY <3>2
    <3> QED
      BY <3>1, <3>3, <3>4 DEF Taken
  <2>10. Passed(e, expired, n)
    <3>1. DOMAIN attempt' = S /\ S = DOMAIN attempt \cup ({n} \ {0})
      BY <1>6, <2>9
    <3>2. Closes(DOMAIN attempt', attempt', active \cup ({n} \ {0}), EndsOf(expired, n))
      BY <1>6, <2>7, <3>1
    <3>3. \A a \in DOMAIN attempt :
            /\ attempt'[a].profile = attempt[a].profile
            /\ attempt'[a].parent = attempt[a].parent
            /\ attempt'[a].children = IF a = attempt'[n].parent
                                        THEN attempt[a].children \cup {n} ELSE attempt[a].children
            /\ attempt'[a].events = attempt[a].events
            /\ attempt'[a].stages = attempt[a].stages
            /\ attempt'[a].outcome = IF a \in expired THEN "timed_out" ELSE attempt[a].outcome
      <4> SUFFICES ASSUME NEW a \in DOMAIN attempt
                   PROVE  /\ attempt'[a] = new[a] /\ new[n].parent = attempt'[n].parent
                          /\ new[a].profile = attempt[a].profile
                          /\ new[a].parent = attempt[a].parent
                          /\ new[a].children = IF a = new[n].parent
                                                 THEN attempt[a].children \cup {n}
                                                 ELSE attempt[a].children
                          /\ new[a].events = attempt[a].events
                          /\ new[a].stages = attempt[a].stages
                          /\ new[a].outcome = IF a \in expired THEN "timed_out"
                                               ELSE attempt[a].outcome
        OBVIOUS
      <4>1. attempt'[a] = new[a] /\ new[n].parent = attempt'[n].parent
        BY <2>9
      <4>2. /\ new[a].profile = late[a].profile /\ new[a].parent = late[a].parent
            /\ new[a].events = late[a].events /\ new[a].stages = late[a].stages
            /\ new[a].outcome = late[a].outcome
            /\ new[a].children = IF a = new[n].parent THEN late[a].children \cup {n}
                                 ELSE late[a].children
        BY <2>2
      <4>3. /\ late[a].profile = attempt[a].profile /\ late[a].parent = attempt[a].parent
            /\ late[a].children = attempt[a].children /\ late[a].events = attempt[a].events
            /\ late[a].stages = attempt[a].stages
            /\ late[a].outcome = IF a \in expired THEN "timed_out" ELSE attempt[a].outcome
        BY <1>3
      <4> HIDE DEF S
      <4> QED
        BY <4>1, <4>2, <4>3
    <3> HIDE DEF S
    <3> QED
      BY <1>1, <1>4, <1>6, <1>8, <2>2, <2>9, <3>1, <3>2, <3>3 DEF Passed, f, n, active
  <2> QED
    BY <2>10
<1>9. CASE unassigned' = unassigned \cup {n} /\ Close(late, alive, ended)
  <2>1. ToSet(completed) \cap ToSet(ended) = {}
    BY <1>2, <1>7
  <2>2. Closes(DOMAIN attempt, late, active, expired)
    <3>1. Closes(DOMAIN attempt, late, ToSet(alive), ToSet(ended))
      BY <1>2, <1>7, <1>9, <2>1, CloseCloses
    <3> QED
      BY <1>2, <3>1
  <2>3. attempt' = late /\ DOMAIN late = DOMAIN attempt
    BY <1>3, <2>2 DEF Closes
  <2>4. /\ EndsOf(expired, 0) = expired /\ active \cup ({0} \ {0}) = active
        /\ DOMAIN attempt \cup ({0} \ {0}) = DOMAIN attempt
    BY DEF EndsOf
  <2>5. Passed(e, expired, 0)
    BY <1>1, <1>3, <1>4, <1>6, <1>9, <2>2, <2>3, <2>4 DEF Passed, n, active
  <2> QED
    BY <2>5
<1>10. ASSUME NEW owner \in Owners(active, e, f), Give(e, owner, late, alive, ended),
              unassigned' = unassigned
       PROVE  Passed(e, expired, owner)
  <2>1. owner \in active /\ owner \in DOMAIN attempt /\ owner # 0 /\ owner # n
    BY <1>6, <1>7 DEF Owners
  <2>2. /\ ToSet(completed) \cap ToSet(ended) = {}
        /\ owner \notin ToSet(ended) \cup ToSet(completed)
    BY <1>2, <1>7, <2>1 DEF active
  <2>3. /\ attempt' = WithEvent(late, owner, n, e)
        /\ Closes(DOMAIN attempt, attempt', active, EndsOf(expired, owner))
    <3>1. Len(log) + 1 \in Position /\ n = Len(log) + 1
      BY <1>6
    <3>2. late \in [DOMAIN attempt -> Attempt]
      BY <1>3
    <3>3. /\ attempt' = WithEvent(late, owner, Len(log) + 1, e)
          /\ Closes(DOMAIN attempt, attempt', ToSet(alive), EndsOf(ToSet(ended), owner))
      BY <1>2, <1>7, <1>10, <2>1, <2>2, <3>1, <3>2, GiveGives
    <3> QED
      BY <1>2, <3>1, <3>3
  <2>4. late[owner].profile \in Profile
    BY <1>3, <2>1 DEF Attempt
  <2>5. /\ attempt' \in [DOMAIN attempt -> Attempt]
        /\ \A b \in DOMAIN attempt \ {owner} : attempt'[b] = late[b]
        /\ attempt'[owner].profile = late[owner].profile
        /\ attempt'[owner].parent = late[owner].parent
        /\ attempt'[owner].children = late[owner].children
        /\ attempt'[owner].events = Append(late[owner].events, n)
        /\ attempt'[owner].stages =
             late[owner].stages \cup Completes(late[owner].profile, late[owner].stages, e.kind)
        /\ attempt'[owner].outcome = Verdict(late[owner].profile, late[owner].stages, e.kind)
    <3>1. late \in [DOMAIN attempt -> Attempt] /\ n \in Position
      BY <1>3, <1>6
    <3>2. Taken(late, attempt', owner, n, e)
      BY <2>1, <2>3, <2>4, <3>1, GivenEvent
    <3>3. DOMAIN late = DOMAIN attempt
      BY <3>1
    <3> QED
      BY <3>2, <3>3 DEF Taken
  <2>6. /\ DOMAIN attempt' = DOMAIN attempt /\ DOMAIN attempt \cup ({owner} \ {0}) = DOMAIN attempt
        /\ active \cup ({owner} \ {0}) = active
    BY <2>1, <2>5
  <2>7. \A a \in DOMAIN attempt :
          /\ attempt'[a].profile = attempt[a].profile
          /\ attempt'[a].parent = attempt[a].parent
          /\ attempt'[a].children = attempt[a].children
          /\ a # owner =>
               /\ attempt'[a].events = attempt[a].events
               /\ attempt'[a].stages = attempt[a].stages
               /\ attempt'[a].outcome = IF a \in expired THEN "timed_out" ELSE attempt[a].outcome
    BY <1>3, <2>5
  <2>8. /\ attempt'[owner].events = Append(attempt[owner].events, n)
        /\ attempt'[owner].stages =
             attempt[owner].stages \cup Completes(attempt[owner].profile, attempt[owner].stages, e.kind)
        /\ attempt'[owner].outcome = Verdict(attempt[owner].profile, attempt[owner].stages, e.kind)
    BY <1>3, <2>1, <2>5
  <2>9. Closes(DOMAIN attempt', attempt', active \cup ({owner} \ {0}), EndsOf(expired, owner))
    BY <2>3, <2>6
  <2> QED
    BY <1>1, <1>4, <1>10, <2>1, <2>5, <2>6, <2>7, <2>8, <2>9 DEF Passed, f, n, active
<1> QED
  BY <1>5, <1>8, <1>9, <1>10

-----------------------------------------------------------------------------
(* The pass keeps the invariant.                                           *)

\* A record that the attempt completed i-th retries the one completed j-th.
Alike(a, b) ==
  /\ attempt[a].profile = attempt[b].profile
  /\ log[a].event.ue = log[b].event.ue
  /\ log[a].event.session = log[b].event.session

RetryAt(r, i, j) ==
  /\ j < i
  /\ r.left = completed[i] /\ r.right = completed[j]
  /\ Alike(completed[i], completed[j])
  /\ \A m \in (j + 1) .. (i - 1) : ~ Alike(completed[i], completed[m])
  /\ attempt[completed[j]].outcome # "succeeded"

LEMMA RetriesFound ==
  ASSUME NEW S, completed' \in Seq(S), Len(completed) \in Nat
  PROVE  \A r \in Retries : /\ r.kind = "retry_of" /\ r.left \in S /\ r.right \in S
                            /\ r = [kind |-> "retry_of", left |-> r.left, right |-> r.right]
                            /\ \E i, j \in DOMAIN completed' : RetryAt(r, i, j)'
<1> SUFFICES ASSUME NEW r \in Retries
             PROVE  /\ r.kind = "retry_of" /\ r.left \in S /\ r.right \in S
                    /\ r = [kind |-> "retry_of", left |-> r.left, right |-> r.right]
                    /\ \E i, j \in DOMAIN completed' : RetryAt(r, i, j)'
  OBVIOUS
<1>1. PICK x \in ((Len(completed) + 1) .. Len(completed')) \X (1 .. Len(completed')) :
        /\ r = [kind |-> "retry_of", left |-> completed'[x[1]], right |-> completed'[x[2]]]
        /\ x[2] < x[1]
        /\ SameRetryKey(completed'[x[1]], completed'[x[2]])
        /\ \A m \in (x[2] + 1) .. (x[1] - 1) : ~ SameRetryKey(completed'[x[1]], completed'[m])
        /\ attempt'[completed'[x[2]]].outcome # "succeeded"
  BY DEF Retries
<1>2. x[1] \in DOMAIN completed' /\ x[2] \in DOMAIN completed'
  OBVIOUS
<1>3. completed'[x[1]] \in S /\ completed'[x[2]] \in S
  BY <1>2
<1>4. r.kind = "retry_of" /\ r.left = completed'[x[1]] /\ r.right = completed'[x[2]]
  BY <1>1
<1>5. RetryAt(r, x[1], x[2])'
  BY <1>1, <1>4 DEF RetryAt, Alike, SameRetryKey
<1> QED
  BY <1>1, <1>2, <1>3, <1>4, <1>5

LEMMA RetriesTyped ==
  ASSUME NEW S, completed' \in Seq(S), Len(completed) \in Nat, S \subseteq Position
  PROVE  Retries \subseteq Relation
<1> SUFFICES ASSUME NEW r \in Retries PROVE r \in Relation
  OBVIOUS
<1>1. /\ r.left \in Position /\ r.right \in Position
      /\ r = [kind |-> "retry_of", left |-> r.left, right |-> r.right]
  BY RetriesFound
<1> QED
  BY <1>1 DEF Relation

LEMMA PassTyped ==
  ASSUME TypeInv, QueuesInv, NEW e, Logged(e), NEW expired, NEW owner, Passed(e, expired, owner)
  PROVE  TypeInv'
<1> DEFINE n == Len(log) + 1
<1>1. /\ log' \in Seq(Entry) /\ Len(log') <= MaxEvents
      /\ clock' \in [frame : Nat, second : Nat, time : Stamp]
      /\ phase' \in {"reading", "closing", "done"} /\ rank' \in Ranks
      /\ DOMAIN log' = DOMAIN log \cup {n}
  BY DEF Logged, TypeInv
<1>2. owner = 0 \/ owner = n \/ owner \in DOMAIN attempt
  BY DEF Passed, Owners, QueuesInv
<1>3. /\ attempt' \in [DOMAIN attempt' -> Attempt]
      /\ DOMAIN attempt' = DOMAIN attempt \cup ({owner} \ {0})
  BY DEF Passed
<1>4. DOMAIN attempt' \subseteq DOMAIN log'
  BY <1>1, <1>2, <1>3 DEF TypeInv
<1>5. unassigned' \subseteq DOMAIN log'
  BY <1>1 DEF Passed, TypeInv
<1>6. \A x \in ambiguous' : x.event \in DOMAIN log' /\ x.tied \subseteq DOMAIN attempt'
  <2> SUFFICES ASSUME NEW x \in ambiguous'
               PROVE  x.event \in DOMAIN log' /\ x.tied \subseteq DOMAIN attempt'
    OBVIOUS
  <2>1. (x.event \in DOMAIN log \/ x.event = n) /\ x.tied \subseteq DOMAIN attempt
    BY DEF Passed, TypeInv
  <2> QED
    BY <1>1, <1>3, <2>1
<1>7. relations' \subseteq Relation
  <2>1. DOMAIN attempt' \subseteq Position
    <3>1. DOMAIN log' = 1 .. Len(log') /\ Len(log') \in Nat
      BY <1>1
    <3> QED
      BY <1>1, <1>4, <3>1, AttemptAssumption, SMTT(40) DEF Position, AttemptAssumption
  <2>2. completed' \in Seq(DOMAIN attempt') /\ relations' = relations \cup Retries
    BY DEF Passed, Closes
  <2>3. Len(completed) \in Nat
    BY DEF QueuesInv
  <2> QED
    BY <2>1, <2>2, <2>3, RetriesTyped DEF TypeInv
<1> QED
  BY <1>1, <1>3, <1>4, <1>5, <1>6, <1>7 DEF TypeInv

LEMMA NewIsNew ==
  ASSUME TypeInv
  PROVE  /\ Len(log) + 1 \notin DOMAIN log /\ Len(log) + 1 \notin DOMAIN attempt
         /\ 0 \notin DOMAIN attempt /\ Len(log) + 1 # 0 /\ Len(log) + 1 \in Nat
         /\ Len(log) + 1 \notin unassigned
         /\ \A a \in DOMAIN attempt : a <= Len(log)
<1>1. DOMAIN log = 1 .. Len(log) /\ Len(log) \in Nat
  BY AttemptsFinite
<1>2. DOMAIN attempt \subseteq DOMAIN log /\ unassigned \subseteq DOMAIN log
  BY DEF TypeInv
<1> QED
  BY <1>1, <1>2

LEMMA PassQueues ==
  ASSUME TypeInv, QueuesInv, NEW e, NEW expired, NEW owner, Passed(e, expired, owner)
  PROVE  QueuesInv'
<1> DEFINE n == Len(log) + 1
           active == ToSet(open) \ expired
           ends == EndsOf(expired, owner)
<1>1. n \notin DOMAIN attempt /\ 0 \notin DOMAIN attempt /\ n # 0
  BY NewIsNew
<1>2. owner = 0 \/ owner = n \/ owner \in active
  BY DEF Passed, Owners
<1>3. /\ DOMAIN attempt' = DOMAIN attempt \cup ({owner} \ {0})
      /\ expired \subseteq ToSet(open)
  BY DEF Passed
<1>4. Closes(DOMAIN attempt', attempt', active \cup ({owner} \ {0}), ends)
  BY DEF Passed
<1>5. expired \subseteq ends /\ ends \subseteq expired \cup ({owner} \ {0})
  BY DEF EndsOf
<1> HIDE DEF ends, n
<1>6. /\ open' \in Seq(DOMAIN attempt') /\ IsInjective(open')
      /\ completed' \in Seq(DOMAIN attempt') /\ IsInjective(completed')
      /\ ToSet(open') = (active \cup ({owner} \ {0})) \ ends
      /\ ToSet(completed') = ToSet(completed) \cup ends
  BY <1>4 DEF Closes
<1>7. /\ ToSet(open) \cap ToSet(completed) = {}
      /\ DOMAIN attempt = ToSet(open) \cup ToSet(completed)
  BY DEF QueuesInv
<1>8. ToSet(open') \cap ToSet(completed') = {}
  BY <1>1, <1>2, <1>3, <1>5, <1>6, <1>7
<1>9. DOMAIN attempt' = ToSet(open') \cup ToSet(completed')
  BY <1>1, <1>2, <1>3, <1>5, <1>6, <1>7
<1> QED
  BY <1>6, <1>8, <1>9 DEF QueuesInv

\* The events that attempt a had before the pass.
EventsBefore(a) == IF a \in DOMAIN attempt THEN attempt[a].events ELSE << >>

\* An event of an attempt was its event before, or is the owner's new one.
LEMMA PassEvents ==
  ASSUME TypeInv, QueuesInv, EventsInv, NEW e, NEW expired, NEW owner,
         Passed(e, expired, owner), NEW a \in DOMAIN attempt'
  PROVE  /\ EventsBefore(a) \in Seq(Position)
         /\ attempt'[a].events = IF a = owner THEN Append(EventsBefore(a), Len(log) + 1)
                                 ELSE EventsBefore(a)
         /\ a # owner => a \in DOMAIN attempt
         /\ a = owner \/ a \in DOMAIN attempt
         /\ \A k \in DOMAIN EventsBefore(a) :
              /\ a \in DOMAIN attempt /\ attempt[a].events[k] = EventsBefore(a)[k]
              /\ EventsBefore(a)[k] \in DOMAIN log \ unassigned /\ k <= EventsBefore(a)[k]
              /\ k \in DOMAIN attempt'[a].events /\ attempt'[a].events[k] = EventsBefore(a)[k]
         /\ \A k \in DOMAIN attempt'[a].events :
              \/ k \in DOMAIN EventsBefore(a)
              \/ /\ a = owner /\ k = Len(EventsBefore(a)) + 1
                 /\ attempt'[a].events[k] = Len(log) + 1
<1> DEFINE n == Len(log) + 1
           old == EventsBefore(a)
<1>1. /\ 0 \notin DOMAIN attempt /\ n \notin DOMAIN attempt
  BY NewIsNew
<1>2. a \in DOMAIN attempt \/ (a = owner /\ owner # 0)
  BY DEF Passed
<1>3. old \in Seq(Position)
  <2>1. CASE a \in DOMAIN attempt
    <3>1. attempt[a] \in Attempt
      BY <2>1 DEF TypeInv
    <3> QED
      BY <2>1, <3>1 DEF EventsBefore, Attempt
  <2>2. CASE a \notin DOMAIN attempt
    BY <2>2 DEF EventsBefore
  <2> QED
    BY <2>1, <2>2
<1>4. attempt'[a].events = IF a = owner THEN Append(old, n) ELSE old
  <2>1. CASE a # owner
    BY <1>2, <2>1 DEF Passed, EventsBefore
  <2>2. CASE a = owner
    <3>1. owner = n \/ owner \in DOMAIN attempt
      BY <1>2, <2>2 DEF Passed, Owners, QueuesInv
    <3>2. owner # 0
      BY <1>1, <1>2, <2>2
    <3> QED
      BY <1>1, <2>2, <3>1, <3>2 DEF Passed, EventsBefore
  <2> QED
    BY <2>1, <2>2
<1>5. \A k \in DOMAIN old :
        /\ a \in DOMAIN attempt /\ attempt[a].events[k] = old[k]
        /\ old[k] \in DOMAIN log \ unassigned /\ k <= old[k]
  BY DEF EventsBefore, EventsInv
<1> HIDE DEF old
<1>6. \A k \in DOMAIN old : k \in DOMAIN attempt'[a].events /\ attempt'[a].events[k] = old[k]
  BY <1>3, <1>4
<1>7. \A k \in DOMAIN attempt'[a].events :
        \/ k \in DOMAIN old
        \/ a = owner /\ k = Len(old) + 1 /\ attempt'[a].events[k] = n
  BY <1>3, <1>4
<1> QED
  BY <1>2, <1>3, <1>4, <1>5, <1>6, <1>7 DEF old

\* The attempt an event is given to has it at the end.
LEMMA OwnerEvents ==
  ASSUME TypeInv, QueuesInv, EventsInv, NEW e, NEW expired, NEW owner,
         Passed(e, expired, owner), owner \in DOMAIN attempt'
  PROVE  /\ EventsBefore(owner) \in Seq(Position)
         /\ attempt'[owner].events = Append(EventsBefore(owner), Len(log) + 1)
BY PassEvents, ZenonT(90)

LEMMA PassEventsInv ==
  ASSUME TypeInv, QueuesInv, EventsInv, NEW e, Logged(e), NEW expired, NEW owner,
         Passed(e, expired, owner)
  PROVE  EventsInv'
<1> DEFINE n == Len(log) + 1
<1>1. /\ DOMAIN log' = DOMAIN log \cup {n} /\ n \notin DOMAIN log /\ n \notin unassigned
      /\ unassigned \subseteq DOMAIN log /\ DOMAIN log = 1 .. Len(log) /\ Len(log) \in Nat
      /\ DOMAIN attempt \subseteq DOMAIN attempt' /\ n \in Nat
  BY NewIsNew, AttemptsFinite DEF Logged, TypeInv, Passed
<1>2. unassigned' = IF owner = 0 THEN unassigned \cup {n} ELSE unassigned
  BY DEF Passed
<1>3. owner # 0 => owner \in DOMAIN attempt'
  BY DEF Passed
<1>4. 0 \notin DOMAIN attempt'
  BY NewIsNew DEF Passed
<1> HIDE DEF n
<1>5. ASSUME NEW a \in DOMAIN attempt'
      PROVE  /\ attempt'[a].events # << >>
             /\ \A k \in DOMAIN attempt'[a].events :
                  attempt'[a].events[k] \in DOMAIN log' \ unassigned' /\ k <= attempt'[a].events[k]
  <2> DEFINE old == EventsBefore(a)
  <2>1. /\ old \in Seq(Position)
        /\ attempt'[a].events = IF a = owner THEN Append(old, n) ELSE old
        /\ a # owner => a \in DOMAIN attempt
        /\ \A k \in DOMAIN old :
             /\ old[k] \in DOMAIN log \ unassigned /\ k <= old[k]
             /\ attempt'[a].events[k] = old[k]
        /\ \A k \in DOMAIN attempt'[a].events :
             \/ k \in DOMAIN old
             \/ a = owner /\ k = Len(old) + 1 /\ attempt'[a].events[k] = n
    BY PassEvents DEF n
  <2>2. a # owner => old # << >>
    BY <2>1 DEF EventsInv, EventsBefore
  <2> HIDE DEF old
  <2>3. attempt'[a].events # << >>
    BY <2>1, <2>2
  <2>4. ASSUME NEW k \in DOMAIN attempt'[a].events
        PROVE  attempt'[a].events[k] \in DOMAIN log' \ unassigned' /\ k <= attempt'[a].events[k]
    <3>1. CASE k \in DOMAIN old
      BY <1>1, <1>2, <2>1, <3>1
    <3>2. CASE a = owner /\ k = Len(old) + 1 /\ attempt'[a].events[k] = n
      <4>1. Len(old) < n
        <5>1. CASE old = << >>
          BY <1>1, <5>1 DEF n
        <5>2. CASE old # << >>
          <6>1. Len(old) \in DOMAIN old
            BY <2>1, <5>2
          <6>2. Len(old) <= old[Len(old)] /\ old[Len(old)] \in DOMAIN log
            BY <2>1, <6>1
          <6>3. Len(old) \in Nat
            BY <2>1
          <6> QED
            BY <1>1, <6>2, <6>3 DEF n
        <5> QED
          BY <5>1, <5>2
      <4>2. owner # 0 /\ Len(old) \in Nat
        BY <1>4, <2>1, <3>2
      <4> QED
        BY <1>1, <1>2, <3>2, <4>1, <4>2
    <3> QED
      BY <2>1, <3>1, <3>2
  <2> QED
    BY <2>3, <2>4
<1>6. ASSUME NEW m \in DOMAIN log' \ unassigned'
      PROVE  \E a \in DOMAIN attempt' :
               \E k \in DOMAIN attempt'[a].events : attempt'[a].events[k] = m
  <2>1. CASE m = n
    <3>1. owner # 0 /\ owner \in DOMAIN attempt'
      BY <1>2, <1>3, <1>6, <2>1
    <3>2. /\ EventsBefore(owner) \in Seq(Position)
          /\ attempt'[owner].events = Append(EventsBefore(owner), n)
      BY <3>1, OwnerEvents DEF n
    <3> DEFINE k == Len(EventsBefore(owner)) + 1
    <3>3. k \in DOMAIN attempt'[owner].events /\ attempt'[owner].events[k] = n
      BY <3>2
    <3> QED
      BY <2>1, <3>1, <3>3
  <2>2. CASE m # n
    <3>1. m \in DOMAIN log \ unassigned
      BY <1>1, <1>2, <1>6, <2>2
    <3>2. PICK a \in DOMAIN attempt :
            \E k \in DOMAIN attempt[a].events : attempt[a].events[k] = m
      BY <3>1 DEF EventsInv
    <3>3. PICK k \in DOMAIN EventsBefore(a) : EventsBefore(a)[k] = m
      BY <3>2 DEF EventsBefore
    <3>4. a \in DOMAIN attempt'
      BY <1>1
    <3>5. k \in DOMAIN attempt'[a].events /\ attempt'[a].events[k] = m
      BY <3>3, <3>4, PassEvents
    <3> QED
      BY <3>4, <3>5
  <2> QED
    BY <2>1, <2>2
<1>7. ASSUME NEW a \in DOMAIN attempt', NEW b \in DOMAIN attempt',
             NEW k \in DOMAIN attempt'[a].events, NEW l \in DOMAIN attempt'[b].events,
             attempt'[a].events[k] = attempt'[b].events[l]
      PROVE  a = b /\ k = l
  <2>1. /\ k \in DOMAIN EventsBefore(a) =>
             /\ a \in DOMAIN attempt /\ attempt[a].events[k] = attempt'[a].events[k]
             /\ attempt'[a].events[k] # n /\ k \in DOMAIN attempt[a].events
        /\ \/ k \in DOMAIN EventsBefore(a)
           \/ a = owner /\ k = Len(EventsBefore(a)) + 1 /\ attempt'[a].events[k] = n
    BY <1>1, PassEvents DEF EventsBefore, n
  <2>2. /\ l \in DOMAIN EventsBefore(b) =>
             /\ b \in DOMAIN attempt /\ attempt[b].events[l] = attempt'[b].events[l]
             /\ attempt'[b].events[l] # n /\ l \in DOMAIN attempt[b].events
        /\ \/ l \in DOMAIN EventsBefore(b)
           \/ b = owner /\ l = Len(EventsBefore(b)) + 1 /\ attempt'[b].events[l] = n
    BY <1>1, PassEvents DEF EventsBefore, n
  <2>3. CASE attempt'[a].events[k] = n
    BY <1>7, <2>1, <2>2, <2>3
  <2>4. CASE attempt'[a].events[k] # n
    BY <1>7, <2>1, <2>2, <2>4 DEF EventsInv
  <2> QED
    BY <2>3, <2>4
<1> QED
  BY <1>5, <1>6, <1>7 DEF EventsInv

-----------------------------------------------------------------------------
(* Outcomes and time-outs.                                                 *)

\* None of the stages that attempt a has passed is an end.
NoEndPassed(a) ==
  LET stages == Registry[attempt[a].profile].stages
  IN  \A k \in DOMAIN stages : k \in attempt[a].stages => ~ (stages[k].success \/ stages[k].failure)

\* No event since the last one of attempt a has come after its time-outs.
Heard(a) ==
  \A n \in (Last(attempt[a].events) + 1) .. Len(log) :
    ~ Silent(attempt[a].profile, LastEntry(a), log[n])

\* What is open has not ended, and is heard of; what is completed has the
\* outcome it has earned.
OutcomesInv ==
  /\ \A a \in ToSet(open) :
       attempt[a].outcome = "open" /\ ~ EndedByEvent(a) /\ NoEndPassed(a) /\ Heard(a)
  /\ \A a \in ToSet(completed) :
       /\ attempt[a].outcome # "open"
       /\ phase = "reading" => attempt[a].outcome # "incomplete_capture"
  /\ OutcomeEarned
  /\ NoLongSilence

LEMMA LastLogged ==
  ASSUME TypeInv, EventsInv, NEW a \in DOMAIN attempt
  PROVE  /\ attempt[a].events \in Seq(Position) /\ attempt[a].events # << >>
         /\ Len(attempt[a].events) \in DOMAIN attempt[a].events
         /\ Last(attempt[a].events) = attempt[a].events[Len(attempt[a].events)]
         /\ Last(attempt[a].events) \in DOMAIN log
<1>1. attempt[a] \in Attempt
  BY DEF TypeInv
<1>2. attempt[a].events \in Seq(Position) /\ attempt[a].events # << >>
  BY <1>1 DEF Attempt, EventsInv
<1>3. Len(attempt[a].events) \in DOMAIN attempt[a].events
  BY <1>2
<1>4. Last(attempt[a].events) = attempt[a].events[Len(attempt[a].events)]
  BY DEF Last
<1> QED
  BY <1>2, <1>3, <1>4 DEF EventsInv

\* Silence is measured by frames and time stamps alone.
LEMMA SilentAt ==
  ASSUME NEW e, Logged(e), NEW p, NEW from
  PROVE  Silent(p, from, log'[Len(log) + 1]) <=> Silent(p, from, clock')
<1>1. /\ log'[Len(log) + 1].frame = clock'.frame
      /\ log'[Len(log) + 1].time = clock'.time
  BY DEF Logged
<1> QED
  BY <1>1 DEF Silent

LEMMA OthersUnmoved ==
  ASSUME TypeInv, QueuesInv, EventsInv, NEW e, Logged(e), NEW expired, NEW owner,
         Passed(e, expired, owner), NEW a \in DOMAIN attempt, a # owner
  PROVE  /\ attempt'[a].events = attempt[a].events
         /\ attempt'[a].profile = attempt[a].profile
         /\ attempt'[a].stages = attempt[a].stages
         /\ attempt'[a].outcome = IF a \in expired THEN "timed_out" ELSE attempt[a].outcome
         /\ LastEntry(a)' = LastEntry(a)
         /\ EndedByEvent(a)' <=> EndedByEvent(a)
         /\ NoEndPassed(a)' <=> NoEndPassed(a)
<1>1. /\ attempt'[a].events = attempt[a].events
      /\ attempt'[a].profile = attempt[a].profile
      /\ attempt'[a].stages = attempt[a].stages
      /\ attempt'[a].outcome = IF a \in expired THEN "timed_out" ELSE attempt[a].outcome
  BY DEF Passed
<1>2. log'[Last(attempt[a].events)] = log[Last(attempt[a].events)]
  BY LastLogged DEF Logged
<1>3. LastEntry(a)' = LastEntry(a)
  BY <1>1, <1>2 DEF LastEntry
<1>4. EndedByEvent(a)' <=> EndedByEvent(a)
  BY <1>1, <1>2 DEF EndedByEvent
<1>5. NoEndPassed(a)' <=> NoEndPassed(a)
  BY <1>1 DEF NoEndPassed
<1> QED
  BY <1>1, <1>3, <1>4, <1>5

LEMMA OwnerMoved ==
  ASSUME TypeInv, QueuesInv, EventsInv, OutcomesInv, NEW e, Logged(e), NEW expired, NEW owner,
         Passed(e, expired, owner), owner # 0
  PROVE  /\ Last(attempt'[owner].events) = Len(log) + 1
         /\ LastEntry(owner)' = log'[Len(log) + 1]
         /\ attempt'[owner].outcome \in {"open", "succeeded", "failed", "aborted"}
         /\ attempt'[owner].outcome # "open" <=> EndedByEvent(owner)'
         /\ attempt'[owner].outcome = "open" => NoEndPassed(owner)'
<1> DEFINE n == Len(log) + 1
           p == attempt'[owner].profile
           passed == IF owner = n THEN {} ELSE attempt[owner].stages
<1>1. owner \in DOMAIN attempt'
  BY DEF Passed
<1>2. /\ EventsBefore(owner) \in Seq(Position)
      /\ attempt'[owner].events = Append(EventsBefore(owner), n)
  BY <1>1, OwnerEvents
<1>3. Last(attempt'[owner].events) = n
  BY <1>2 DEF Last
<1>4. LastEntry(owner)' = log'[n]
  BY <1>3 DEF LastEntry
<1>5. /\ attempt'[owner].stages = passed \cup Completes(p, passed, e.kind)
      /\ attempt'[owner].outcome = Verdict(p, passed, e.kind)
  BY DEF Passed
<1>6. \A k \in DOMAIN Registry[p].stages :
        k \in passed => ~ (Registry[p].stages[k].success \/ Registry[p].stages[k].failure)
  <2>1. CASE owner = n
    BY <2>1
  <2>2. CASE owner # n
    <3>1. owner \in ToSet(open) /\ owner \in DOMAIN attempt
      BY <2>2 DEF Passed, Owners, QueuesInv
    <3>2. NoEndPassed(owner) /\ attempt'[owner].profile = attempt[owner].profile
      BY <3>1 DEF OutcomesInv, Passed
    <3> QED
      BY <2>2, <3>2 DEF NoEndPassed
  <2> QED
    BY <2>1, <2>2
<1>7. log'[n].event.kind = e.kind
  BY DEF Logged
<1>8. EndedByEvent(owner)' <=>
        \/ e.kind \in Registry[p].success \cup Registry[p].failure \cup Registry[p].abort
        \/ \E k \in DOMAIN Registry[p].stages :
             /\ e.kind \in Registry[p].stages[k].on
             /\ Registry[p].stages[k].success \/ Registry[p].stages[k].failure
  <2>1. log'[Last(attempt'[owner].events)].event.kind = e.kind
    BY <1>3, <1>7
  <2> HIDE DEF n
  <2> QED
    BY <2>1 DEF EndedByEvent
<1> HIDE DEF n, p, passed
<1>9. CASE attempt'[owner].outcome # "open"
  <2>1. Verdict(p, passed, e.kind) # "open"
    BY <1>5, <1>9
  <2>2. EndedByEvent(owner)'
    BY <1>8, <2>1, VerdictSound
  <2>3. attempt'[owner].outcome \in {"open", "succeeded", "failed", "aborted"}
    BY <1>5, VerdictSound
  <2> QED
    BY <1>3, <1>4, <1>9, <2>2, <2>3 DEF n
<1>10. CASE attempt'[owner].outcome = "open"
  <2>1. Verdict(p, passed, e.kind) = "open"
    BY <1>5, <1>10
  <2>2. /\ e.kind \notin Registry[p].success \cup Registry[p].failure \cup Registry[p].abort
        /\ \A k \in Completes(p, passed, e.kind) :
             ~ (Registry[p].stages[k].success \/ Registry[p].stages[k].failure)
    BY <2>1, VerdictSound
  <2>3. ASSUME NEW k \in DOMAIN Registry[p].stages,
               Registry[p].stages[k].success \/ Registry[p].stages[k].failure
        PROVE  e.kind \notin Registry[p].stages[k].on /\ k \notin attempt'[owner].stages
    <3>1. k \notin Completes(p, passed, e.kind) /\ k \notin passed
      BY <1>6, <2>2, <2>3
    <3> QED
      BY <1>5, <3>1 DEF Completes
  <2>4. ~ EndedByEvent(owner)'
    BY <1>8, <2>2, <2>3
  <2>5. NoEndPassed(owner)'
    BY <2>3 DEF NoEndPassed, p
  <2> QED
    BY <1>3, <1>4, <1>10, <2>4, <2>5 DEF n
<1> QED
  BY <1>9, <1>10

LEMMA PassOutcomes ==
  ASSUME TypeInv, QueuesInv, EventsInv, OutcomesInv, NEW e, Logged(e), NEW expired, NEW owner,
         Passed(e, expired, owner)
  PROVE  OutcomesInv'
<1> DEFINE n == Len(log) + 1
           active == ToSet(open) \ expired
           ends == EndsOf(expired, owner)
<1>1. /\ DOMAIN log' = DOMAIN log \cup {n} /\ Len(log') = n /\ Len(log) \in Nat
      /\ DOMAIN log = 1 .. Len(log) /\ phase = "reading" /\ phase' = "reading"
      /\ \A k \in DOMAIN log : log'[k] = log[k]
  BY AttemptsFinite DEF Logged
<1>2. /\ n \notin DOMAIN attempt /\ 0 \notin DOMAIN attempt /\ n # 0
  BY NewIsNew
<1>3. /\ owner = 0 \/ owner = n \/ owner \in active
      /\ expired \subseteq ToSet(open)
      /\ \A a \in ToSet(open) : a \in expired <=> Silent(attempt[a].profile, LastEntry(a), clock')
  BY DEF Passed, Owners
<1>4. /\ ToSet(open') = (active \cup ({owner} \ {0})) \ ends
      /\ ToSet(completed') = ToSet(completed) \cup ends
  BY DEF Passed, Closes
<1>5. /\ ToSet(open) \cap ToSet(completed) = {}
      /\ ToSet(open) \subseteq DOMAIN attempt /\ ToSet(completed) \subseteq DOMAIN attempt
  BY DEF QueuesInv
<1>6. \A a \in ends : \/ a \in expired /\ a # owner
                      \/ a = owner /\ owner # 0 /\ attempt'[owner].outcome # "open"
  BY <1>2, <1>3, <1>5 DEF EndsOf
<1>7. \A a \in ToSet(open') : \/ a \in active /\ a # owner
                              \/ a = owner /\ owner # 0 /\ attempt'[owner].outcome = "open"
  BY <1>2, <1>4, <1>5 DEF EndsOf
<1>8. \A p, from : Silent(p, from, log'[n]) <=> Silent(p, from, clock')
  BY SilentAt
<1> HIDE DEF n, ends
<1>9. ASSUME NEW a \in ToSet(open')
      PROVE  /\ attempt'[a].outcome = "open" /\ ~ EndedByEvent(a)' /\ NoEndPassed(a)'
             /\ Heard(a)'
  <2>1. CASE a = owner /\ owner # 0 /\ attempt'[owner].outcome = "open"
    <3>1. /\ ~ EndedByEvent(a)' /\ NoEndPassed(a)' /\ Last(attempt'[a].events) = n
      BY <2>1, OwnerMoved DEF n
    <3>2. (n + 1) .. Len(log') = {}
      BY <1>1 DEF n
    <3>3. Heard(a)'
      BY <3>1, <3>2 DEF Heard
    <3> QED
      BY <2>1, <3>1, <3>3
  <2>2. CASE a \in active /\ a # owner
    <3>1. a \in DOMAIN attempt /\ a \in ToSet(open) /\ a \notin expired
      BY <1>5, <2>2
    <3>2. /\ attempt'[a].events = attempt[a].events
          /\ attempt'[a].profile = attempt[a].profile
          /\ attempt'[a].outcome = attempt[a].outcome
          /\ LastEntry(a)' = LastEntry(a)
          /\ EndedByEvent(a)' <=> EndedByEvent(a)
          /\ NoEndPassed(a)' <=> NoEndPassed(a)
      BY <2>2, <3>1, OthersUnmoved
    <3>3. ASSUME NEW m \in (Last(attempt[a].events) + 1) .. Len(log')
          PROVE  ~ Silent(attempt[a].profile, LastEntry(a), log'[m])
      <4>1. CASE m = n
        BY <1>3, <1>8, <3>1, <4>1
      <4>2. CASE m # n
        <5>1. Last(attempt[a].events) \in 1 .. Len(log)
          BY <1>1, <3>1, LastLogged
        <5>2. m \in (Last(attempt[a].events) + 1) .. Len(log) /\ m \in DOMAIN log
          BY <1>1, <4>2, <5>1 DEF n
        <5>3. Heard(a)
          BY <3>1 DEF OutcomesInv
        <5> QED
          BY <1>1, <5>2, <5>3 DEF Heard
      <4> QED
        BY <4>1, <4>2
    <3>4. Heard(a)'
      BY <3>2, <3>3 DEF Heard
    <3> QED
      BY <3>1, <3>2, <3>4 DEF OutcomesInv
  <2> QED
    BY <1>7, <2>1, <2>2
<1>10. ASSUME NEW a \in ToSet(completed')
       PROVE  /\ attempt'[a].outcome # "open"
              /\ attempt'[a].outcome # "incomplete_capture"
              /\ attempt'[a].outcome \in {"succeeded", "failed", "aborted"} <=> EndedByEvent(a)'
              /\ attempt'[a].outcome = "timed_out" => Overdue(a)'
  <2>1. CASE a = owner /\ owner # 0 /\ attempt'[owner].outcome # "open"
    <3>1. /\ EndedByEvent(a)' /\ attempt'[a].outcome \in {"open", "succeeded", "failed", "aborted"}
      BY <2>1, OwnerMoved
    <3> QED
      BY <2>1, <3>1
  <2>2. CASE a \in expired /\ a # owner
    <3>1. a \in DOMAIN attempt /\ a \in ToSet(open)
      BY <1>3, <1>5, <2>2
    <3>2. /\ attempt'[a].outcome = "timed_out" /\ ~ EndedByEvent(a)'
          /\ attempt'[a].events = attempt[a].events /\ LastEntry(a)' = LastEntry(a)
          /\ attempt'[a].profile = attempt[a].profile
      BY <2>2, <3>1, OthersUnmoved DEF OutcomesInv
    <3>3. Last(attempt[a].events) \in 1 .. Len(log)
      BY <1>1, <3>1, LastLogged
    <3>4. n \in (Last(attempt[a].events) + 1) .. Len(log')
      BY <1>1, <3>3 DEF n
    <3>5. Silent(attempt[a].profile, LastEntry(a), log'[n])
      BY <1>3, <1>8, <2>2, <3>1
    <3>6. Overdue(a)'
      BY <3>2, <3>4, <3>5 DEF Overdue
    <3> QED
      BY <3>2, <3>6
  <2>3. CASE a \in ToSet(completed)
    <3>1. a \in DOMAIN attempt /\ a # owner /\ a \notin expired
      BY <1>2, <1>3, <1>5, <2>3
    <3>2. /\ attempt'[a].events = attempt[a].events
          /\ attempt'[a].profile = attempt[a].profile
          /\ attempt'[a].outcome = attempt[a].outcome
          /\ LastEntry(a)' = LastEntry(a)
          /\ EndedByEvent(a)' <=> EndedByEvent(a)
      BY <3>1, OthersUnmoved
    <3>3. ASSUME attempt[a].outcome = "timed_out" PROVE Overdue(a)'
      <4>1. Overdue(a)
        BY <2>3, <3>3 DEF OutcomesInv, OutcomeEarned
      <4>2. PICK m \in (Last(attempt[a].events) + 1) .. Len(log) :
              Silent(attempt[a].profile, LastEntry(a), log[m])
        BY <1>1, <4>1 DEF Overdue
      <4>3. Last(attempt[a].events) \in 1 .. Len(log)
        BY <1>1, <3>1, LastLogged
      <4>4. m \in DOMAIN log /\ m \in (Last(attempt[a].events) + 1) .. Len(log')
        BY <1>1, <4>3 DEF n
      <4>5. Silent(attempt[a].profile, LastEntry(a), log'[m])
        BY <1>1, <4>2, <4>4
      <4> QED
        BY <3>2, <4>4, <4>5 DEF Overdue
    <3> QED
      BY <1>1, <2>3, <3>2, <3>3 DEF OutcomesInv, OutcomeEarned
  <2> QED
    BY <1>4, <1>6, <2>1, <2>2, <2>3
<1>11. NoLongSilence'
  <2> SUFFICES ASSUME NEW a \in DOMAIN attempt', NEW k \in 1 .. (Len(attempt'[a].events) - 1)
               PROVE  ~ Silent(attempt'[a].profile, log'[attempt'[a].events[k]],
                               log'[attempt'[a].events[k + 1]])
    BY DEF NoLongSilence
  <2> DEFINE old == EventsBefore(a)
  <2>1. /\ old \in Seq(Position)
        /\ attempt'[a].events = IF a = owner THEN Append(old, n) ELSE old
        /\ \A i \in DOMAIN old : a \in DOMAIN attempt /\ old[i] \in DOMAIN log
        /\ a = owner \/ a \in DOMAIN attempt
    BY PassEvents DEF n
  <2>2. a \in DOMAIN attempt => old = attempt[a].events /\ attempt'[a].profile = attempt[a].profile
    BY DEF EventsBefore, Passed
  <2> HIDE DEF old
  <2>3. CASE k + 1 \in DOMAIN old
    <3>1. k \in DOMAIN old /\ k \in 1 .. (Len(old) - 1)
      BY <2>1, <2>3
    <3>2. attempt'[a].events[k] = old[k] /\ attempt'[a].events[k + 1] = old[k + 1]
      BY <2>1, <2>3, <3>1
    <3>3. a \in DOMAIN attempt /\ old[k] \in DOMAIN log /\ old[k + 1] \in DOMAIN log
      BY <2>1, <2>3, <3>1
    <3>4. ~ Silent(attempt[a].profile, log[old[k]], log[old[k + 1]])
      BY <2>2, <3>1, <3>3 DEF OutcomesInv, NoLongSilence
    <3> QED
      BY <1>1, <2>2, <3>2, <3>3, <3>4
  <2>4. CASE k + 1 \notin DOMAIN old
    <3>1. /\ a = owner /\ k = Len(old) /\ k \in DOMAIN old
          /\ attempt'[a].events[k] = old[k] /\ attempt'[a].events[k + 1] = n
      BY <2>1, <2>4
    <3>2. a \in DOMAIN attempt /\ a \in active /\ a \in ToSet(open)
      BY <1>2, <1>3, <2>1, <3>1
    <3>3. LastEntry(a) = log[old[k]] /\ old[k] \in DOMAIN log
      BY <2>1, <2>2, <3>1, <3>2 DEF LastEntry, Last
    <3>4. ~ Silent(attempt[a].profile, LastEntry(a), log'[n])
      BY <1>3, <1>8, <3>2
    <3> QED
      BY <1>1, <2>2, <3>1, <3>2, <3>3, <3>4
  <2> QED
    BY <2>3, <2>4
<1> QED
  BY <1>9, <1>10, <1>11 DEF OutcomesInv, OutcomeEarned

-----------------------------------------------------------------------------
(* Subscribers.                                                            *)

LEMMA PassTriggers ==
  ASSUME TypeInv, NEW e, Logged(e), NEW n, n = Len(log) + 1
  PROVE  /\ \A a \in DOMAIN attempt : Trigger(a)' = Trigger(a)
         /\ \A m \in DOMAIN log : log'[m] = log[m]
         /\ Trigger(n)' = e /\ log'[n].event = e
<1>1. \A m \in DOMAIN log : log'[m] = log[m]
  BY DEF Logged
<1>2. log'[n].event = e
  BY DEF Logged
<1> QED
  BY <1>1, <1>2 DEF Trigger, TypeInv

\* Without the same subscriber and the same context the score is at most 60.
LEMMA ForeignScore ==
  ASSUME NEW a, NEW e, NEW f, Differ(Trigger(a).ue, e.ue), ~ Same(Trigger(a).ctx, e.ctx)
  PROVE  Score(a, e, f) <= 60
<1>1. ~ Same(Trigger(a).ue, e.ue)
  BY DEF Differ, Same
<1>2. \A c, k : Points(c, k) = k \/ Points(c, k) = 0
  BY DEF Points
<1>3. Points(Same(Trigger(a).ue, e.ue), 35) = 0 /\ Points(Same(Trigger(a).ctx, e.ctx), 25) = 0
  BY <1>1 DEF Points
<1> QED
  BY <1>2, <1>3 DEF Score

LEMMA PassForeign ==
  ASSUME Limits.confidence > 60, TypeInv, QueuesInv, EventsInv, ForeignNeedsContext,
         NEW e, Logged(e), NEW expired, NEW owner, Passed(e, expired, owner)
  PROVE  ForeignNeedsContext'
<1> SUFFICES ASSUME NEW a \in DOMAIN attempt', NEW m \in ToSet(attempt'[a].events),
                    Differ(Trigger(a)'.ue, log'[m].event.ue)
             PROVE  Same(Trigger(a)'.ctx, log'[m].event.ctx)
  BY DEF ForeignNeedsContext
<1>0. PICK n : n = Len(log) + 1
  OBVIOUS
<1>1. PICK k \in DOMAIN attempt'[a].events : attempt'[a].events[k] = m
  BY DEF ToSet
<1>2. CASE k \in DOMAIN EventsBefore(a)
  <2>1. a \in DOMAIN attempt /\ k \in DOMAIN attempt[a].events /\ attempt[a].events[k] = m
    BY <1>1, <1>2, PassEvents DEF EventsBefore
  <2>2. m \in DOMAIN log /\ m \in ToSet(attempt[a].events)
    BY <2>1 DEF EventsInv, ToSet
  <2>3. Trigger(a)' = Trigger(a) /\ log'[m] = log[m]
    BY <1>0, <2>1, <2>2, PassTriggers
  <2> QED
    BY <2>1, <2>2, <2>3 DEF ForeignNeedsContext
<1>3. CASE k \notin DOMAIN EventsBefore(a)
  <2>1. a = owner /\ m = n
    BY <1>0, <1>1, <1>3, PassEvents
  <2>2. log'[m].event = e
    BY <1>0, <2>1, PassTriggers
  <2>3. CASE owner = n
    <3>1. Trigger(a)' = e
      BY <1>0, <2>1, <2>3, PassTriggers
    <3> QED
      BY <2>2, <3>1 DEF Differ
  <2>4. CASE owner # n
    <3>1. owner # 0 /\ a \in DOMAIN attempt
      BY <1>0, <2>1, <2>4, NewIsNew DEF Passed, Owners, QueuesInv
    <3>2. Score(owner, e, clock'.frame) >= Limits.confidence
      BY <1>0, <2>4, <3>1 DEF Passed, Owners
    <3>3. Trigger(a)' = Trigger(a)
      BY <1>0, <3>1, PassTriggers
    <3>4. CASE ~ Same(Trigger(a).ctx, e.ctx)
      <4>1. Score(a, e, clock'.frame) <= 60
        BY <2>2, <3>3, <3>4, ForeignScore
      <4>2. Score(a, e, clock'.frame) \in Int
        BY DEF Score, Points
      <4>3. Score(a, e, clock'.frame) >= Limits.confidence
        BY <2>1, <3>2
      <4>4. Limits.confidence \in Int
        BY AttemptAssumption DEF AttemptAssumption
      <4> HIDE DEF Score
      <4> QED
        BY <4>1, <4>2, <4>3, <4>4
    <3> QED
      BY <2>2, <3>3, <3>4
  <2> QED
    BY <2>3, <2>4
<1> QED
  BY <1>2, <1>3

LEMMA PassBound ==
  ASSUME TypeInv, QueuesInv, OpenBound, NEW e, Logged(e), NEW expired, NEW owner,
         Passed(e, expired, owner)
  PROVE  OpenBound'
<1>0. PICK n : n = Len(log) + 1
  OBVIOUS
<1> DEFINE active == ToSet(open) \ expired
           Of(u) == {b \in ToSet(open) : Trigger(b).ue = u}
           Now(u) == {b \in ToSet(open') : Trigger(b)'.ue = u}
<1>1. /\ n \notin DOMAIN attempt /\ n # 0 /\ ToSet(open) \subseteq DOMAIN attempt
      /\ ToSet(open') \subseteq active \cup ({owner} \ {0})
      /\ owner = 0 \/ owner = n \/ owner \in active
  BY <1>0, NewIsNew DEF Passed, Closes, QueuesInv, Owners
<1>2. \A a \in ToSet(open) : Trigger(a)' = Trigger(a)
  BY <1>0, <1>1, PassTriggers
<1>3. Trigger(n)' = e
  BY <1>0, PassTriggers
<1>4. \A u : IsFiniteSet(Of(u))
  BY <1>1, AttemptsFinite
<1> SUFFICES ASSUME NEW a \in ToSet(open'), Trigger(a)'.ue # None
             PROVE  Cardinality(Now(Trigger(a)'.ue)) <= Limits.perUE
  BY DEF OpenBound
<1> DEFINE u == Trigger(a)'.ue
<1>5. Limits.perUE \in Nat
  BY AttemptAssumption DEF AttemptAssumption
<1>6. CASE owner = n /\ e.ue = u
  <2> DEFINE X == {b \in active : Trigger(b).ue = e.ue}
  <2>1. OpenInScope(active, e) < Limits.perUE
    <3>1. owner \notin Owners(active, e, clock'.frame)
      BY <1>1, <1>6 DEF Owners
    <3> QED
      BY <1>0, <1>1, <1>6, <3>1 DEF Passed, Opens
  <2>2. X = {b \in active : IF e.ue # None THEN Trigger(b).ue = e.ue
                            ELSE IF e.ctx # None THEN Trigger(b).ctx = e.ctx
                            ELSE Trigger(b).ue = None /\ Trigger(b).ctx = None}
    BY <1>6
  <2>3. Cardinality(X) < Limits.perUE
    BY <2>1, <2>2 DEF OpenInScope
  <2>4. Now(u) \subseteq X \cup {n}
    BY <1>1, <1>2, <1>6
  <2>5. IsFiniteSet(X)
    BY <1>1, AttemptsFinite
  <2> HIDE DEF X, u, Now
  <2>6. /\ IsFiniteSet(X \cup {n}) /\ Cardinality(X) \in Nat
        /\ Cardinality(X \cup {n}) = Cardinality(X) \/ Cardinality(X \cup {n}) = Cardinality(X) + 1
    BY <2>5, FS_AddElement, FS_CardinalityType
  <2>7. Cardinality(Now(u)) <= Cardinality(X \cup {n}) /\ Cardinality(Now(u)) \in Nat
    BY <2>4, <2>6, FS_Subset, FS_CardinalityType
  <2>8. Cardinality(Now(u)) <= Limits.perUE
    BY <1>5, <2>3, <2>6, <2>7
  <2> QED
    BY <2>8 DEF u
<1>7. CASE ~ (owner = n /\ e.ue = u)
  <2>1. a \in ToSet(open) /\ Trigger(a).ue = u
    BY <1>1, <1>2, <1>3, <1>7
  <2>2. Now(u) \subseteq Of(u)
    BY <1>1, <1>2, <1>3, <1>7
  <2>3. Cardinality(Of(u)) <= Limits.perUE
    BY <2>1 DEF OpenBound
  <2>4. IsFiniteSet(Of(u))
    BY <1>4
  <2> HIDE DEF u, Of, Now
  <2>5. Cardinality(Now(u)) <= Cardinality(Of(u)) /\ Cardinality(Now(u)) \in Nat
        /\ Cardinality(Of(u)) \in Nat
    BY <2>2, <2>4, FS_Subset, FS_CardinalityType
  <2>6. Cardinality(Now(u)) <= Limits.perUE
    BY <1>5, <2>3, <2>5
  <2> QED
    BY <2>6 DEF u
<1> QED
  BY <1>6, <1>7

-----------------------------------------------------------------------------
(* Relations.                                                              *)

\* What is completed stays as it is.
ClosedKept ==
  \A k \in DOMAIN completed :
    LET a == completed[k] IN
    /\ k \in DOMAIN completed' /\ completed'[k] = a
    /\ attempt'[a].events = attempt[a].events
    /\ attempt'[a].outcome = attempt[a].outcome
    /\ attempt'[a].profile = attempt[a].profile
    /\ log'[a] = log[a]
    /\ a \notin ToSet(open')

LEMMA PassKeepsClosed ==
  ASSUME TypeInv, QueuesInv, EventsInv, NEW e, Logged(e), NEW expired, NEW owner,
         Passed(e, expired, owner)
  PROVE  ClosedKept
<1> SUFFICES ASSUME NEW k \in DOMAIN completed
             PROVE  LET a == completed[k] IN
                    /\ k \in DOMAIN completed' /\ completed'[k] = a
                    /\ attempt'[a].events = attempt[a].events
                    /\ attempt'[a].outcome = attempt[a].outcome
                    /\ attempt'[a].profile = attempt[a].profile
                    /\ log'[a] = log[a]
                    /\ a \notin ToSet(open')
  BY DEF ClosedKept
<1> DEFINE a == completed[k]
<1>1. a \in ToSet(completed)
  BY DEF ToSet
<1>2. a \in DOMAIN attempt /\ a \notin ToSet(open) /\ a \in DOMAIN log
  BY <1>1 DEF QueuesInv, TypeInv
<1> HIDE DEF a
<1>3. a # owner /\ a \notin expired
  BY <1>2, NewIsNew DEF Passed, Owners
<1>4. k \in DOMAIN completed' /\ completed'[k] = completed[k]
  BY DEF Passed, Closes
<1>5. /\ attempt'[a].events = attempt[a].events
      /\ attempt'[a].outcome = attempt[a].outcome
      /\ attempt'[a].profile = attempt[a].profile
  BY <1>2, <1>3, OthersUnmoved
<1>6. log'[a] = log[a]
  BY <1>2 DEF Logged
<1>7. a \notin ToSet(open')
  BY <1>2, <1>3 DEF Passed, Closes
<1> QED
  BY <1>4, <1>5, <1>6, <1>7 DEF a

\* The retries are where they were completed, and there are no other records
\* before the end.
RetriesInv ==
  /\ phase # "done" => \A r \in relations : r.kind = "retry_of"
  /\ \A r \in relations : r.kind = "retry_of" => \E i, j \in DOMAIN completed : RetryAt(r, i, j)

LEMMA RetryKept ==
  ASSUME ClosedKept, NEW S, completed \in Seq(S), NEW r, NEW i \in DOMAIN completed,
         NEW j \in DOMAIN completed, RetryAt(r, i, j)
  PROVE  i \in DOMAIN completed' /\ j \in DOMAIN completed' /\ RetryAt(r, i, j)'
<1>1. \A m \in DOMAIN completed :
        /\ m \in DOMAIN completed' /\ completed'[m] = completed[m]
        /\ attempt'[completed[m]].outcome = attempt[completed[m]].outcome
        /\ attempt'[completed[m]].profile = attempt[completed[m]].profile
        /\ log'[completed[m]] = log[completed[m]]
  BY DEF ClosedKept
<1>2. \A m \in DOMAIN completed :
        Alike(completed[i], completed[m])' <=> Alike(completed[i], completed[m])
  BY <1>1 DEF Alike
<1>3. \A m \in (j + 1) .. (i - 1) : m \in DOMAIN completed
  OBVIOUS
<1> QED
  BY <1>1, <1>2, <1>3 DEF RetryAt

LEMMA RetriesStay ==
  ASSUME ClosedKept, NEW S, NEW T, completed \in Seq(S), completed' \in Seq(T), RetriesInv,
         phase # "done", relations' \subseteq relations \cup Retries
  PROVE  RetriesInv'
<1>1. Len(completed) \in Nat
  OBVIOUS
<1> SUFFICES ASSUME NEW r \in relations'
             PROVE  /\ r.kind = "retry_of"
                    /\ \E i, j \in DOMAIN completed' : RetryAt(r, i, j)'
  BY DEF RetriesInv
<1>2. CASE r \in relations
  <2>1. r.kind = "retry_of"
    BY <1>2 DEF RetriesInv
  <2>2. PICK i \in DOMAIN completed, j \in DOMAIN completed : RetryAt(r, i, j)
    BY <1>2, <2>1 DEF RetriesInv
  <2>3. i \in DOMAIN completed' /\ j \in DOMAIN completed' /\ RetryAt(r, i, j)'
    BY <2>2, RetryKept
  <2> QED
    BY <2>1, <2>3
<1>3. CASE r \in Retries
  BY <1>1, <1>3, RetriesFound
<1> QED
  BY <1>2, <1>3

\* A child knows its parent, from the start.
LinksInv ==
  phase # "done" =>
    \A a \in DOMAIN attempt : \A b \in attempt[a].children :
      b \in DOMAIN attempt /\ attempt[b].parent = a

LEMMA PassRelations ==
  ASSUME TypeInv, QueuesInv, EventsInv, RetriesInv, LinksInv, NEW e, Logged(e), NEW expired,
         NEW owner, Passed(e, expired, owner)
  PROVE  RetriesInv' /\ LinksInv'
<1>1. phase # "done" /\ phase' # "done"
  BY DEF Logged
<1>2. RetriesInv'
  <2>1. /\ completed \in Seq(DOMAIN attempt) /\ completed' \in Seq(DOMAIN attempt')
        /\ relations' \subseteq relations \cup Retries
    BY DEF QueuesInv, Passed, Closes
  <2> QED
    BY <1>1, <2>1, PassKeepsClosed, RetriesStay
<1>3. ASSUME NEW a \in DOMAIN attempt', NEW b \in attempt'[a].children
      PROVE  b \in DOMAIN attempt' /\ attempt'[b].parent = a
  <2> DEFINE n == Len(log) + 1
  <2>1. n \notin DOMAIN attempt /\ n # 0
    BY NewIsNew
  <2> HIDE DEF n
  <2>2. /\ DOMAIN attempt' = DOMAIN attempt \cup ({owner} \ {0})
        /\ \A c \in DOMAIN attempt :
             /\ attempt'[c].parent = attempt[c].parent
             /\ attempt'[c].children = IF owner = n /\ c = attempt'[n].parent
                                         THEN attempt[c].children \cup {n} ELSE attempt[c].children
        /\ owner = n => attempt'[n].children = {}
        /\ owner = 0 \/ owner = n \/ owner \in DOMAIN attempt
    BY DEF Passed, n, Owners, QueuesInv
  <2>3. a \in DOMAIN attempt
    BY <1>3, <2>2
  <2>4. CASE b \in attempt[a].children
    <3>1. b \in DOMAIN attempt /\ attempt[b].parent = a
      BY <1>1, <2>3, <2>4 DEF LinksInv
    <3> QED
      BY <2>2, <3>1
  <2>5. CASE b \notin attempt[a].children
    <3>1. b = n /\ owner = n /\ a = attempt'[n].parent
      BY <1>3, <2>2, <2>3, <2>5, ZenonT(40)
    <3> QED
      BY <2>1, <2>2, <3>1
  <2> QED
    BY <2>4, <2>5
<1> QED
  BY <1>2, <1>3 DEF LinksInv

-----------------------------------------------------------------------------
(* The end of the capture.                                                 *)

\* What is kept of every part that the run's properties are about.
Inv ==
  /\ TypeInv /\ QueuesInv /\ EventsInv /\ OutcomesInv /\ OpenBound
  /\ RetriesInv /\ LinksInv /\ LinksAgree

LEMMA ReceiveInv ==
  ASSUME Inv, NEW e \in Event, NEW s \in Step, Receive(e, s)
  PROVE  Inv' /\ ClosedKept
<1>1. Logged(e)
  BY ReceiveLogs DEF Inv
<1>2. PICK expired, owner : Passed(e, expired, owner)
  BY ReceivePasses DEF Inv
<1>3. TypeInv' /\ QueuesInv' /\ EventsInv'
  BY <1>1, <1>2, PassTyped, PassQueues, PassEventsInv DEF Inv
<1>4. OutcomesInv' /\ OpenBound'
  BY <1>1, <1>2, PassOutcomes, PassBound DEF Inv
<1>5. RetriesInv' /\ LinksInv' /\ ClosedKept
  BY <1>1, <1>2, PassRelations, PassKeepsClosed DEF Inv
<1>6. LinksAgree'
  BY <1>1 DEF Logged, LinksAgree
<1> QED
  BY <1>3, <1>4, <1>5, <1>6 DEF Inv

LEMMA EndInv ==
  ASSUME Inv, NEW s \in Step, EndOfCapture(s)
  PROVE  Inv' /\ ClosedKept
<1>1. /\ phase = "reading" /\ phase' = "closing" /\ log' = log /\ attempt' = attempt
      /\ open' = open /\ completed' = completed /\ unassigned' = unassigned
      /\ ambiguous' = ambiguous /\ relations' = relations /\ rank' = rank
  BY DEF EndOfCapture
<1>2. clock' = [frame |-> clock.frame + s.frames, second |-> clock.second + s.seconds,
                time |-> IF s.stamped THEN clock.second + s.seconds ELSE None]
  BY DEF EndOfCapture, Tick
<1>3. clock' \in [frame : Nat, second : Nat, time : Stamp]
  BY <1>2, AttemptAssumption, SMTT(40) DEF Inv, AttemptAssumption, TypeInv, Stamp
<1>4. TypeInv'
  BY <1>1, <1>3 DEF Inv, TypeInv
<1>5. QueuesInv' /\ EventsInv' /\ OpenBound'
  BY <1>1 DEF Inv, QueuesInv, EventsInv, OpenBound, Trigger
<1>6. \A a : /\ EndedByEvent(a)' <=> EndedByEvent(a)
             /\ NoEndPassed(a)' <=> NoEndPassed(a)
             /\ Heard(a)' <=> Heard(a)
             /\ LastEntry(a)' = LastEntry(a)
  BY <1>1 DEF EndedByEvent, NoEndPassed, Heard, LastEntry
<1>7. NoLongSilence'
  BY <1>1 DEF Inv, OutcomesInv, NoLongSilence
<1>8. \A a \in ToSet(completed) : Overdue(a) => Overdue(a)'
  BY <1>1, <1>6 DEF Overdue
<1>9. OutcomesInv'
  BY <1>1, <1>6, <1>7, <1>8 DEF Inv, OutcomesInv, OutcomeEarned
<1>10. LinksInv' /\ LinksAgree'
  BY <1>1 DEF Inv, LinksInv, LinksAgree
<1>11. ClosedKept
  <2>1. \A k \in DOMAIN completed : completed[k] \notin ToSet(open)
    BY DEF Inv, QueuesInv, ToSet
  <2> QED
    BY <1>1, <2>1 DEF ClosedKept
<1>12. RetriesInv'
  BY <1>1, <1>11, RetriesStay DEF Inv, QueuesInv
<1> QED
  BY <1>4, <1>5, <1>9, <1>10, <1>11, <1>12 DEF Inv

\* Attempt a is the one that CloseRemaining closes.
Closed(a) ==
  /\ phase = "closing" /\ a \in ToSet(open)
  /\ UNCHANGED <<log, clock, unassigned, ambiguous, phase, rank>>
  /\ attempt' \in [DOMAIN attempt -> Attempt]
  /\ \A b \in DOMAIN attempt :
       /\ attempt'[b].profile = attempt[b].profile /\ attempt'[b].parent = attempt[b].parent
       /\ attempt'[b].children = attempt[b].children /\ attempt'[b].events = attempt[b].events
       /\ attempt'[b].stages = attempt[b].stages
       /\ b # a => attempt'[b].outcome = attempt[b].outcome
  /\ attempt'[a].outcome = IF SilentAtEnd(attempt[a].profile, LastEntry(a))
                             THEN "timed_out" ELSE "incomplete_capture"
  /\ Closes(DOMAIN attempt, attempt', ToSet(open), {a})

LEMMA RemainingClosed ==
  ASSUME TypeInv, QueuesInv, CloseRemaining
  PROVE  \E a : Closed(a)
<1> DEFINE a == Greatest(ToSet(open), LAMBDA b : << - log[b].frame, - rank[b]>>)
           x == IF SilentAtEnd(attempt[a].profile, LastEntry(a))
                  THEN "timed_out" ELSE "incomplete_capture"
           now == [attempt EXCEPT ![a].outcome = x]
<1>1. /\ phase = "closing" /\ open # << >>
      /\ UNCHANGED <<log, clock, unassigned, ambiguous, phase, rank>>
      /\ Close(now, open, <<a>>)
  BY DEF CloseRemaining
<1>2. ToSet(open) \subseteq DOMAIN attempt /\ ToSet(open) # {}
  BY <1>1, ElementsFinite DEF QueuesInv
<1>3. a \in ToSet(open)
  BY <1>2, FirstIsOpen
<1>4. x \in {"timed_out", "incomplete_capture"}
  OBVIOUS
<1>5. now = [attempt EXCEPT ![a].outcome = x]
  OBVIOUS
<1>6. x = IF SilentAtEnd(attempt[a].profile, LastEntry(a)) THEN "timed_out" ELSE "incomplete_capture"
  OBVIOUS
<1> HIDE DEF a, x, now
<1>7. ASSUME NEW b \in DOMAIN attempt
      PROVE  /\ now[b] \in Attempt
             /\ now[b].profile = attempt[b].profile /\ now[b].parent = attempt[b].parent
             /\ now[b].children = attempt[b].children /\ now[b].events = attempt[b].events
             /\ now[b].stages = attempt[b].stages
             /\ now[b].outcome = IF b = a THEN x ELSE attempt[b].outcome
  <2>1. attempt[b] \in Attempt
    BY DEF TypeInv
  <2>2. now[b] = IF b = a THEN [attempt[b] EXCEPT !.outcome = x] ELSE attempt[b]
    BY <1>5
  <2> QED
    BY <1>4, <2>1, <2>2 DEF Attempt, Outcome
<1>8. now \in [DOMAIN attempt -> Attempt]
  BY <1>5, <1>7
<1>9. Closes(DOMAIN attempt, now, ToSet(open), {a})
  <2>1. <<a>> \in Seq(DOMAIN attempt) /\ IsInjective(<<a>>) /\ ToSet(<<a>>) = {a}
    BY <1>2, <1>3 DEF IsInjective, ToSet
  <2>2. ToSet(completed) \cap ToSet(<<a>>) = {}
    BY <1>3, <2>1 DEF QueuesInv
  <2>3. Closes(DOMAIN attempt, now, ToSet(open), ToSet(<<a>>))
    BY <1>1, <2>1, <2>2, CloseCloses DEF QueuesInv
  <2> QED
    BY <2>1, <2>3
<1>10. attempt' = now
  BY <1>9 DEF Closes
<1>11. a \in DOMAIN attempt
  BY <1>2, <1>3
<1>12. Closed(a)
  BY <1>1, <1>3, <1>6, <1>7, <1>8, <1>9, <1>10, <1>11 DEF Closed
<1> QED
  BY <1>12

LEMMA RemainingInv ==
  ASSUME Inv, CloseRemaining
  PROVE  Inv' /\ ClosedKept
<1>1. PICK a : Closed(a)
  BY RemainingClosed DEF Inv
<1>2. /\ phase = "closing" /\ phase' = "closing" /\ a \in ToSet(open) /\ log' = log
      /\ clock' = clock /\ unassigned' = unassigned /\ ambiguous' = ambiguous /\ rank' = rank
      /\ attempt' \in [DOMAIN attempt -> Attempt] /\ DOMAIN attempt' = DOMAIN attempt
  BY <1>1 DEF Closed
<1>3. \A b \in DOMAIN attempt :
        /\ attempt'[b].profile = attempt[b].profile /\ attempt'[b].parent = attempt[b].parent
        /\ attempt'[b].children = attempt[b].children /\ attempt'[b].events = attempt[b].events
        /\ attempt'[b].stages = attempt[b].stages
        /\ b # a => attempt'[b].outcome = attempt[b].outcome
  BY <1>1 DEF Closed
<1>4. /\ open' \in Seq(DOMAIN attempt) /\ IsInjective(open') /\ ToSet(open') = ToSet(open) \ {a}
      /\ completed' \in Seq(DOMAIN attempt) /\ IsInjective(completed')
      /\ ToSet(completed') = ToSet(completed) \cup {a}
      /\ \A k \in DOMAIN completed : k \in DOMAIN completed' /\ completed'[k] = completed[k]
      /\ relations' = relations \cup Retries
  BY <1>1 DEF Closed, Closes
<1>5. /\ ToSet(open) \subseteq DOMAIN attempt /\ ToSet(completed) \subseteq DOMAIN attempt
      /\ ToSet(open) \cap ToSet(completed) = {}
      /\ DOMAIN attempt = ToSet(open) \cup ToSet(completed)
  BY DEF Inv, QueuesInv
<1>6. a \in DOMAIN attempt /\ a \notin ToSet(completed)
  BY <1>2, <1>5
<1>7. TypeInv'
  <2>1. relations' \subseteq Relation
    <3>1. DOMAIN attempt \subseteq Position /\ Len(completed) \in Nat
      BY AttemptsFinite DEF Inv, QueuesInv
    <3> QED
      BY <1>4, <3>1, RetriesTyped DEF Inv, TypeInv
  <2> QED
    BY <1>2, <2>1 DEF Inv, TypeInv
<1>8. QueuesInv'
  BY <1>2, <1>4, <1>5, <1>6 DEF QueuesInv
<1>9. EventsInv'
  BY <1>2, <1>3 DEF Inv, EventsInv
<1>10. \A b \in DOMAIN attempt :
         /\ LastEntry(b)' = LastEntry(b)
         /\ EndedByEvent(b)' <=> EndedByEvent(b)
         /\ NoEndPassed(b)' <=> NoEndPassed(b)
         /\ Heard(b)' <=> Heard(b)
         /\ Overdue(b)' <=> Overdue(b)
  <2> SUFFICES ASSUME NEW b \in DOMAIN attempt
               PROVE  /\ LastEntry(b)' = LastEntry(b)
                      /\ EndedByEvent(b)' <=> EndedByEvent(b)
                      /\ NoEndPassed(b)' <=> NoEndPassed(b)
                      /\ Heard(b)' <=> Heard(b)
                      /\ Overdue(b)' <=> Overdue(b)
    OBVIOUS
  <2>1. LastEntry(b)' = LastEntry(b)
    BY <1>2, <1>3 DEF LastEntry
  <2>2. (EndedByEvent(b)' <=> EndedByEvent(b)) /\ (NoEndPassed(b)' <=> NoEndPassed(b))
    BY <1>2, <1>3, <2>1 DEF EndedByEvent, NoEndPassed
  <2>3. /\ attempt'[b].events = attempt[b].events /\ attempt'[b].profile = attempt[b].profile
        /\ log' = log /\ phase' = phase /\ clock' = clock
    BY <1>2, <1>3
  <2>4. Heard(b)' <=> Heard(b)
    BY <2>1, <2>3 DEF Heard
  <2>5. Overdue(b)' <=> Overdue(b)
    <3>1. \A p, x : SilentAtEnd(p, x)' <=> SilentAtEnd(p, x)
      BY <2>3, ZenonT(40) DEF SilentAtEnd
    <3> QED
      BY <2>1, <2>3, <3>1, ZenonT(40) DEF Overdue
  <2> QED
    BY <2>1, <2>2, <2>4, <2>5
<1>11. ASSUME NEW b \in ToSet(open')
       PROVE  attempt'[b].outcome = "open" /\ ~ EndedByEvent(b)' /\ NoEndPassed(b)' /\ Heard(b)'
  BY <1>3, <1>4, <1>5, <1>10 DEF Inv, OutcomesInv
<1>12. ASSUME NEW b \in ToSet(completed')
       PROVE  /\ attempt'[b].outcome # "open"
              /\ attempt'[b].outcome \in {"succeeded", "failed", "aborted"} <=> EndedByEvent(b)'
              /\ attempt'[b].outcome = "timed_out" => Overdue(b)'
              /\ attempt'[b].outcome = "incomplete_capture" => ~ Overdue(b)'
  <2>1. CASE b = a
    <3>1. ~ EndedByEvent(a) /\ Heard(a)
      BY <1>2 DEF Inv, OutcomesInv
    <3>2. attempt'[a].outcome = IF SilentAtEnd(attempt[a].profile, LastEntry(a))
                                  THEN "timed_out" ELSE "incomplete_capture"
      BY <1>1 DEF Closed
    <3>3. Overdue(a) <=> SilentAtEnd(attempt[a].profile, LastEntry(a))
      BY <1>2, <3>1 DEF Overdue, Heard
    <3> QED
      BY <1>6, <1>10, <2>1, <3>1, <3>2, <3>3
  <2>2. CASE b # a
    <3>1. b \in ToSet(completed) /\ b \in DOMAIN attempt
      BY <1>4, <1>5, <2>2
    <3> QED
      BY <1>3, <1>10, <2>2, <3>1 DEF Inv, OutcomesInv, OutcomeEarned
  <2> QED
    BY <2>1, <2>2
<1>13. NoLongSilence'
  BY <1>2, <1>3 DEF Inv, OutcomesInv, NoLongSilence
<1>14. OutcomesInv'
  BY <1>2, <1>11, <1>12, <1>13 DEF OutcomesInv, OutcomeEarned
<1>15. OpenBound'
  <2> DEFINE Of(u) == {b \in ToSet(open) : Trigger(b).ue = u}
             Now(u) == {b \in ToSet(open') : Trigger(b)'.ue = u}
  <2>1. \A b : Trigger(b)' = Trigger(b)
    BY <1>2 DEF Trigger
  <2> SUFFICES ASSUME NEW b \in ToSet(open'), Trigger(b)'.ue # None
               PROVE  Cardinality(Now(Trigger(b)'.ue)) <= Limits.perUE
    BY DEF OpenBound
  <2> DEFINE u == Trigger(b)'.ue
  <2>2. b \in ToSet(open) /\ Trigger(b).ue = u
    BY <1>4, <2>1
  <2>3. Cardinality(Of(u)) <= Limits.perUE
    BY <2>1, <2>2 DEF Inv, OpenBound
  <2>4. Now(u) \subseteq Of(u)
    BY <1>4, <2>1
  <2>5. IsFiniteSet(Of(u))
    BY <1>5, AttemptsFinite DEF Inv
  <2>6. Limits.perUE \in Nat
    BY AttemptAssumption DEF AttemptAssumption
  <2> HIDE DEF u, Of, Now
  <2>7. /\ Cardinality(Now(u)) <= Cardinality(Of(u)) /\ Cardinality(Now(u)) \in Nat
        /\ Cardinality(Of(u)) \in Nat
    BY <2>4, <2>5, FS_Subset, FS_CardinalityType
  <2>8. Cardinality(Now(u)) <= Limits.perUE
    BY <2>3, <2>6, <2>7
  <2> QED
    BY <2>8 DEF u
<1>16. ClosedKept
  <2> SUFFICES ASSUME NEW k \in DOMAIN completed
               PROVE  LET b == completed[k] IN
                      /\ k \in DOMAIN completed' /\ completed'[k] = b
                      /\ attempt'[b].events = attempt[b].events
                      /\ attempt'[b].outcome = attempt[b].outcome
                      /\ attempt'[b].profile = attempt[b].profile
                      /\ log'[b] = log[b]
                      /\ b \notin ToSet(open')
    BY DEF ClosedKept
  <2>1. completed[k] \in ToSet(completed)
    BY DEF ToSet
  <2>2. completed[k] \in DOMAIN attempt /\ completed[k] # a /\ completed[k] \notin ToSet(open')
    BY <1>4, <1>5, <1>6, <2>1
  <2> QED
    BY <1>2, <1>3, <1>4, <2>2
<1>17. RetriesInv'
  BY <1>2, <1>4, <1>16, RetriesStay DEF Inv, QueuesInv
<1>18. LinksInv' /\ LinksAgree'
  BY <1>2, <1>3 DEF Inv, LinksInv, LinksAgree
<1> QED
  BY <1>7, <1>8, <1>9, <1>14, <1>15, <1>16, <1>17, <1>18 DEF Inv

-----------------------------------------------------------------------------
(* What is worked out over all attempts.                                   *)

LEMMA FinishTyped ==
  ASSUME TypeInv, QueuesInv, EventsInv, Finish
  PROVE  /\ attempt' \in [DOMAIN attempt -> Attempt]
         /\ \A a \in DOMAIN attempt :
              /\ attempt'[a].profile = attempt[a].profile
              /\ attempt'[a].events = attempt[a].events
              /\ attempt'[a].stages = attempt[a].stages
              /\ attempt'[a].outcome = attempt[a].outcome
              /\ attempt'[a].parent = InferredParent(a)
              /\ attempt'[a].children =
                   attempt[a].children \cup {c \in DOMAIN attempt : InferredParent(c) = a}
<1> DEFINE Becomes(a) == [attempt[a] EXCEPT
                            !.parent = InferredParent(a),
                            !.children = @ \cup {c \in DOMAIN attempt : InferredParent(c) = a},
                            !.number = SequenceNumber(a)]
<1>1. attempt' = [a \in DOMAIN attempt |-> Becomes(a)]
  BY DEF Finish
<1>2. DOMAIN attempt \subseteq Position
  BY AttemptsFinite
<1>3. ASSUME NEW a \in DOMAIN attempt PROVE InferredParent(a) \in Position \cup {0}
  <2> DEFINE overlapping == {b \in Prior(a, Registry[attempt[a].profile].parents) : End(b) >= Start(a)}
  <2>1. attempt[a].parent \in Position \cup {0}
    <3>1. attempt[a] \in Attempt
      BY DEF TypeInv
    <3> QED
      BY <3>1 DEF Attempt
  <2>2. overlapping \subseteq DOMAIN attempt
    BY DEF Prior
  <2>3. InferredParent(a) = IF attempt[a].parent # 0 \/ overlapping = {} THEN attempt[a].parent
                            ELSE Nearest(overlapping)
    BY DEF InferredParent
  <2> HIDE DEF overlapping
  <2>4. overlapping # {} => Nearest(overlapping) \in overlapping
    BY <2>2, NearestIsOne
  <2> QED
    BY <1>2, <2>1, <2>2, <2>3, <2>4
<1>4. ASSUME NEW a \in DOMAIN attempt PROVE SequenceNumber(a) \in Nat
  <2> DEFINE earlier == {b \in DOMAIN attempt :
                           /\ Trigger(b).ue = Trigger(a).ue
                           /\ Registry[attempt[b].profile].type = Registry[attempt[a].profile].type
                           /\ Before(<<Start(b), rank[b]>>, <<Start(a), rank[a]>>)}
  <2>1. earlier \subseteq DOMAIN attempt
    OBVIOUS
  <2>2. SequenceNumber(a) = 1 + Cardinality(earlier)
    BY DEF SequenceNumber
  <2> HIDE DEF earlier
  <2>3. Cardinality(earlier) \in Nat
    BY <2>1, AttemptsFinite, FS_CardinalityType
  <2> QED
    BY <2>2, <2>3
<1>5. ASSUME NEW a \in DOMAIN attempt
      PROVE  /\ attempt'[a] \in Attempt
             /\ attempt'[a].profile = attempt[a].profile
             /\ attempt'[a].events = attempt[a].events
             /\ attempt'[a].stages = attempt[a].stages
             /\ attempt'[a].outcome = attempt[a].outcome
             /\ attempt'[a].parent = InferredParent(a)
             /\ attempt'[a].children =
                  attempt[a].children \cup {c \in DOMAIN attempt : InferredParent(c) = a}
  <2>1. attempt[a] \in Attempt
    BY DEF TypeInv
  <2>2. attempt'[a] = Becomes(a)
    BY <1>1
  <2>3. {c \in DOMAIN attempt : InferredParent(c) = a} \subseteq Position
    BY <1>2
  <2> QED
    BY <1>3, <1>4, <2>1, <2>2, <2>3 DEF Attempt
<1>6. DOMAIN attempt' = DOMAIN attempt
  BY <1>1
<1> HIDE DEF Becomes
<1>7. attempt' \in [DOMAIN attempt -> Attempt]
  BY <1>1, <1>5
<1> QED
  BY <1>5, <1>7

LEMMA LinksTyped ==
  ASSUME NEW kind \in {"parent_child", "supersedes", "access_transfer"}, NEW D, D \subseteq Position,
         NEW targets \in [D -> SUBSET D]
  PROVE  \A r \in Links(kind, targets) : r \in Relation /\ r.kind = kind
<1> SUFFICES ASSUME NEW r \in Links(kind, targets) PROVE r \in Relation /\ r.kind = kind
  OBVIOUS
<1>1. PICK a \in D : r \in {[kind |-> kind, left |-> a, right |-> b] : b \in targets[a]}
  BY DEF Links
<1>2. PICK b \in targets[a] : r = [kind |-> kind, left |-> a, right |-> b]
  BY <1>1
<1>3. a \in Position /\ b \in Position
  BY <1>1, <1>2
<1> QED
  BY <1>2, <1>3 DEF Relation

LEMMA TargetsTyped ==
  ASSUME TypeInv, EventsInv, NEW a \in DOMAIN attempt
  PROVE  Transfers(a) \subseteq DOMAIN attempt /\ Supersedes(a) \subseteq DOMAIN attempt
<1>1. Transfers(a) \subseteq DOMAIN attempt
  <2> DEFINE prior == {b \in Prior(a, Registry[attempt[a].profile].from) :
                         Differ(Trigger(a).ctx, Trigger(b).ctx)}
  <2>1. prior \subseteq DOMAIN attempt
    BY DEF Prior
  <2>2. Transfers(a) = IF prior = {} THEN {} ELSE {Nearest(prior)}
    BY DEF Transfers
  <2> HIDE DEF prior
  <2> QED
    BY <2>1, <2>2, NearestIsOne
<1>2. Supersedes(a) \subseteq DOMAIN attempt
  <2> DEFINE prior(p) == {b \in Prior(a, {p}) : ~ Differ(Trigger(a).ctx, Trigger(b).ctx)}
             latest(p) == IF prior(p) = {} THEN {} ELSE {Nearest(prior(p))}
  <2>1. Supersedes(a) = UNION {latest(p) : p \in Registry[attempt[a].profile].closes}
    BY DEF Supersedes
  <2>2. ASSUME NEW p PROVE latest(p) \subseteq DOMAIN attempt
    <3>1. prior(p) \subseteq DOMAIN attempt
      BY DEF Prior
    <3>2. PICK S : S = prior(p)
      OBVIOUS
    <3>3. latest(p) = IF S = {} THEN {} ELSE {Nearest(S)}
      BY <3>2
    <3> HIDE DEF prior, latest
    <3> QED
      BY <3>1, <3>2, <3>3, NearestIsOne
  <2> HIDE DEF latest
  <2> QED
    BY <2>1, <2>2
<1> QED
  BY <1>1, <1>2

LEMMA FinishInv ==
  ASSUME Inv, Finish
  PROVE  Inv' /\ ClosedKept
<1>1. /\ phase = "closing" /\ phase' = "done" /\ open = << >> /\ log' = log /\ clock' = clock
      /\ open' = open /\ completed' = completed /\ unassigned' = unassigned
      /\ ambiguous' = ambiguous /\ rank' = rank
  BY DEF Finish
<1> DEFINE Children == [a \in DOMAIN attempt |-> {c \in DOMAIN attempt : InferredParent(c) = a}]
           Moved == [a \in DOMAIN attempt |-> Transfers(a)]
           Ended == [a \in DOMAIN attempt |-> Supersedes(a)]
<1>2. relations' = relations \cup Links("access_transfer", Moved) \cup Links("supersedes", Ended)
                     \cup Links("parent_child", Children)
  BY DEF Finish
<1>3. /\ attempt' \in [DOMAIN attempt -> Attempt] /\ DOMAIN attempt' = DOMAIN attempt
      /\ \A a \in DOMAIN attempt :
           /\ attempt'[a].profile = attempt[a].profile
           /\ attempt'[a].events = attempt[a].events
           /\ attempt'[a].stages = attempt[a].stages
           /\ attempt'[a].outcome = attempt[a].outcome
           /\ attempt'[a].parent = InferredParent(a)
           /\ attempt'[a].children =
                attempt[a].children \cup {c \in DOMAIN attempt : InferredParent(c) = a}
  BY FinishTyped DEF Inv
<1>4. /\ Children \in [DOMAIN attempt -> SUBSET DOMAIN attempt]
      /\ Moved \in [DOMAIN attempt -> SUBSET DOMAIN attempt]
      /\ Ended \in [DOMAIN attempt -> SUBSET DOMAIN attempt]
  BY TargetsTyped DEF Inv
<1>5. DOMAIN attempt \subseteq Position /\ 0 \notin DOMAIN attempt
  BY AttemptsFinite, NewIsNew DEF Inv
<1>6. \A r \in relations' :
        /\ r \in Relation
        /\ \/ r \in relations /\ r.kind = "retry_of"
           \/ r.kind \in {"access_transfer", "supersedes"}
           \/ r \in Links("parent_child", Children) /\ r.kind = "parent_child"
  <2> HIDE DEF Children, Moved, Ended
  <2>1. \A r \in relations : r \in Relation /\ r.kind = "retry_of"
    BY <1>1 DEF Inv, TypeInv, RetriesInv
  <2>2. \A r \in Links("access_transfer", Moved) : r \in Relation /\ r.kind = "access_transfer"
    BY <1>4, <1>5, LinksTyped
  <2>3. \A r \in Links("supersedes", Ended) : r \in Relation /\ r.kind = "supersedes"
    BY <1>4, <1>5, LinksTyped
  <2>4. \A r \in Links("parent_child", Children) : r \in Relation /\ r.kind = "parent_child"
    BY <1>4, <1>5, LinksTyped
  <2> QED
    BY <1>2, <2>1, <2>2, <2>3, <2>4
<1>7. TypeInv'
  BY <1>1, <1>3, <1>6 DEF Inv, TypeInv
<1>8. QueuesInv' /\ EventsInv'
  BY <1>1, <1>3 DEF Inv, QueuesInv, EventsInv
<1>9. ToSet(open) = {}
  BY <1>1 DEF ToSet
<1>10. OpenBound'
  BY <1>1, <1>9 DEF OpenBound
<1>11. \A a \in DOMAIN attempt :
         /\ LastEntry(a)' = LastEntry(a)
         /\ EndedByEvent(a)' <=> EndedByEvent(a)
         /\ Overdue(a)' <=> Overdue(a)
  BY <1>1, <1>3 DEF LastEntry, EndedByEvent, Overdue, SilentAtEnd
<1>12. ToSet(completed) \subseteq DOMAIN attempt
  BY DEF Inv, QueuesInv
<1>13. NoLongSilence'
  BY <1>1, <1>3 DEF Inv, OutcomesInv, NoLongSilence
<1>14. OutcomesInv'
  BY <1>1, <1>3, <1>9, <1>11, <1>12, <1>13 DEF Inv, OutcomesInv, OutcomeEarned
<1>15. ClosedKept
  <2>1. \A k \in DOMAIN completed : completed[k] \in DOMAIN attempt
    BY <1>12 DEF ToSet
  <2> QED
    BY <1>1, <1>3, <1>9, <2>1 DEF ClosedKept
<1>16. RetriesInv'
  <2> SUFFICES ASSUME NEW r \in relations', r.kind = "retry_of"
               PROVE  \E i, j \in DOMAIN completed' : RetryAt(r, i, j)'
    BY <1>1 DEF RetriesInv
  <2>1. r \in relations
    BY <1>6
  <2>2. PICK i \in DOMAIN completed, j \in DOMAIN completed : RetryAt(r, i, j)
    BY <2>1 DEF Inv, RetriesInv
  <2>3. i \in DOMAIN completed' /\ j \in DOMAIN completed' /\ RetryAt(r, i, j)'
    BY <1>15, <2>2, RetryKept DEF Inv, QueuesInv
  <2> QED
    BY <2>3
<1>17. LinksInv'
  BY <1>1 DEF LinksInv
<1>18. ASSUME NEW a \in DOMAIN attempt, NEW b \in DOMAIN attempt
       PROVE  /\ attempt'[b].parent = a <=> b \in attempt'[a].children
              /\ attempt'[b].parent = a <=>
                   [kind |-> "parent_child", left |-> a, right |-> b] \in relations'
  <2>1. attempt'[b].parent = a <=> InferredParent(b) = a
    BY <1>3
  <2>2. b \in attempt'[a].children <=> InferredParent(b) = a
    <3>1. ASSUME b \in attempt[a].children PROVE InferredParent(b) = a
      <4>1. attempt[b].parent = a /\ a # 0
        BY <1>1, <1>5, <3>1 DEF Inv, LinksInv
      <4> QED
        BY <4>1 DEF InferredParent
    <3> QED
      BY <1>3, <3>1
  <2> DEFINE r == [kind |-> "parent_child", left |-> a, right |-> b]
  <2>3. ASSUME InferredParent(b) = a PROVE r \in relations'
    <3>1. b \in Children[a] /\ a \in DOMAIN Children
      BY <2>3
    <3> HIDE DEF Children
    <3>2. r \in Links("parent_child", Children)
      BY <3>1 DEF Links
    <3> QED
      BY <1>2, <3>2
  <2>4. ASSUME r \in relations' PROVE InferredParent(b) = a
    <3>1. r.kind = "parent_child" /\ r.left = a /\ r.right = b
      OBVIOUS
    <3>2. DOMAIN Children = DOMAIN attempt
      OBVIOUS
    <3> HIDE DEF Children, r
    <3>3. r \in Links("parent_child", Children)
      BY <1>6, <2>4, <3>1
    <3>4. PICK c \in DOMAIN attempt :
            r \in {[kind |-> "parent_child", left |-> c, right |-> d] : d \in Children[c]}
      BY <3>2, <3>3 DEF Links
    <3>5. PICK d \in Children[c] : r = [kind |-> "parent_child", left |-> c, right |-> d]
      BY <3>4
    <3>6. r.left = c /\ r.right = d
      BY <3>5
    <3>7. b \in Children[a]
      BY <3>1, <3>5, <3>6
    <3> QED
      BY <3>7 DEF Children
  <2> QED
    BY <2>1, <2>2, <2>3, <2>4
<1>19. LinksAgree'
  BY <1>3, <1>18 DEF LinksAgree
<1> QED
  BY <1>7, <1>8, <1>10, <1>14, <1>15, <1>16, <1>17, <1>19 DEF Inv

-----------------------------------------------------------------------------
(* The theorems.                                                           *)

LEMMA InitInv ==
  Init => Inv
<1> SUFFICES ASSUME Init PROVE Inv
  OBVIOUS
<1>1. /\ log = << >> /\ attempt = << >> /\ open = << >> /\ completed = << >>
      /\ unassigned = {} /\ ambiguous = {} /\ relations = {} /\ phase = "reading" /\ rank \in Ranks
      /\ clock = [frame |-> 1, second |-> 0, time |-> None]
  BY DEF Init
<1>2. DOMAIN log = {} /\ DOMAIN attempt = {} /\ DOMAIN open = {} /\ DOMAIN completed = {}
  BY <1>1
<1>3. ToSet(open) = {} /\ ToSet(completed) = {}
  BY <1>2 DEF ToSet
<1>4. TypeInv
  <2>1. log \in Seq(Entry) /\ Len(log) = 0
    BY <1>1
  <2>2. clock \in [frame : Nat, second : Nat, time : Stamp]
    BY <1>1 DEF Stamp
  <2>3. attempt \in [DOMAIN attempt -> Attempt]
    BY <1>1, <1>2
  <2> QED
    BY <1>1, <1>2, <2>1, <2>2, <2>3, AttemptAssumption DEF TypeInv, AttemptAssumption
<1>5. QueuesInv
  BY <1>1, <1>2, <1>3 DEF QueuesInv, IsInjective
<1>6. EventsInv
  BY <1>1, <1>2 DEF EventsInv
<1>7. OutcomesInv
  BY <1>2, <1>3 DEF OutcomesInv, OutcomeEarned, NoLongSilence
<1>8. OpenBound /\ RetriesInv /\ LinksInv /\ LinksAgree
  BY <1>1, <1>2, <1>3 DEF OpenBound, RetriesInv, LinksInv, LinksAgree
<1> QED
  BY <1>4, <1>5, <1>6, <1>7, <1>8 DEF Inv

LEMMA StutterInv ==
  ASSUME Inv, UNCHANGED vars
  PROVE  Inv'
<1>1. /\ log' = log /\ clock' = clock /\ attempt' = attempt /\ open' = open
      /\ completed' = completed /\ unassigned' = unassigned /\ ambiguous' = ambiguous
      /\ relations' = relations /\ phase' = phase /\ rank' = rank
  BY DEF vars
<1>2. TypeInv' /\ QueuesInv' /\ EventsInv'
  BY <1>1 DEF Inv, TypeInv, QueuesInv, EventsInv
<1>3. OutcomesInv'
  BY <1>1, ZenonT(40) DEF Inv, OutcomesInv, OutcomeEarned, NoLongSilence, NoEndPassed, Heard, Overdue,
              EndedByEvent, LastEntry, SilentAtEnd
<1>4. OpenBound'
  BY <1>1 DEF Inv, OpenBound, Trigger
<1>5. RetriesInv' /\ LinksInv' /\ LinksAgree'
  BY <1>1 DEF Inv, RetriesInv, RetryAt, Alike, LinksInv, LinksAgree
<1> QED
  BY <1>2, <1>3, <1>4, <1>5 DEF Inv

LEMMA NextInv ==
  Inv /\ Next => Inv' /\ ClosedKept
BY ReceiveInv, EndInv, RemainingInv, FinishInv DEF Next

\* The inductive invariant of T04 holds in every state.
THEOREM Invariant ==
  Spec => []Inv
<1>1. Inv /\ [Next]_vars => Inv'
  BY NextInv, StutterInv
<1> QED
  BY InitInv, <1>1, PTL DEF Spec

\* T04's state has its types; the queues name attempts, each once.
THEOREM SegmentTypes ==
  Spec => []TypeOK
<1>1. Inv => TypeOK
  <2> SUFFICES ASSUME Inv PROVE TypeOK
    OBVIOUS
  <2>1. \A n \in DOMAIN log :
          log[n].event \in Event /\ log[n].frame \in Nat /\ log[n].time \in Nat \cup {None}
    BY LogEntry DEF Inv, Stamp
  <2> QED
    BY <2>1 DEF Inv, TypeInv, QueuesInv, TypeOK
<1> QED
  BY Invariant, <1>1, PTL

\* Every event is in exactly one place: once in the list of one attempt, or
\* among the unassigned.
THEOREM EventsInOnePlace ==
  Spec => []EventsPartitioned
<1>1. Inv => EventsPartitioned
  <2> SUFFICES ASSUME Inv, NEW n \in DOMAIN log
               PROVE  LET places == {x \in (DOMAIN attempt) \X Position :
                                       /\ x[2] \in DOMAIN attempt[x[1]].events
                                       /\ attempt[x[1]].events[x[2]] = n}
                      IN  Cardinality(places) + (IF n \in unassigned THEN 1 ELSE 0) = 1
    BY DEF EventsPartitioned
  <2> DEFINE places == {x \in (DOMAIN attempt) \X Position :
                          /\ x[2] \in DOMAIN attempt[x[1]].events
                          /\ attempt[x[1]].events[x[2]] = n}
  <2>1. CASE n \in unassigned
    <3>1. places = {}
      BY <2>1 DEF Inv, EventsInv
    <3>2. Cardinality(places) = 0
      BY <3>1, FS_EmptySet
    <3> QED
      BY <2>1, <3>2
  <2>2. CASE n \notin unassigned
    <3>1. PICK a \in DOMAIN attempt :
            \E k \in DOMAIN attempt[a].events : attempt[a].events[k] = n
      BY <2>2 DEF Inv, EventsInv
    <3>2. PICK k \in DOMAIN attempt[a].events : attempt[a].events[k] = n
      BY <3>1
    <3>3. k \in Position
      <4>1. attempt[a] \in Attempt
        BY DEF Inv, TypeInv
      <4>2. attempt[a].events \in Seq(Position)
        BY <4>1 DEF Attempt
      <4>3. k \in Nat \ {0} /\ k <= n
        BY <3>2, <4>2 DEF Inv, EventsInv
      <4>4. n <= Len(log) /\ Len(log) \in Nat /\ n \in Nat /\ Len(log) <= MaxEvents
        BY AttemptsFinite DEF Inv, TypeInv
      <4> QED
        BY <4>3, <4>4, AttemptAssumption DEF Position, AttemptAssumption
    <3>4. <<a, k>> \in places
      BY <3>2, <3>3
    <3>5. ASSUME NEW x \in places PROVE x = <<a, k>>
      BY <3>2, <3>5 DEF Inv, EventsInv
    <3>6. places = {<<a, k>>}
      BY <3>4, <3>5
    <3>7. Cardinality(places) = 1
      BY <3>6, FS_Singleton
    <3> QED
      BY <2>2, <3>7
  <2> QED
    BY <2>1, <2>2
<1> QED
  BY Invariant, <1>1, PTL

\* A closed attempt never absorbs a later event, keeps its outcome and is
\* closed once.
THEOREM ClosedStaysClosed ==
  Spec => ClosedForGood
<1> DEFINE A == \A k \in DOMAIN completed :
                  /\ completed'[k] = completed[k]
                  /\ attempt'[completed[k]].events = attempt[completed[k]].events
                  /\ attempt'[completed[k]].outcome = attempt[completed[k]].outcome
                  /\ completed[k] \notin ToSet(open')
<1>1. Inv /\ [Next]_vars => [A]_vars
  BY NextInv DEF ClosedKept
<1> QED
  BY Invariant, <1>1, PTL DEF Spec, ClosedForGood

\* No attempt lives on over a silence longer than its time-outs, and the
\* outcome of a closed one is the one its events and the silence account for.
THEOREM TimeoutsAreKept ==
  Spec => []TimeoutsKept
<1>1. Inv => TimeoutsKept
  BY DEF Inv, OutcomesInv, TimeoutsKept
<1> QED
  BY Invariant, <1>1, PTL

\* No subscriber has more open attempts than are allowed.
THEOREM OpenIsBounded ==
  Spec => []OpenBound
<1>1. Inv => OpenBound
  BY DEF Inv
<1> QED
  BY Invariant, <1>1, PTL

\* If the assignment threshold is above 60 (it is 70 unless configured), an
\* event of one subscriber is given to an attempt of another only on the very
\* access context of that attempt.
THEOREM SubscribersKeptApart ==
  ASSUME Limits.confidence > 60
  PROVE  Spec => []SubscribersApart
<1> DEFINE J == Inv /\ ForeignNeedsContext
<1>1. Init => J
  <2>1. Init => ForeignNeedsContext
    BY DEF Init, ForeignNeedsContext
  <2> QED
    BY <2>1, InitInv
<1>2. J /\ [Next]_vars => J'
  <2> SUFFICES ASSUME J, [Next]_vars PROVE J'
    OBVIOUS
  <2>1. Inv'
    BY NextInv, StutterInv
  <2>2. ForeignNeedsContext'
    <3>1. ASSUME NEW e \in Event, NEW s \in Step, Receive(e, s) PROVE ForeignNeedsContext'
      <4>1. Logged(e)
        BY <3>1, ReceiveLogs DEF Inv
      <4>2. PICK expired, owner : Passed(e, expired, owner)
        BY <3>1, ReceivePasses DEF Inv
      <4> QED
        BY <4>1, <4>2, PassForeign DEF Inv
    <3>2. ASSUME NEW s \in Step, EndOfCapture(s) PROVE ForeignNeedsContext'
      BY <3>2 DEF EndOfCapture, ForeignNeedsContext, Trigger
    <3>3. CASE CloseRemaining
      <4>1. PICK a : Closed(a)
        BY <3>3, RemainingClosed DEF Inv
      <4>2. /\ log' = log /\ DOMAIN attempt' = DOMAIN attempt
            /\ \A b \in DOMAIN attempt : attempt'[b].events = attempt[b].events
        BY <4>1 DEF Closed
      <4> QED
        BY <4>2 DEF ForeignNeedsContext, Trigger
    <3>4. CASE Finish
      <4>1. /\ log' = log /\ DOMAIN attempt' = DOMAIN attempt
            /\ \A b \in DOMAIN attempt : attempt'[b].events = attempt[b].events
        BY <3>4, FinishTyped DEF Inv, Finish
      <4> QED
        BY <4>1 DEF ForeignNeedsContext, Trigger
    <3>5. CASE UNCHANGED vars
      BY <3>5 DEF vars, ForeignNeedsContext, Trigger
    <3> QED
      BY <3>1, <3>2, <3>3, <3>4, <3>5 DEF Next
  <2> QED
    BY <2>1, <2>2
<1>3. J => SubscribersApart
  BY DEF Inv, SubscribersApart
<1> QED
  BY <1>1, <1>2, <1>3, PTL DEF Spec

\* Retries form chains of like attempts, of which none but the last succeeded,
\* and in the end parents, children and their records agree.
THEOREM RelationsAreSound ==
  Spec => []RelationsSound
<1>1. ASSUME Inv, NEW r \in relations, r.kind = "retry_of"
      PROVE  /\ attempt[r.left].profile = attempt[r.right].profile
             /\ Trigger(r.left).ue = Trigger(r.right).ue
             /\ attempt[r.right].outcome \notin {"succeeded", "open"}
             /\ \A q \in relations :
                  q.kind = "retry_of" /\ (q.left = r.left \/ q.right = r.right) => q = r
  <2>1. PICK i \in DOMAIN completed, j \in DOMAIN completed : RetryAt(r, i, j)
    BY <1>1 DEF Inv, RetriesInv
  <2>2. completed[j] \in ToSet(completed) /\ attempt[completed[j]].outcome # "open"
    <3>1. completed[j] \in ToSet(completed)
      BY DEF ToSet
    <3> QED
      BY <1>1, <3>1 DEF Inv, OutcomesInv
  <2>3. DOMAIN completed \subseteq Nat /\ IsInjective(completed)
    <3>1. completed \in Seq(DOMAIN attempt) /\ IsInjective(completed)
      BY <1>1 DEF Inv, QueuesInv
    <3>2. DOMAIN completed = 1 .. Len(completed) /\ Len(completed) \in Nat
      BY <3>1
    <3> QED
      BY <3>1, <3>2
  <2>4. ASSUME NEW q \in relations, q.kind = "retry_of", q.left = r.left \/ q.right = r.right
        PROVE  q = r
    <3>1. PICK m \in DOMAIN completed, l \in DOMAIN completed : RetryAt(q, m, l)
      BY <2>4, <1>1 DEF Inv, RetriesInv
    <3>2. CASE q.left = r.left
      <4>1. m = i
        BY <2>1, <2>3, <3>1, <3>2 DEF RetryAt, IsInjective
      <4>2. l = j
        BY <2>1, <2>3, <3>1, <4>1 DEF RetryAt
      <4> QED
        BY <1>1, <2>1, <2>4, <3>1, <4>1, <4>2 DEF RetryAt, Inv, TypeInv, Relation
    <3>3. CASE q.right = r.right
      <4>1. l = j
        BY <2>1, <2>3, <3>1, <3>3 DEF RetryAt, IsInjective
      <4>2. Alike(completed[m], completed[i]) /\ Alike(completed[i], completed[m])
        BY <2>1, <3>1, <4>1 DEF RetryAt, Alike
      <4>3. ~ (m < i) /\ ~ (i < m)
        BY <2>1, <2>3, <3>1, <4>1, <4>2 DEF RetryAt
      <4>4. m = i
        BY <2>3, <4>3
      <4> QED
        BY <1>1, <2>1, <2>4, <3>1, <4>1, <4>4 DEF RetryAt, Inv, TypeInv, Relation
    <3> QED
      BY <2>4, <3>2, <3>3
  <2> QED
    BY <2>1, <2>2, <2>4 DEF RetryAt, Alike, Trigger
<1>2. Inv => RelationsSound
  BY <1>1 DEF Inv, RelationsSound, RetryChains
<1> QED
  BY Invariant, <1>2, PTL
=============================================================================
