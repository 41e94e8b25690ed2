----------------------- MODULE DiagnosisPasses_proofs -----------------------
(***************************************************************************)
(* Which diagnosis the report shows, for any number of attempts, any       *)
(* candidates, any budget and whatever a model answers.                    *)
(*                                                                         *)
(* DiagnosisFitsRoot looks at the end of the run only.  What carries it    *)
(* there is the order of the list of diagnoses: the first N are the        *)
(* initial ones, in the order of the attempts, and those behind them the   *)
(* final ones, one for every second ranking the loop has passed.           *)
(*                                                                         *)
(* The rest holds of failed runs too: one round of inspections, what a     *)
(* second ranking owes to them, and the budget of every packet.            *)
(***************************************************************************)
EXTENDS DiagnosisPasses, Lists_proofs

\* What a diagnosis owes to the ranking its packet was built on.
Describes(d, root) ==
  /\ d.revision = Revision(root)
  /\ root.primary # None /\ d.primary \notin {None, root.primary.id} => d.conflict

Initials == {i \in 1 .. N : i <= Len(diagnoses)}
Finals == (N + 1) .. Len(diagnoses)

Steps == {"rank", "build", "ask", "inspect", "rerank", "rebuild", "reask", "render", "done"}

Positions ==
  /\ turn \in 1 .. N /\ pc \in Steps
  /\ pc \in {"rank", "rerank"} => turn = 1
  /\ pc \notin {"render", "done"} => outcome # "failed"

\* diagnoses is a sequence, packets a function of pass and attempt.
Containers ==
  /\ \E S : diagnoses \in Seq(S)
  /\ \E S : packets \in [{"primary", "dependency_expanded"} -> [Attempts -> S]]

\* How long the list is, and what of it the state has.
Lengths ==
  /\ pc \in {"rank", "build", "ask"} => Len(diagnoses) = turn - 1
  /\ pc \in {"inspect", "rerank"} => Len(diagnoses) = N
  /\ pc \in {"rebuild", "reask", "render", "done"} => Len(diagnoses) >= N
  /\ pc \in {"inspect", "rerank", "rebuild", "reask", "render", "done"} => reported = diagnoses

InitialsFit ==
  \A i \in Initials : diagnoses[i].attempt = i /\ Describes(diagnoses[i], roots[i])

FinalsFit ==
  \A i \in Finals : /\ diagnoses[i].attempt \in Attempts
                    /\ expanded[diagnoses[i].attempt] # None
                    /\ Describes(diagnoses[i], expanded[diagnoses[i].attempt])
                    /\ \A j \in Finals : diagnoses[i].attempt = diagnoses[j].attempt => i = j

\* The loop over the second rankings has passed the attempts of `passed`.
FinalsOf(passed) ==
  /\ kept = expanded
  /\ \A i \in Finals : diagnoses[i].attempt \in passed
  /\ \A a \in passed : expanded[a] # None => \E i \in Finals : diagnoses[i].attempt = a

InitialBuilt(a) == packets["primary"][a] = Trim(InitialPacket(a))

Built ==
  /\ \A a \in Attempts :
       (pc = "build" => a < turn) /\ (pc = "ask" => a <= turn) /\ pc # "rank" => InitialBuilt(a)
  /\ pc = "reask" => /\ expanded[turn] # None
                     /\ packets["dependency_expanded"][turn] = Trim(ExpandedPacket(turn))

Rankings ==
  /\ pc \in {"build", "ask", "inspect", "rerank"} => kept = roots
  /\ pc \in {"rebuild", "reask"} => FinalsOf(1 .. (turn - 1))
  /\ pc \in {"render", "done"} => \/ kept = roots /\ Len(diagnoses) = N
                                  \/ FinalsOf(Attempts)

IInv ==
  /\ Positions
  /\ outcome # "failed" =>
       Containers /\ Lengths /\ InitialsFit /\ FinalsFit /\ Built /\ Rankings

-----------------------------------------------------------------------------
(* The operators *)

\* A diagnosis describes what its packet was built on: the attempt and the
\* revision are the packet's, another primary candidate is a conflict.
LEMMA DiagnosisOfPacket ==
  ASSUME NEW p, NEW pass, NEW d \in GenerateDiagnosis(p, pass)
  PROVE  /\ d.attempt = p.attempt /\ d.revision = p.revision
         /\ p.primary # None /\ d.primary \notin {None, p.primary.id} => d.conflict
<1>1. CASE d = Diagnosis(p, pass, "disabled", None, FALSE, << >>)
  BY <1>1 DEF Diagnosis
<1>2. CASE d = Diagnosis(p, pass, "failed", None, FALSE, << >>)
  BY <1>2 DEF Diagnosis
<1>3. ASSUME NEW payload \in Payloads(p, pass), d = Validated(p, pass, payload)
      PROVE  /\ d.attempt = p.attempt /\ d.revision = p.revision
             /\ p.primary # None /\ d.primary \notin {None, p.primary.id} => d.conflict
  BY <1>3 DEF Validated, Diagnosis, Conflicts, PrimaryId
<1> QED
  BY <1>1, <1>2, <1>3 DEF GenerateDiagnosis

\* Cutting a packet to its budget leaves what it is about alone.
LEMMA InitialPacketTrimmed ==
  ASSUME NEW a
  PROVE  LET p == Trim(InitialPacket(a)) IN
         p.attempt = a /\ p.revision = Revision(roots[a]) /\ p.primary = roots[a].primary
BY DEF Trim, InitialPacket

LEMMA ExpandedPacketTrimmed ==
  ASSUME NEW a, InitialBuilt(a)
  PROVE  LET p == Trim(ExpandedPacket(a)) IN
         p.attempt = a /\ p.revision = Revision(expanded[a]) /\ p.primary = expanded[a].primary
<1> DEFINE first == Trim(InitialPacket(a))
           q == ExpandedPacket(a)
<1>1. /\ first.attempt = a
      /\ DOMAIN first = {"attempt", "pass", "revision", "parent", "primary", "consumed", "optional"}
  BY DEF Trim, InitialPacket
<1>2. /\ DOMAIN q = DOMAIN first
      /\ q.attempt = a /\ q.revision = Revision(expanded[a]) /\ q.primary = expanded[a].primary
  BY <1>1 DEF ExpandedPacket, InitialBuilt
<1>3. /\ Trim(q).attempt = q.attempt /\ Trim(q).revision = q.revision
      /\ Trim(q).primary = q.primary
  BY <1>1, <1>2 DEF Trim
<1> QED
  BY <1>2, <1>3

-----------------------------------------------------------------------------
(* The invariant *)

\* Packets that were built stay what they are while the first ranking does.
LEMMA BuiltUnchanged ==
  ASSUME UNCHANGED <<case, roots>>, NEW a, packets'["primary"][a] = packets["primary"][a]
  PROVE  InitialBuilt(a)' <=> InitialBuilt(a)
BY DEF InitialBuilt, Trim, InitialPacket, Mandatory

\* Steps that leave rankings, packets and diagnoses alone.
LEMMA ResultsUnchanged ==
  ASSUME UNCHANGED <<case, ranking, packets, diagnoses, reported>>
  PROVE  /\ Containers => Containers'
         /\ InitialsFit => InitialsFit'
         /\ FinalsFit => FinalsFit'
         /\ \A a : InitialBuilt(a) => InitialBuilt(a)'
         /\ \A passed : FinalsOf(passed) => FinalsOf(passed)'
<1>1. \A a : InitialBuilt(a)' <=> InitialBuilt(a)
  BY BuiltUnchanged DEF ranking
<1> QED
  BY <1>1 DEF ranking, Containers, InitialsFit, FinalsFit, FinalsOf, Initials, Finals, Describes

LEMMA InvariantInit == Init => IInv
<1> SUFFICES ASSUME Init PROVE IInv
  OBVIOUS
<1> USE NAssumption
<1>1. Positions
  BY DEF Init, Positions, Steps
<1>2. Containers
  <2>1. diagnoses \in Seq({})
    BY DEF Init
  <2>2. packets \in [{"primary", "dependency_expanded"} -> [Attempts -> {None}]]
    BY DEF Init
  <2> QED
    BY <2>1, <2>2 DEF Containers
<1>3. Lengths
  BY DEF Init, Lengths
<1>4. InitialsFit /\ FinalsFit
  BY DEF Init, InitialsFit, FinalsFit, Initials, Finals
<1>5. Built /\ Rankings
  BY DEF Init, Built, Rankings
<1> QED
  BY <1>1, <1>2, <1>3, <1>4, <1>5 DEF IInv

LEMMA RankPrimaryStep ==
  ASSUME IInv, RankPrimary
  PROVE  IInv'
<1> USE NAssumption
<1>0. turn = 1 /\ pc = "rank" /\ pc' = "build" /\ outcome # "failed" /\ Len(diagnoses) = 0
  BY DEF IInv, Positions, Lengths, RankPrimary
<1>1. Positions'
  BY <1>0 DEF RankPrimary, IInv, Positions, Steps
<1>2. Containers' /\ Lengths'
  BY <1>0 DEF RankPrimary, IInv, Containers, Lengths
<1>3. InitialsFit' /\ FinalsFit'
  BY <1>0 DEF RankPrimary, InitialsFit, FinalsFit, Initials, Finals
<1>4. Built' /\ Rankings'
  BY <1>0 DEF RankPrimary, Built, Rankings, Attempts
<1> QED
  BY <1>1, <1>2, <1>3, <1>4 DEF IInv

LEMMA BuildInitialStep ==
  ASSUME IInv, BuildInitial
  PROVE  IInv'
<1> USE NAssumption
<1>0. pc = "build" /\ pc' = "ask" /\ outcome # "failed" /\ turn \in Attempts
  BY DEF IInv, Positions, BuildInitial, Attempts
<1>a. PICK S : packets \in [{"primary", "dependency_expanded"} -> [Attempts -> S]]
  BY <1>0 DEF IInv, Containers
<1>1. Positions'
  BY <1>0 DEF BuildInitial, IInv, Positions, Steps
<1>2. Containers' /\ Lengths'
  <2> DEFINE p == Trim(InitialPacket(turn))
  <2>1. packets' \in [{"primary", "dependency_expanded"} -> [Attempts -> S \cup {p}]]
    <3> HIDE DEF p
    <3> QED
      BY <1>0, <1>a DEF BuildInitial, p
  <2> QED
    BY <1>0, <2>1 DEF BuildInitial, IInv, Containers, Lengths
<1>3. InitialsFit' /\ FinalsFit'
  BY <1>0 DEF BuildInitial, IInv, InitialsFit, FinalsFit, Initials, Finals, Describes, ranking
<1>4. Built'
  <2> SUFFICES ASSUME NEW a \in Attempts, a <= turn PROVE InitialBuilt(a)'
    BY <1>0 DEF Built, BuildInitial
  <2>1. CASE a = turn
    <3>1. packets'["primary"][turn] = Trim(InitialPacket(turn))
      BY <1>0, <1>a DEF BuildInitial
    <3> QED
      BY <2>1, <3>1 DEF BuildInitial, InitialBuilt, Trim, InitialPacket, Mandatory, ranking, analysis
  <2>2. CASE a # turn
    <3>1. packets'["primary"][a] = packets["primary"][a]
      BY <1>0, <1>a, <2>2 DEF BuildInitial
    <3>2. InitialBuilt(a)
      BY <1>0, <2>2 DEF IInv, Built, Positions, Attempts
    <3> QED
      BY <3>1, <3>2, BuiltUnchanged DEF BuildInitial, ranking, analysis
  <2> QED
    BY <2>1, <2>2
<1>5. Rankings'
  BY <1>0 DEF BuildInitial, IInv, Rankings, ranking
<1> QED
  BY <1>1, <1>2, <1>3, <1>4, <1>5 DEF IInv

\* One more diagnosis at the end of the list.
LEMMA Appended ==
  ASSUME NEW S, diagnoses \in Seq(S), NEW d, diagnoses' = Append(diagnoses, d)
  PROVE  /\ diagnoses' \in Seq(S \cup {d})
         /\ Len(diagnoses) \in Nat /\ Len(diagnoses') = Len(diagnoses) + 1
         /\ \A i \in 1 .. Len(diagnoses) : diagnoses'[i] = diagnoses[i]
         /\ diagnoses'[Len(diagnoses) + 1] = d
<1>1. diagnoses \in Seq(S \cup {d})
  OBVIOUS
<1> QED
  BY <1>1

LEMMA DiagnoseInitialStep ==
  ASSUME IInv, DiagnoseInitial
  PROVE  IInv'
<1> USE NAssumption
<1> DEFINE p == packets["primary"][turn]
<1>0. /\ pc = "ask" /\ outcome # "failed" /\ turn \in Attempts /\ Len(diagnoses) = turn - 1
      /\ UNCHANGED <<analysis, ranking, packets, outcome>>
  BY DEF IInv, Positions, Lengths, DiagnoseInitial, Attempts
<1>a. PICK S : diagnoses \in Seq(S)
  BY <1>0 DEF IInv, Containers
<1>b. PICK d \in GenerateDiagnosis(p, "initial") : diagnoses' = Append(diagnoses, d)
  BY DEF DiagnoseInitial
<1>c. InitialBuilt(turn)
  BY <1>0 DEF IInv, Built, Attempts
<1>d. d.attempt = turn /\ Describes(d, roots[turn])
  <2>1. p.attempt = turn /\ p.revision = Revision(roots[turn]) /\ p.primary = roots[turn].primary
    BY <1>c, InitialPacketTrimmed DEF InitialBuilt
  <2>2. /\ d.attempt = p.attempt /\ d.revision = p.revision
        /\ p.primary # None /\ d.primary \notin {None, p.primary.id} => d.conflict
    BY <1>b, DiagnosisOfPacket
  <2> QED
    BY <2>1, <2>2 DEF Describes
<1>e. /\ Len(diagnoses') = turn
      /\ \A i \in 1 .. (turn - 1) : diagnoses'[i] = diagnoses[i]
      /\ diagnoses'[turn] = d
      /\ diagnoses' \in Seq(S \cup {d})
  BY <1>0, <1>a, <1>b, Appended DEF Attempts
<1>f. \/ turn < N /\ turn' = turn + 1 /\ pc' = "build" /\ reported' = reported
      \/ turn = N /\ turn' = 1 /\ pc' = "inspect" /\ reported' = diagnoses'
  BY <1>0 DEF DiagnoseInitial, Advance, Attempts
<1>1. Positions'
  BY <1>0, <1>f DEF Positions, Steps, Attempts
<1>2. Containers' /\ Lengths'
  <2>1. Containers'
    BY <1>0, <1>e DEF IInv, Containers
  <2>2. Lengths'
    BY <1>0, <1>e, <1>f DEF Lengths, Attempts
  <2> QED
    BY <2>1, <2>2
<1>3. InitialsFit' /\ FinalsFit'
  <2>1. InitialsFit'
    <3> SUFFICES ASSUME NEW i \in 1 .. turn
                 PROVE  diagnoses'[i].attempt = i /\ Describes(diagnoses'[i], roots[i])
      BY <1>0, <1>e DEF InitialsFit, Initials, Describes, ranking
    <3>1. CASE i = turn
      BY <3>1, <1>d, <1>e
    <3>2. CASE i # turn
      BY <3>2, <1>0, <1>e DEF IInv, InitialsFit, Initials, Attempts
    <3> QED
      BY <3>1, <3>2
  <2>2. FinalsFit'
    BY <1>0, <1>e DEF FinalsFit, Finals, Attempts
  <2> QED
    BY <2>1, <2>2
<1>4. Built'
  <2>1. ASSUME NEW a \in Attempts, pc' = "build" => a < turn' PROVE InitialBuilt(a)'
    <3>1. InitialBuilt(a)
      BY <1>0, <1>f, <2>1 DEF IInv, Built, Attempts
    <3> QED
      BY <1>0, <3>1, BuiltUnchanged DEF analysis, ranking
  <2> QED
    BY <1>f, <2>1 DEF Built
<1>5. Rankings'
  BY <1>0, <1>f DEF IInv, Rankings, ranking
<1> QED
  BY <1>1, <1>2, <1>3, <1>4, <1>5 DEF IInv

\* Steps of the inspections: the state goes on, what was said stays.
LEMMA InspectionStep ==
  ASSUME IInv, Inspect \/ NextDiagnosis
  PROVE  IInv'
<1> USE NAssumption
<1>0. /\ pc = "inspect" /\ outcome # "failed" /\ turn \in Attempts /\ Len(diagnoses) = N
      /\ UNCHANGED <<case, ranking, packets, diagnoses, reported, outcome>>
      /\ \/ pc' = "inspect" /\ turn' \in Attempts
         \/ pc' = "rerank" /\ turn' = 1
  BY DEF IInv, Positions, Lengths, Inspect, NextDiagnosis, Advance, Attempts, analysis
<1>1. Positions'
  BY <1>0 DEF Positions, Steps, Attempts
<1>2. Containers' /\ Lengths' /\ InitialsFit' /\ FinalsFit'
  BY <1>0, ResultsUnchanged DEF IInv, Lengths
<1>3. Built'
  <2>1. \A a \in Attempts : InitialBuilt(a)
    BY <1>0 DEF IInv, Built
  <2> QED
    BY <1>0, <2>1, ResultsUnchanged DEF Built
<1>4. Rankings'
  BY <1>0 DEF IInv, Rankings, ranking
<1> QED
  BY <1>1, <1>2, <1>3, <1>4 DEF IInv

LEMMA RankExpandedStep ==
  ASSUME IInv, RankExpanded
  PROVE  IInv'
<1> USE NAssumption
<1>0. /\ pc = "rerank" /\ outcome # "failed" /\ turn = 1 /\ Len(diagnoses) = N /\ kept = roots
      /\ UNCHANGED <<case, turn, roots, packets, diagnoses, reported, outcome>>
      /\ \/ pc' = "render" /\ kept' = kept
         \/ pc' = "rebuild" /\ kept' = expanded'
  <2>1. pc = "rerank" /\ outcome # "failed" /\ turn = 1 /\ Len(diagnoses) = N /\ kept = roots
    BY DEF IInv, Positions, Lengths, Rankings, RankExpanded
  <2>2. /\ UNCHANGED <<case, turn, roots, packets, diagnoses, reported, outcome>>
        /\ \/ pc' = "render" /\ kept' = kept
           \/ pc' = "rebuild" /\ kept' = expanded'
    <3> DEFINE ranked == {a \in Attempts : Returned(a) # {}}
    <3>1. /\ kept' = IF ranked = {} THEN kept ELSE expanded'
          /\ pc' = IF ranked = {} THEN "render" ELSE "rebuild"
          /\ UNCHANGED <<case, turn, roots, packets, diagnoses, reported, outcome>>
      BY DEF RankExpanded, analysis
    <3> HIDE DEF ranked
    <3> QED
      BY <3>1
  <2> QED
    BY <2>1, <2>2
<1>1. Positions'
  BY <1>0 DEF IInv, Positions, Steps
<1>2. Containers' /\ Lengths'
  <2>1. Containers'
    BY <1>0 DEF IInv, Containers
  <2>2. reported = diagnoses
    BY <1>0 DEF IInv, Lengths
  <2>3. Lengths'
    BY <1>0, <2>2 DEF Lengths
  <2> QED
    BY <2>1, <2>3
<1>3. InitialsFit' /\ FinalsFit'
  BY <1>0 DEF IInv, InitialsFit, FinalsFit, Initials, Finals, Describes
<1>4. Built'
  <2>1. \A a \in Attempts : InitialBuilt(a)
    BY <1>0 DEF IInv, Built
  <2>2. \A a \in Attempts : InitialBuilt(a)'
    BY <1>0, <2>1, BuiltUnchanged
  <2> QED
    BY <1>0, <2>2 DEF Built
<1>5. Rankings'
  BY <1>0 DEF Rankings, FinalsOf, Finals
<1> QED
  BY <1>1, <1>2, <1>3, <1>4, <1>5 DEF IInv

LEMMA SkipAttemptStep ==
  ASSUME IInv, SkipAttempt
  PROVE  IInv'
<1> USE NAssumption
<1>0. /\ pc = "rebuild" /\ outcome # "failed" /\ turn \in Attempts /\ expanded[turn] = None
      /\ Len(diagnoses) >= N /\ reported = diagnoses
      /\ UNCHANGED <<case, ranking, packets, diagnoses, reported, outcome>>
      /\ \/ turn < N /\ pc' = "rebuild" /\ turn' = turn + 1
         \/ turn = N /\ pc' = "render" /\ turn' = 1
  BY DEF IInv, Positions, Lengths, SkipAttempt, Advance, Attempts, analysis
<1>1. Positions'
  BY <1>0 DEF Positions, Steps, Attempts
<1>2. Containers' /\ InitialsFit' /\ FinalsFit'
  BY <1>0, ResultsUnchanged DEF IInv
<1>3. Lengths'
  BY <1>0 DEF Lengths
<1>4. Built'
  <2>1. \A a \in Attempts : InitialBuilt(a)
    BY <1>0 DEF IInv, Built
  <2> QED
    BY <1>0, <2>1, ResultsUnchanged DEF Built
<1>5. Rankings'
  <2>1. PICK passed : passed = 1 .. turn
    OBVIOUS
  <2>2. FinalsOf(1 .. (turn - 1))
    BY <1>0 DEF IInv, Rankings
  <2>3. FinalsOf(passed)
    BY <1>0, <2>1, <2>2 DEF FinalsOf, Attempts
  <2>4. FinalsOf(passed)'
    BY <1>0, <2>3, ResultsUnchanged
  <2> QED
    BY <1>0, <2>1, <2>4 DEF Rankings, Attempts
<1> QED
  BY <1>1, <1>2, <1>3, <1>4, <1>5 DEF IInv

LEMMA BuildExpandedStep ==
  ASSUME IInv, BuildExpanded
  PROVE  IInv'
<1> USE NAssumption
<1>0. /\ pc = "rebuild" /\ outcome # "failed" /\ turn \in Attempts /\ expanded[turn] # None
      /\ Len(diagnoses) >= N /\ reported = diagnoses
      /\ UNCHANGED <<case, turn, ranking, diagnoses, reported, inspections, outcome>>
      /\ pc' = "reask"
  BY DEF IInv, Positions, Lengths, BuildExpanded, Attempts, analysis
<1>a. PICK S : packets \in [{"primary", "dependency_expanded"} -> [Attempts -> S]]
  BY <1>0 DEF IInv, Containers
<1>b. \E p : /\ p = Trim(ExpandedPacket(turn))
             /\ packets' = [packets EXCEPT !["dependency_expanded"][turn] = p]
  BY DEF BuildExpanded
<1>c. PICK p : /\ p = Trim(ExpandedPacket(turn))
               /\ packets' = [packets EXCEPT !["dependency_expanded"][turn] = p]
  BY <1>b
<1>d. /\ packets' \in [{"primary", "dependency_expanded"} -> [Attempts -> S \cup {p}]]
      /\ packets'["primary"] = packets["primary"]
      /\ packets'["dependency_expanded"][turn] = p
  BY <1>0, <1>a, <1>c
<1>1. Positions'
  BY <1>0 DEF IInv, Positions, Steps
<1>2. Containers'
  BY <1>0, <1>d DEF IInv, Containers
<1>3. Lengths' /\ InitialsFit' /\ FinalsFit'
  BY <1>0 DEF IInv, Lengths, InitialsFit, FinalsFit, Initials, Finals, Describes, ranking
<1>4. Built'
  <2>1. \A a \in Attempts : InitialBuilt(a)'
    <3> SUFFICES ASSUME NEW a \in Attempts PROVE InitialBuilt(a)'
      OBVIOUS
    <3>1. InitialBuilt(a)
      BY <1>0 DEF IInv, Built
    <3> QED
      BY <1>0, <1>d, <3>1, BuiltUnchanged DEF ranking
  <2>2. ExpandedPacket(turn)' = ExpandedPacket(turn)
    BY <1>0, <1>d DEF ExpandedPacket, ranking
  <2>3. (packets["dependency_expanded"][turn] = Trim(ExpandedPacket(turn)))'
    BY <1>0, <1>c, <1>d, <2>2 DEF Trim, Mandatory
  <2> QED
    BY <1>0, <2>1, <2>3 DEF Built, ranking
<1>5. Rankings'
  BY <1>0 DEF IInv, Rankings, FinalsOf, Finals, ranking
<1> QED
  BY <1>1, <1>2, <1>3, <1>4, <1>5 DEF IInv

LEMMA DiagnoseFinalStep ==
  ASSUME IInv, DiagnoseFinal
  PROVE  IInv'
<1> USE NAssumption
<1> DEFINE p == packets["dependency_expanded"][turn]
           k == Len(diagnoses)
<1>0. /\ pc = "reask" /\ outcome # "failed" /\ turn \in Attempts /\ k >= N
      /\ expanded[turn] # None
      /\ UNCHANGED <<analysis, ranking, packets, outcome>> /\ reported' = diagnoses'
      /\ \/ turn < N /\ turn' = turn + 1 /\ pc' = "rebuild"
         \/ turn = N /\ turn' = 1 /\ pc' = "render"
  BY DEF IInv, Positions, Lengths, Built, DiagnoseFinal, Advance, Attempts
<1>a. PICK S : diagnoses \in Seq(S)
  BY <1>0 DEF IInv, Containers
<1>b. PICK d \in GenerateDiagnosis(p, "final") : diagnoses' = Append(diagnoses, d)
  BY DEF DiagnoseFinal
<1>c. \A a \in Attempts : InitialBuilt(a)
  BY <1>0 DEF IInv, Built
<1>d. d.attempt = turn /\ Describes(d, expanded[turn])
  <2>1. p = Trim(ExpandedPacket(turn))
    BY <1>0 DEF IInv, Built
  <2>2. /\ p.attempt = turn /\ p.revision = Revision(expanded[turn])
        /\ p.primary = expanded[turn].primary
    BY <1>0, <1>c, <2>1, ExpandedPacketTrimmed
  <2>3. /\ d.attempt = p.attempt /\ d.revision = p.revision
        /\ p.primary # None /\ d.primary \notin {None, p.primary.id} => d.conflict
    BY <1>b, DiagnosisOfPacket
  <2> QED
    BY <2>2, <2>3 DEF Describes
<1>e. /\ k \in Nat /\ Len(diagnoses') = k + 1
      /\ \A i \in 1 .. k : diagnoses'[i] = diagnoses[i]
      /\ diagnoses'[k + 1] = d
      /\ diagnoses' \in Seq(S \cup {d})
  BY <1>a, <1>b, Appended
<1>f. Finals' = Finals \cup {k + 1} /\ Finals \subseteq 1 .. k /\ k + 1 \notin Finals
  BY <1>0, <1>e DEF Finals
<1>g. FinalsOf(1 .. (turn - 1)) /\ FinalsFit
  BY <1>0 DEF IInv, Rankings
<1>1. Positions'
  BY <1>0 DEF Positions, Steps, Attempts
<1>2. Containers'
  BY <1>0, <1>e DEF IInv, Containers
<1>3. Lengths'
  BY <1>0, <1>e DEF Lengths
<1>4. InitialsFit'
  <2>1. InitialsFit
    BY <1>0 DEF IInv
  <2> QED
    BY <1>0, <1>e, <2>1 DEF InitialsFit, Initials, Describes, ranking
<1>5. FinalsFit'
  <2>1. \A i \in Finals : /\ diagnoses'[i] = diagnoses[i]
                          /\ diagnoses[i].attempt \in Attempts
                          /\ diagnoses[i].attempt # turn
                          /\ expanded[diagnoses[i].attempt] # None
                          /\ Describes(diagnoses[i], expanded[diagnoses[i].attempt])
    BY <1>0, <1>e, <1>f, <1>g DEF FinalsOf, FinalsFit, Attempts
  <2>2. \A i \in Finals' : /\ diagnoses'[i].attempt \in Attempts
                           /\ expanded[diagnoses'[i].attempt] # None
                           /\ Describes(diagnoses'[i], expanded[diagnoses'[i].attempt])
    BY <1>0, <1>d, <1>e, <1>f, <2>1
  <2>3. \A i, j \in Finals' : diagnoses'[i].attempt = diagnoses'[j].attempt => i = j
    BY <1>d, <1>e, <1>f, <1>g, <2>1 DEF FinalsFit
  <2> QED
    BY <1>0, <2>2, <2>3 DEF FinalsFit, Describes, ranking
<1>6. Built'
  <2>1. \A a \in Attempts : InitialBuilt(a)'
    <3> SUFFICES ASSUME NEW a \in Attempts PROVE InitialBuilt(a)'
      OBVIOUS
    <3> QED
      BY <1>0, <1>c, BuiltUnchanged DEF analysis, ranking
  <2> QED
    BY <1>0, <2>1 DEF Built
<1>7. Rankings'
  <2>1. kept' = expanded' /\ \A i \in Finals' : diagnoses'[i].attempt \in 1 .. turn
    BY <1>0, <1>d, <1>e, <1>f, <1>g DEF FinalsOf, ranking, Attempts
  <2>2. ASSUME NEW a \in 1 .. turn, expanded[a] # None
        PROVE  \E i \in Finals' : diagnoses'[i].attempt = a
    <3>1. CASE a = turn
      BY <1>d, <1>e, <1>f, <3>1
    <3>2. CASE a # turn
      <4>1. a \in 1 .. (turn - 1)
        BY <1>0, <3>2 DEF Attempts
      <4>2. PICK i \in Finals : diagnoses[i].attempt = a
        BY <1>g, <2>2, <4>1 DEF FinalsOf
      <4> QED
        BY <1>e, <1>f, <4>2
    <3> QED
      BY <3>1, <3>2
  <2>3. PICK passed : passed = 1 .. turn
    OBVIOUS
  <2>4. FinalsOf(passed)'
    BY <1>0, <2>1, <2>2, <2>3 DEF FinalsOf, ranking
  <2> QED
    BY <1>0, <2>3, <2>4 DEF Rankings, Attempts
<1> QED
  BY <1>1, <1>2, <1>3, <1>4, <1>5, <1>6, <1>7 DEF IInv

\* An exception leaves a run that has failed and nothing more to hold.
LEMMA RaiseStep ==
  ASSUME IInv, BuildFails \/ ProviderBreaks
  PROVE  IInv'
<1>1. pc' = "render" /\ outcome' = "failed" /\ turn' = turn
  BY DEF BuildFails, ProviderBreaks, Raise
<1>2. Positions'
  BY <1>1 DEF IInv, Positions, Steps
<1> QED
  BY <1>1, <1>2 DEF IInv

LEMMA RenderStep ==
  ASSUME IInv, Render
  PROVE  IInv'
<1>0. /\ pc = "render" /\ pc' = "done" /\ (outcome = "failed" => outcome' = "failed")
      /\ UNCHANGED <<case, turn, ranking, packets, diagnoses, reported>>
  BY DEF Render, analysis
<1>1. Positions'
  BY <1>0 DEF IInv, Positions, Steps
<1>2. ASSUME outcome # "failed"
      PROVE  Containers' /\ Lengths' /\ InitialsFit' /\ FinalsFit' /\ Built' /\ Rankings'
  <2>1. Containers' /\ InitialsFit' /\ FinalsFit'
    BY <1>0, <1>2, ResultsUnchanged DEF IInv
  <2>2. Lengths'
    BY <1>0, <1>2 DEF IInv, Lengths
  <2>3. Built'
    <3>1. \A a \in Attempts : InitialBuilt(a)
      BY <1>0, <1>2 DEF IInv, Built
    <3> QED
      BY <1>0, <3>1, ResultsUnchanged DEF Built
  <2>4. Rankings'
    <3>1. CASE kept = roots /\ Len(diagnoses) = N
      BY <1>0, <3>1 DEF Rankings, ranking
    <3>2. CASE FinalsOf(Attempts)
      <4>1. FinalsOf(Attempts)'
        BY <1>0, <3>2 DEF FinalsOf, Finals, ranking
      <4> QED
        BY <1>0, <4>1 DEF Rankings
    <3> QED
      BY <1>0, <1>2, <3>1, <3>2 DEF IInv, Rankings
  <2> QED
    BY <2>1, <2>2, <2>3, <2>4
<1> QED
  BY <1>0, <1>1, <1>2 DEF IInv

LEMMA StutterStep ==
  ASSUME IInv, UNCHANGED vars
  PROVE  IInv'
<1>0. UNCHANGED <<case, pc, turn, ranking, packets, diagnoses, reported, inspections, outcome>>
  BY DEF vars, analysis
<1>1. Positions'
  BY <1>0 DEF IInv, Positions
<1>2. ASSUME outcome # "failed"
      PROVE  Containers' /\ Lengths' /\ InitialsFit' /\ FinalsFit' /\ Built' /\ Rankings'
  <2>1. Containers' /\ InitialsFit' /\ FinalsFit'
    BY <1>0, <1>2, ResultsUnchanged DEF IInv
  <2>2. Lengths'
    BY <1>0, <1>2 DEF IInv, Lengths
  <2>3. Built'
    <3>1. \A a \in Attempts : InitialBuilt(a) => InitialBuilt(a)'
      BY <1>0, ResultsUnchanged
    <3>2. ExpandedPacket(turn)' = ExpandedPacket(turn)
      BY <1>0 DEF ExpandedPacket, ranking
    <3>3. Trim(ExpandedPacket(turn))' = Trim(ExpandedPacket(turn))
      BY <1>0, <3>2 DEF Trim, Mandatory
    <3> QED
      BY <1>0, <1>2, <3>1, <3>3 DEF IInv, Built, ranking
  <2>4. Rankings'
    BY <1>0, <1>2 DEF IInv, Rankings, FinalsOf, Finals, ranking
  <2> QED
    BY <2>1, <2>2, <2>3, <2>4
<1> QED
  BY <1>0, <1>1, <1>2 DEF IInv

\* The list of diagnoses is in the order the argument needs, in every run that
\* has not failed.
THEOREM DiagnosesInOrder == Spec => []IInv
<1>1. IInv /\ [Next]_vars => IInv'
  <2> SUFFICES ASSUME IInv, [Next]_vars PROVE IInv'
    OBVIOUS
  <2>1. CASE RankPrimary
    BY <2>1, RankPrimaryStep
  <2>2. CASE BuildInitial
    BY <2>2, BuildInitialStep
  <2>3. CASE BuildFails \/ ProviderBreaks
    BY <2>3, RaiseStep
  <2>4. CASE DiagnoseInitial
    BY <2>4, DiagnoseInitialStep
  <2>5. CASE Inspect \/ NextDiagnosis
    BY <2>5, InspectionStep
  <2>6. CASE RankExpanded
    BY <2>6, RankExpandedStep
  <2>7. CASE SkipAttempt
    BY <2>7, SkipAttemptStep
  <2>8. CASE BuildExpanded
    BY <2>8, BuildExpandedStep
  <2>9. CASE DiagnoseFinal
    BY <2>9, DiagnoseFinalStep
  <2>10. CASE Render
    BY <2>10, RenderStep
  <2>11. CASE Terminated \/ UNCHANGED vars
    BY <2>11, StutterStep DEF Terminated
  <2> QED
    BY <2>1, <2>2, <2>3, <2>4, <2>5, <2>6, <2>7, <2>8, <2>9, <2>10, <2>11 DEF Next
<1> QED
  BY InvariantInit, <1>1, PTL DEF Spec

-----------------------------------------------------------------------------
(* What the report shows *)

\* At the end the last diagnosis of an attempt describes the ranking the
\* report shows for it.
LEMMA LastDescribes ==
  ASSUME IInv, Finished, NEW a \in Attempts, kept[a] # None
  PROVE  /\ \E i \in Shown(a) : Describes(reported[i], kept[a])
         /\ \A i \in Shown(a) : Describes(reported[i], kept[a])
<1> USE NAssumption
<1>0. /\ Containers /\ InitialsFit /\ FinalsFit /\ reported = diagnoses /\ Len(diagnoses) >= N
      /\ \/ kept = roots /\ Len(diagnoses) = N
         \/ FinalsOf(Attempts)
  BY DEF IInv, Finished, Lengths, Rankings
<1>a. Len(diagnoses) \in Nat /\ DOMAIN diagnoses = 1 .. Len(diagnoses)
  BY <1>0 DEF Containers
<1>b. a \in 1 .. N
  BY DEF Attempts
<1>c. \A i \in 1 .. Len(diagnoses) : i \in Initials \/ i \in Finals
  BY <1>a DEF Initials, Finals
<1>1. CASE kept = roots /\ Len(diagnoses) = N
  <2>1. \A i \in DOMAIN reported : reported[i].attempt = i /\ Describes(reported[i], roots[i])
    BY <1>0, <1>1, <1>a DEF InitialsFit, Initials
  <2>2. a \in Shown(a) /\ \A i \in Shown(a) : i = a
    BY <1>0, <1>1, <1>a, <1>b, <2>1 DEF Shown
  <2> QED
    BY <1>0, <1>1, <1>a, <1>b, <2>1, <2>2
<1>2. CASE FinalsOf(Attempts)
  <2>1. PICK k \in Finals : diagnoses[k].attempt = a
    BY <1>2 DEF FinalsOf
  <2>2. k \in 1 .. Len(diagnoses) /\ k > N
    BY <1>a, <2>1 DEF Finals
  <2>3. \A i \in 1 .. Len(diagnoses) : diagnoses[i].attempt = a => i = k \/ i <= N
    BY <1>0, <1>c, <2>1 DEF FinalsFit, Initials
  <2>4. k \in Shown(a) /\ \A i \in Shown(a) : i = k
    <3> DEFINE About(i) == i \in 1 .. Len(diagnoses) /\ diagnoses[i].attempt = a
    <3>1. Shown(a) = {i \in 1 .. Len(diagnoses) :
                        About(i) /\ \A j \in 1 .. Len(diagnoses) : About(j) => j <= i}
      BY <1>0, <1>a DEF Shown
    <3>2. About(k) /\ \A i : About(i) => i = k \/ i <= N
      BY <2>1, <2>2, <2>3
    <3> HIDE DEF About
    <3>3. k \in Shown(a)
      BY <1>a, <2>2, <3>1, <3>2
    <3>4. ASSUME NEW i \in Shown(a) PROVE i = k
      BY <1>a, <2>2, <3>1, <3>2
    <3> QED
      BY <3>3, <3>4
  <2>5. Describes(diagnoses[k], kept[a])
    BY <1>0, <1>2, <2>1 DEF FinalsFit, FinalsOf
  <2> QED
    BY <1>0, <2>4, <2>5
<1> QED
  BY <1>0, <1>1, <1>2

\* However many attempts, whatever the model asks for and answers: what the
\* report shows beside a ranking was said of that ranking.
THEOREM ShownDiagnosisFits == Spec => []DiagnosisFitsRoot
<1>1. IInv => DiagnosisFitsRoot
  <2> SUFFICES ASSUME IInv, Finished, NEW a \in Attempts, kept[a] # None
               PROVE  \E i \in Shown(a) : reported[i].revision = Revision(kept[a])
    BY DEF DiagnosisFitsRoot
  <2> QED
    BY LastDescribes DEF Describes
<1> QED
  BY <1>1, DiagnosesInOrder, PTL

\* A model that names another primary candidate than the ranking it is shown
\* with is shown with the conflict.
THEOREM ShownConflictsRecorded == Spec => []ConflictsRecorded
<1>1. IInv => ConflictsRecorded
  <2> SUFFICES ASSUME IInv, Finished, NEW a \in Attempts, kept[a] # None, NEW i \in Shown(a),
                      kept[a].primary # None,
                      reported[i].primary \notin {None, PrimaryId(kept[a])}
               PROVE  reported[i].conflict
    BY DEF ConflictsRecorded
  <2>1. Describes(reported[i], kept[a])
    BY LastDescribes
  <2> QED
    BY <2>1 DEF Describes, PrimaryId
<1> QED
  BY <1>1, DiagnosesInOrder, PTL

-----------------------------------------------------------------------------
(* One round of inspections.  What follows holds of failed runs as well. *)

Requests(a, s) ==
  s \in Seq(ToSet(s)) /\ Len(s) <= MaxCalls /\ \A r \in ToSet(s) : r.attempt = a

InitialOf(d, a) == d.attempt = a /\ d.pass = "initial" /\ Requests(a, d.requests)

FinalOf(d) ==
  /\ d.pass = "final" /\ d.requests = << >>
  /\ d.attempt \in Attempts /\ expanded[d.attempt] # None

CourseInv ==
  /\ \E S : diagnoses \in Seq(S)
  /\ \A i \in Initials : InitialOf(diagnoses[i], i)
  /\ \A i \in Finals : FinalOf(diagnoses[i])
  /\ \A i, j \in Finals : diagnoses[i].attempt = diagnoses[j].attempt => i = j

\* The inspections of an attempt answer requests of its initial diagnosis; a
\* second ranking was made of something they returned.
InspectionsInv ==
  /\ \E S : inspections \in Seq(S)
  /\ \A i \in DOMAIN inspections : inspections[i].attempt \in Attempts
  /\ pc \in {"rank", "build", "ask"} => inspections = << >>
  /\ pc \in {"rank", "build", "ask", "inspect", "rerank"} =>
       \A a \in Attempts : expanded[a] = None
  /\ \A a \in Attempts :
       /\ Inspected(a) # {} => /\ a \in Initials
                               /\ Cardinality(Inspected(a)) <= Len(diagnoses[a].requests)
       /\ expanded[a] # None => Returned(a) # {}

\* No more than MaxCalls requests are followed, all about the attempt of the
\* packet, and none of the final pass.
LEMMA FollowedFits ==
  ASSUME NEW p, NEW pass, NEW requests, requests \in Seq(ToSet(requests))
  PROVE  /\ Requests(p.attempt, Followed(p, pass, requests))
         /\ pass = "final" => Followed(p, pass, requests) = << >>
<1> DEFINE X == {r \in ToSet(requests) : r.attempt = p.attempt /\ r.from <= r.to}
           valid == Keep(requests, X)
           m == Least(MaxCalls, Len(valid))
           q == SubSeq(valid, 1, m)
<1>1. valid \in Seq(ToSet(requests))
  BY KeepSelects
<1>2. ToSet(valid) = ToSet(requests) \cap X
  BY KeepElements
<1>3. \A r \in ToSet(valid) : r.attempt = p.attempt
  BY <1>2
<1>4. Followed(p, pass, requests) = IF pass = "final" THEN << >> ELSE q
  BY DEF Followed
<1> HIDE DEF valid
<1>5. /\ m \in Nat /\ m <= MaxCalls /\ m <= Len(valid)
      /\ DOMAIN valid = 1 .. Len(valid)
  BY <1>1, MaxCallsAssumption DEF Least
<1> HIDE DEF m
<1>6. q = [i \in 1 .. m |-> valid[i]] /\ Len(q) = m
  BY <1>1, <1>5
<1>7. \A r \in ToSet(q) : r \in ToSet(valid)
  BY <1>5, <1>6 DEF ToSet
<1>8. q \in Seq(ToSet(q))
  <2>1. DOMAIN q = 1 .. m /\ \A i \in 1 .. m : q[i] \in ToSet(q)
    BY <1>6 DEF ToSet
  <2>2. q = [i \in 1 .. m |-> q[i]]
    BY <1>6
  <2> HIDE DEF q
  <2> QED
    BY <1>5, <2>1, <2>2
<1> HIDE DEF q
<1>9. Requests(p.attempt, q)
  BY <1>3, <1>5, <1>6, <1>7, <1>8 DEF Requests
<1>10. Requests(p.attempt, << >>)
  BY MaxCallsAssumption DEF Requests, ToSet
<1> QED
  BY <1>4, <1>9, <1>10

LEMMA PayloadRequests ==
  ASSUME NEW p, NEW pass, NEW payload \in Payloads(p, pass)
  PROVE  payload.requests \in Seq(ToSet(payload.requests))
<1>1. \A x : /\ << >> \in Seq(ToSet(<< >>))
             /\ <<x>> \in Seq(ToSet(<<x>>))
  <2> SUFFICES ASSUME NEW x PROVE << >> \in Seq(ToSet(<< >>)) /\ <<x>> \in Seq(ToSet(<<x>>))
    OBVIOUS
  <2>1. DOMAIN <<x>> = 1 .. 1 /\ Len(<<x>>) = 1 /\ <<x>>[1] = x
    OBVIOUS
  <2>2. x \in ToSet(<<x>>)
    BY <2>1 DEF ToSet
  <2> QED
    BY <2>2
<1>2. DeterministicRequests(p) \in Seq(ToSet(DeterministicRequests(p)))
  BY <1>1 DEF DeterministicRequests
<1>3. CASE mode = "local"
  <2>1. payload = LocalPayload(p, pass)
    BY <1>3 DEF Payloads
  <2>2. payload.requests = IF pass = "initial" THEN DeterministicRequests(p) ELSE << >>
    BY <2>1 DEF LocalPayload
  <2> QED
    BY <1>1, <1>2, <2>2
<1>4. CASE mode # "local"
  <2>1. PICK w \in Answers : payload = RemotePayload(p, w)
    BY <1>4 DEF Payloads
  <2>2. payload.requests = w.requests
    BY <2>1 DEF RemotePayload
  <2> QED
    BY <2>2, AnswersAssumption
<1> QED
  BY <1>3, <1>4

LEMMA DiagnosisAsks ==
  ASSUME NEW p, NEW pass, NEW d \in GenerateDiagnosis(p, pass)
  PROVE  /\ d.pass = pass /\ Requests(p.attempt, d.requests)
         /\ pass = "final" => d.requests = << >>
<1>0. Requests(p.attempt, << >>)
  BY MaxCallsAssumption DEF Requests, ToSet
<1>1. CASE d = Diagnosis(p, pass, "disabled", None, FALSE, << >>)
  BY <1>0, <1>1 DEF Diagnosis
<1>2. CASE d = Diagnosis(p, pass, "failed", None, FALSE, << >>)
  BY <1>0, <1>2 DEF Diagnosis
<1>3. ASSUME NEW payload \in Payloads(p, pass), d = Validated(p, pass, payload)
      PROVE  /\ d.pass = pass /\ Requests(p.attempt, d.requests)
             /\ pass = "final" => d.requests = << >>
  <2>1. d.pass = pass /\ d.requests = Followed(p, pass, payload.requests)
    BY <1>3 DEF Validated, Diagnosis
  <2>2. payload.requests \in Seq(ToSet(payload.requests))
    BY PayloadRequests
  <2> QED
    BY <2>1, <2>2, FollowedFits
<1> QED
  BY <1>1, <1>2, <1>3 DEF GenerateDiagnosis

LEMMA CourseInit == Init => CourseInv /\ InspectionsInv
<1> SUFFICES ASSUME Init PROVE CourseInv /\ InspectionsInv
  OBVIOUS
<1>1. diagnoses \in Seq({}) /\ inspections \in Seq({}) /\ Len(diagnoses) = 0
  BY DEF Init
<1>2. \A a : Inspected(a) = {}
  BY DEF Init, Inspected
<1>3. \A a \in Attempts : expanded[a] = None
  BY DEF Init
<1> QED
  BY <1>1, <1>2, <1>3, NAssumption DEF Init, CourseInv, InspectionsInv, Initials, Finals

\* Where no diagnosis is added.
LEMMA CourseUnchanged ==
  ASSUME CourseInv, UNCHANGED diagnoses,
         UNCHANGED expanded \/ Len(diagnoses) = N
  PROVE  CourseInv'
<1>1. CASE UNCHANGED expanded
  BY <1>1 DEF CourseInv, Initials, Finals, InitialOf, FinalOf
<1>2. CASE Len(diagnoses) = N
  BY <1>2, NAssumption DEF CourseInv, Initials, Finals, InitialOf, FinalOf
<1> QED
  BY <1>1, <1>2

\* Where nothing is inspected and ranked.
LEMMA InspectionsUnchanged ==
  ASSUME InspectionsInv, UNCHANGED <<expanded, inspections>>,
         \A i \in Initials : i \in Initials' /\ diagnoses'[i] = diagnoses[i],
         pc' \in {"rank", "build", "ask"} => pc \in {"rank", "build", "ask"},
         pc' \in {"rank", "build", "ask", "inspect", "rerank"} =>
           pc \in {"rank", "build", "ask", "inspect", "rerank"}
  PROVE  InspectionsInv'
<1>1. \A a : Inspected(a)' = Inspected(a) /\ Returned(a)' = Returned(a)
  BY DEF Inspected, Returned
<1> QED
  BY <1>1 DEF InspectionsInv

LEMMA CourseDiagnosed ==
  ASSUME IInv, IInv', CourseInv, InspectionsInv, DiagnoseInitial \/ DiagnoseFinal
  PROVE  CourseInv' /\ InspectionsInv'
<1> USE NAssumption
<1> DEFINE k == Len(diagnoses)
<1>0. /\ outcome # "failed" /\ outcome' # "failed" /\ turn \in Attempts
      /\ UNCHANGED <<expanded, inspections>>
  BY DEF IInv, Positions, DiagnoseInitial, DiagnoseFinal, ranking, Attempts
<1>1. PICK S : diagnoses \in Seq(S)
  BY DEF CourseInv
<1>2. PICK p, pass : \E d \in GenerateDiagnosis(p, pass) :
        /\ diagnoses' = Append(diagnoses, d)
        /\ \/ pass = "initial" /\ k = turn - 1 /\ pc = "ask"
           \/ pass = "final" /\ k >= N /\ pc = "reask" /\ expanded[turn] # None
  BY <1>0 DEF DiagnoseInitial, DiagnoseFinal, IInv, Lengths, Built
<1>3. PICK d \in GenerateDiagnosis(p, pass) :
        /\ diagnoses' = Append(diagnoses, d)
        /\ \/ pass = "initial" /\ k = turn - 1 /\ pc = "ask"
           \/ pass = "final" /\ k >= N /\ pc = "reask" /\ expanded[turn] # None
  BY <1>2
<1>4. /\ d.pass = pass /\ Requests(p.attempt, d.requests)
      /\ pass = "final" => d.requests = << >>
      /\ d.attempt = p.attempt
  BY DiagnosisAsks, DiagnosisOfPacket
<1>5. /\ k \in Nat /\ Len(diagnoses') = k + 1
      /\ \A i \in 1 .. k : diagnoses'[i] = diagnoses[i]
      /\ diagnoses'[k + 1] = d
      /\ diagnoses' \in Seq(S \cup {d})
  BY <1>1, <1>3, Appended
<1>6. \A i \in Initials : i \in Initials' /\ diagnoses'[i] = diagnoses[i]
  BY <1>5 DEF Initials
<1>7. InitialsFit' /\ FinalsFit'
  BY <1>0 DEF IInv
<1>8. CourseInv'
  <2>1. ASSUME NEW i \in Initials' PROVE InitialOf(diagnoses'[i], i)
    <3>1. diagnoses'[i].attempt = i
      BY <1>7, <2>1 DEF InitialsFit
    <3>2. CASE i \in Initials
      BY <1>6, <3>2 DEF CourseInv
    <3>3. CASE i \notin Initials
      <4>1. i = k + 1 /\ pass = "initial"
        BY <1>0, <1>3, <1>5, <2>1, <3>3 DEF Initials, Attempts
      <4> QED
        BY <1>4, <1>5, <3>1, <4>1 DEF InitialOf
    <3> QED
      BY <3>2, <3>3
  <2>2. ASSUME NEW i \in Finals'
        PROVE  diagnoses'[i].pass = "final" /\ diagnoses'[i].requests = << >>
    <3>1. CASE i \in Finals
      BY <1>5, <3>1 DEF CourseInv, Finals, FinalOf
    <3>2. CASE i \notin Finals
      <4>1. i = k + 1 /\ pass = "final"
        BY <1>0, <1>3, <1>5, <2>2, <3>2 DEF Finals, Attempts
      <4> QED
        BY <1>4, <1>5, <4>1
    <3> QED
      BY <3>1, <3>2
  <2>3. \A i \in Finals' : expanded[diagnoses'[i].attempt] # None
    BY <1>0, <1>7 DEF FinalsFit
  <2>4. \A i, j \in Finals' : diagnoses'[i].attempt = diagnoses'[j].attempt => i = j
    BY <1>7 DEF FinalsFit
  <2>5. \A i \in Finals' : diagnoses'[i].attempt \in Attempts
    BY <1>7 DEF FinalsFit
  <2> QED
    BY <1>0, <1>5, <2>1, <2>2, <2>3, <2>4, <2>5 DEF CourseInv, InitialOf, FinalOf
<1>9. InspectionsInv'
  <2>1. \/ pc = "ask" /\ pc' \in {"build", "inspect"}
        \/ pc = "reask" /\ pc' \in {"rebuild", "render"}
    BY DEF DiagnoseInitial, DiagnoseFinal, Advance
  <2> QED
    BY <1>0, <1>6, <2>1, InspectionsUnchanged
<1> QED
  BY <1>8, <1>9

LEMMA CourseInspected ==
  ASSUME IInv, CourseInv, InspectionsInv, Inspect
  PROVE  CourseInv' /\ InspectionsInv'
<1> USE NAssumption
<1> DEFINE r == diagnoses[turn].requests[NextRequest]
           k == Len(inspections)
           x == InspectFlow(k + 1, r)
<1>0. /\ pc = "inspect" /\ turn \in Attempts /\ turn \in Initials /\ Len(diagnoses) = N
      /\ NextRequest <= Len(diagnoses[turn].requests)
      /\ inspections' = Append(inspections, x)
      /\ UNCHANGED <<pc, expanded, diagnoses>>
  BY DEF Inspect, IInv, Positions, Lengths, Attempts, ranking, Initials
<1>1. PICK S : inspections \in Seq(S)
  BY DEF InspectionsInv
<1>2. /\ k \in Nat /\ inspections' \in Seq(S \cup {x}) /\ Len(inspections') = k + 1
      /\ DOMAIN inspections = 1 .. k /\ DOMAIN inspections' = 1 .. (k + 1)
      /\ \A i \in 1 .. k : inspections'[i] = inspections[i]
      /\ inspections'[k + 1] = x
  <2>1. inspections \in Seq(S \cup {x})
    BY <1>1
  <2> HIDE DEF x
  <2> QED
    BY <1>0, <1>1, <2>1
<1>3. \A a \in Attempts : IsFiniteSet(Inspected(a)) /\ Cardinality(Inspected(a)) \in Nat
  <2> SUFFICES ASSUME NEW a \in Attempts
               PROVE  IsFiniteSet(Inspected(a)) /\ Cardinality(Inspected(a)) \in Nat
    OBVIOUS
  <2>1. IsFiniteSet(1 .. k)
    BY <1>2, FS_Interval
  <2>2. Inspected(a) \in SUBSET (1 .. k)
    BY <1>2 DEF Inspected
  <2>3. IsFiniteSet(Inspected(a))
    BY <2>1, <2>2, FS_Subset
  <2> QED
    BY <2>3, FS_CardinalityType
<1>4. x.attempt = turn
  <2>1. Requests(turn, diagnoses[turn].requests)
    BY <1>0 DEF CourseInv, InitialOf
  <2>2. NextRequest \in 1 .. Len(diagnoses[turn].requests)
    BY <1>0, <1>3, <2>1 DEF NextRequest, Requests
  <2>3. r \in ToSet(diagnoses[turn].requests)
    BY <2>1, <2>2 DEF Requests, ToSet
  <2>4. r.attempt = turn
    BY <2>1, <2>3 DEF Requests
  <2> QED
    BY <2>4 DEF InspectFlow
<1> HIDE DEF x
<1>5. \A a \in Attempts : Inspected(a)' = IF a = turn THEN Inspected(a) \cup {k + 1} ELSE Inspected(a)
  BY <1>2, <1>4 DEF Inspected
<1>6. \A a \in Attempts : k + 1 \notin Inspected(a)
  BY <1>2 DEF Inspected
<1>7. Cardinality(Inspected(turn) \cup {k + 1}) = NextRequest
  BY <1>0, <1>3, <1>6, FS_AddElement DEF NextRequest
<1>8. Initials' = Initials
  BY <1>0 DEF Initials
<1>9. CourseInv'
  BY <1>0, CourseUnchanged
<1>10. InspectionsInv'
  <2>1. \A a \in Attempts : expanded[a] = None
    BY <1>0 DEF InspectionsInv
  <2>2. ASSUME NEW a \in Attempts, Inspected(a)' # {}
        PROVE  a \in Initials /\ Cardinality(Inspected(a))' <= Len(diagnoses[a].requests)
    <3>1. CASE a = turn
      <4>1. Inspected(a)' = Inspected(turn) \cup {k + 1}
        BY <1>5, <3>1
      <4> QED
        BY <1>0, <1>7, <3>1, <4>1
    <3>2. CASE a # turn
      BY <1>5, <2>2, <3>2 DEF InspectionsInv
    <3> QED
      BY <3>1, <3>2
  <2>3. \A i \in DOMAIN inspections' : inspections'[i].attempt \in Attempts
    <3> SUFFICES ASSUME NEW i \in DOMAIN inspections' PROVE inspections'[i].attempt \in Attempts
      OBVIOUS
    <3>1. i \in DOMAIN inspections \/ i = k + 1
      BY <1>2
    <3> QED
      BY <1>0, <1>2, <1>4, <3>1 DEF InspectionsInv
  <2> QED
    BY <1>0, <1>2, <1>8, <2>1, <2>2, <2>3 DEF InspectionsInv
<1> QED
  BY <1>9, <1>10

LEMMA CourseRanked ==
  ASSUME IInv, CourseInv, InspectionsInv, RankExpanded
  PROVE  CourseInv' /\ InspectionsInv'
<1>0. /\ pc = "rerank" /\ pc' \in {"render", "rebuild"} /\ Len(diagnoses) = N
      /\ UNCHANGED <<diagnoses, inspections>>
      /\ \A a \in Attempts : expanded'[a] # None => Returned(a) # {}
  BY DEF RankExpanded, IInv, Positions, Lengths
<1>1. \A a : Inspected(a)' = Inspected(a) /\ Returned(a)' = Returned(a)
  BY <1>0 DEF Inspected, Returned
<1>2. CourseInv'
  BY <1>0, CourseUnchanged
<1>3. InspectionsInv'
  BY <1>0, <1>1 DEF InspectionsInv, Initials
<1> QED
  BY <1>2, <1>3

\* The other steps add neither a diagnosis nor an inspection.
LEMMA CourseElsewhere ==
  ASSUME IInv, CourseInv, InspectionsInv,
         \/ RankPrimary \/ BuildInitial \/ BuildFails \/ ProviderBreaks \/ NextDiagnosis
         \/ SkipAttempt \/ BuildExpanded \/ Render \/ Terminated \/ UNCHANGED vars
  PROVE  CourseInv' /\ InspectionsInv'
<1>1. UNCHANGED <<expanded, diagnoses, inspections>>
  BY DEF RankPrimary, BuildInitial, BuildFails, ProviderBreaks, Raise, NextDiagnosis,
         SkipAttempt, BuildExpanded, Render, Terminated, vars, ranking
<1>2. /\ pc' \in {"rank", "build", "ask"} => pc \in {"rank", "build", "ask"}
      /\ pc' \in {"rank", "build", "ask", "inspect", "rerank"} =>
           pc \in {"rank", "build", "ask", "inspect", "rerank"}
  BY DEF RankPrimary, BuildInitial, BuildFails, ProviderBreaks, Raise, NextDiagnosis,
         SkipAttempt, BuildExpanded, Render, Terminated, vars, Advance
<1>3. \A i \in Initials : i \in Initials' /\ diagnoses'[i] = diagnoses[i]
  BY <1>1 DEF Initials
<1>4. CourseInv'
  BY <1>1, CourseUnchanged
<1>5. InspectionsInv'
  BY <1>1, <1>2, <1>3, InspectionsUnchanged
<1> QED
  BY <1>4, <1>5

\* What the list of diagnoses and the inspections are, also in a failed run.
THEOREM CourseKept == Spec => [](CourseInv /\ InspectionsInv)
<1>1. IInv /\ IInv' /\ CourseInv /\ InspectionsInv /\ [Next]_vars => (CourseInv /\ InspectionsInv)'
  <2> SUFFICES ASSUME IInv, IInv', CourseInv, InspectionsInv, [Next]_vars
               PROVE  CourseInv' /\ InspectionsInv'
    OBVIOUS
  <2>1. CASE DiagnoseInitial \/ DiagnoseFinal
    BY <2>1, CourseDiagnosed
  <2>2. CASE Inspect
    BY <2>2, CourseInspected
  <2>3. CASE RankExpanded
    BY <2>3, CourseRanked
  <2>4. CASE \/ RankPrimary \/ BuildInitial \/ BuildFails \/ ProviderBreaks \/ NextDiagnosis
             \/ SkipAttempt \/ BuildExpanded \/ Render \/ Terminated \/ UNCHANGED vars
    BY <2>4, CourseElsewhere
  <2> QED
    BY <2>1, <2>2, <2>3, <2>4 DEF Next
<1> QED
  BY CourseInit, DiagnosesInOrder, <1>1, PTL DEF Spec

\* No attempt is asked about a third time, no final diagnosis leads to more
\* inspections or comes without one that found something, and no attempt has
\* more inspections than one diagnosis may ask for.
THEOREM NoThirdPass == Spec => []OneDependencyRound
<1>1. CourseInv /\ InspectionsInv => OneDependencyRound
  <2> SUFFICES ASSUME CourseInv, InspectionsInv PROVE OneDependencyRound
    OBVIOUS
  <2> USE NAssumption
  <2>0. DOMAIN diagnoses = 1 .. Len(diagnoses) /\ Len(diagnoses) \in Nat
    BY DEF CourseInv
  <2>1. \A i \in DOMAIN diagnoses : i \in Initials \/ i \in Finals
    BY <2>0 DEF Initials, Finals
  <2>2. ASSUME NEW i \in DOMAIN diagnoses, NEW j \in DOMAIN diagnoses, i < j,
               diagnoses[i].attempt = diagnoses[j].attempt
        PROVE  diagnoses[i].pass = "initial" /\ diagnoses[j].pass = "final"
    <3>1. i \in Initials /\ j \in Finals
      <4>1. CASE j \in Initials
        <5>1. i \in Initials
          BY <2>0, <2>2, <4>1 DEF Initials
        <5> QED
          BY <2>2, <4>1, <5>1 DEF CourseInv, InitialOf
      <4>2. CASE i \in Finals
        <5>1. j \in Finals
          BY <2>0, <2>2, <4>2 DEF Finals
        <5>2. i = j
          BY <2>2, <4>2, <5>1 DEF CourseInv
        <5> QED
          BY <2>0, <2>2, <5>2
      <4> QED
        BY <2>1, <4>1, <4>2
    <3> QED
      BY <3>1 DEF CourseInv, InitialOf, FinalOf
  <2>3. ASSUME NEW i \in DOMAIN diagnoses, diagnoses[i].pass = "final"
        PROVE  /\ diagnoses[i].requests = << >>
               /\ \E j \in Inspected(diagnoses[i].attempt) : inspections[j].candidates # {}
    <3>1. FinalOf(diagnoses[i])
      BY <2>1, <2>3 DEF CourseInv, InitialOf
    <3>2. Returned(diagnoses[i].attempt) # {}
      BY <3>1 DEF FinalOf, InspectionsInv
    <3>3. \E j \in Inspected(diagnoses[i].attempt) : inspections[j].candidates # {}
      BY <3>2 DEF Returned
    <3> QED
      BY <3>1, <3>3 DEF FinalOf
  <2>4. ASSUME NEW a \in Attempts PROVE Cardinality(Inspected(a)) <= MaxCalls
    <3>1. CASE Inspected(a) = {}
      BY <3>1, FS_EmptySet, MaxCallsAssumption
    <3>2. CASE Inspected(a) # {}
      <4>1. a \in Initials /\ Cardinality(Inspected(a)) <= Len(diagnoses[a].requests)
        BY <3>2 DEF InspectionsInv
      <4>2. Requests(a, diagnoses[a].requests)
        BY <4>1 DEF CourseInv, InitialOf
      <4>3. Cardinality(Inspected(a)) \in Nat
        <5>1. PICK S : inspections \in Seq(S)
          BY DEF InspectionsInv
        <5>2. IsFiniteSet(DOMAIN inspections)
          BY <5>1, FS_Interval
        <5>3. Inspected(a) \in SUBSET DOMAIN inspections
          BY DEF Inspected
        <5> QED
          BY <5>2, <5>3, FS_Subset, FS_CardinalityType
      <4>4. Len(diagnoses[a].requests) \in Nat /\ Len(diagnoses[a].requests) <= MaxCalls
        BY <4>2 DEF Requests
      <4> QED
        BY <4>1, <4>3, <4>4, MaxCallsAssumption
    <3> QED
      BY <3>1, <3>2
  <2> QED
    BY <2>2, <2>3, <2>4 DEF OneDependencyRound
<1> QED
  BY <1>1, CourseKept, PTL

-----------------------------------------------------------------------------
(* The ranking *)

CandidateType(c) == c.explicit \in BOOLEAN /\ c.id \in Int /\ c.base \in Int /\ c.frame \in Int

\* Outranks, written out for seven places.
Precedes(k, l) ==
  \/ k[1] < l[1]
  \/ k[1] = l[1] /\ k[2] < l[2]
  \/ k[1] = l[1] /\ k[2] = l[2] /\ k[3] < l[3]
  \/ k[1] = l[1] /\ k[2] = l[2] /\ k[3] = l[3] /\ k[4] < l[4]
  \/ k[1] = l[1] /\ k[2] = l[2] /\ k[3] = l[3] /\ k[4] = l[4] /\ k[5] < l[5]
  \/ k[1] = l[1] /\ k[2] = l[2] /\ k[3] = l[3] /\ k[4] = l[4] /\ k[5] = l[5] /\ k[6] < l[6]
  \/ /\ k[1] = l[1] /\ k[2] = l[2] /\ k[3] = l[3] /\ k[4] = l[4] /\ k[5] = l[5] /\ k[6] = l[6]
     /\ k[7] < l[7]

LEMMA OutranksPlaces ==
  ASSUME NEW c, NEW d, NEW view
  PROVE  Outranks(c, d, view) <=> Precedes(Key(c, view), Key(d, view))
<1> DEFINE k == Key(c, view)
           l == Key(d, view)
           Decides(i) == k[i] < l[i] /\ \A j \in 1 .. (i - 1) : k[j] = l[j]
<1>1. Outranks(c, d, view) <=> \E i \in 1 .. 7 : Decides(i)
  BY DEF Outranks
<1> HIDE DEF k, l
<1>2. 1 .. 7 = {1, 2, 3, 4, 5, 6, 7}
  OBVIOUS
<1>3. Decides(1) <=> k[1] < l[1]
  OBVIOUS
<1>4. Decides(2) <=> k[1] = l[1] /\ k[2] < l[2]
  OBVIOUS
<1>5. Decides(3) <=> k[1] = l[1] /\ k[2] = l[2] /\ k[3] < l[3]
  OBVIOUS
<1>6. Decides(4) <=> k[1] = l[1] /\ k[2] = l[2] /\ k[3] = l[3] /\ k[4] < l[4]
  OBVIOUS
<1>7. Decides(5) <=> k[1] = l[1] /\ k[2] = l[2] /\ k[3] = l[3] /\ k[4] = l[4] /\ k[5] < l[5]
  OBVIOUS
<1>8. Decides(6) <=> /\ k[1] = l[1] /\ k[2] = l[2] /\ k[3] = l[3] /\ k[4] = l[4] /\ k[5] = l[5]
                     /\ k[6] < l[6]
  OBVIOUS
<1>9. Decides(7) <=> /\ k[1] = l[1] /\ k[2] = l[2] /\ k[3] = l[3] /\ k[4] = l[4] /\ k[5] = l[5]
                     /\ k[6] = l[6] /\ k[7] < l[7]
  OBVIOUS
<1> HIDE DEF Decides
<1>10. (\E i \in 1 .. 7 : Decides(i)) <=> Precedes(k, l)
  BY <1>2, <1>3, <1>4, <1>5, <1>6, <1>7, <1>8, <1>9 DEF Precedes
<1> QED
  BY <1>1, <1>10 DEF k, l

LEMMA ScoreTyped ==
  ASSUME NEW c, NEW view, CandidateType(c)
  PROVE  Score(c, view) \in 0 .. 100
<1> DEFINE points == Clamp(c.base)
        + When(c.explicit, 8) + When(Linked(c), 8)
        + When(Explains(c, view), 8)
        + When(Explains(c, view) /\ c.protocol \notin {"NAS", "NGAP"}, 5)
        + When(c.impact = "causal", 10) + When(c.impact = "contributing", 5)
        + When(Diverges(c, view), 10)
        - When("cleanup" \in c.marks, 30) - When("downstream" \in c.marks, 20)
        - When("recovered_retry" \in c.marks, 15) - When("contradicted" \in c.marks, 25)
        - When(view.low, 12) - When(view.incomplete, 15)
<1>1. \A n \in Int : Clamp(n) \in 0 .. 100
  BY DEF Clamp, Most, Least
<1>2. points \in Int
  <2>1. Clamp(c.base) \in Int
    BY <1>1 DEF CandidateType
  <2> QED
    BY <2>1 DEF When
<1>3. Score(c, view) = Clamp(points)
  BY DEF Score
<1> HIDE DEF points
<1> QED
  BY <1>1, <1>2, <1>3

LEMMA KeyTyped ==
  ASSUME NEW c, NEW view, CandidateType(c)
  PROVE  LET k == Key(c, view) IN
         /\ k[1] = -Score(c, view) /\ k[2] = -When(c.explicit, 1) /\ k[3] = -When(Linked(c), 1)
         /\ k[4] = -When(Explains(c, view), 1) /\ k[5] = c.frame /\ k[6] = Priority(c.protocol)
         /\ k[7] = c.id
         /\ k[1] \in Int /\ k[2] \in Int /\ k[3] \in Int /\ k[4] \in Int /\ k[5] \in Int
         /\ k[6] \in Int /\ k[7] \in Int
<1>1. Score(c, view) \in Int
  BY ScoreTyped
<1>2. \A x : When(x, 1) \in Int
  BY DEF When
<1>3. Priority(c.protocol) \in Int
  BY DEF Priority
<1>4. LET k == Key(c, view) IN
      /\ k[1] = -Score(c, view) /\ k[2] = -When(c.explicit, 1) /\ k[3] = -When(Linked(c), 1)
      /\ k[4] = -When(Explains(c, view), 1) /\ k[5] = c.frame /\ k[6] = Priority(c.protocol)
      /\ k[7] = c.id
  BY DEF Key
<1> QED
  BY <1>1, <1>2, <1>3, <1>4 DEF CandidateType

\* Candidates with other ids are ranked one before the other, consistently.
LEMMA OutranksOrders ==
  ASSUME NEW view, NEW c, NEW d, CandidateType(c), CandidateType(d)
  PROVE  /\ c.id # d.id => Outranks(c, d, view) \/ Outranks(d, c, view)
         /\ ~ (Outranks(c, d, view) /\ Outranks(d, c, view))
<1> DEFINE k == Key(c, view)
           l == Key(d, view)
<1>1. /\ k[1] \in Int /\ k[2] \in Int /\ k[3] \in Int /\ k[4] \in Int /\ k[5] \in Int
      /\ k[6] \in Int /\ k[7] \in Int /\ k[7] = c.id
  BY KeyTyped
<1>2. /\ l[1] \in Int /\ l[2] \in Int /\ l[3] \in Int /\ l[4] \in Int /\ l[5] \in Int
      /\ l[6] \in Int /\ l[7] \in Int /\ l[7] = d.id
  BY KeyTyped
<1>3. /\ Outranks(c, d, view) <=> Precedes(k, l)
      /\ Outranks(d, c, view) <=> Precedes(l, k)
  BY OutranksPlaces
<1> HIDE DEF k, l
<1> QED
  BY <1>1, <1>2, <1>3 DEF Precedes

LEMMA OutranksTransitive ==
  ASSUME NEW view, NEW c, NEW d, NEW e,
         CandidateType(c), CandidateType(d), CandidateType(e),
         Outranks(c, d, view), Outranks(d, e, view)
  PROVE  Outranks(c, e, view)
<1> DEFINE k == Key(c, view)
           l == Key(d, view)
           m == Key(e, view)
<1>1. /\ k[1] \in Int /\ k[2] \in Int /\ k[3] \in Int /\ k[4] \in Int /\ k[5] \in Int
      /\ k[6] \in Int /\ k[7] \in Int
  BY KeyTyped
<1>2. /\ l[1] \in Int /\ l[2] \in Int /\ l[3] \in Int /\ l[4] \in Int /\ l[5] \in Int
      /\ l[6] \in Int /\ l[7] \in Int
  BY KeyTyped
<1>3. /\ m[1] \in Int /\ m[2] \in Int /\ m[3] \in Int /\ m[4] \in Int /\ m[5] \in Int
      /\ m[6] \in Int /\ m[7] \in Int
  BY KeyTyped
<1>4. Precedes(k, l) /\ Precedes(l, m) /\ (Precedes(k, m) => Outranks(c, e, view))
  BY OutranksPlaces
<1> HIDE DEF k, l, m
<1> QED
  BY <1>1, <1>2, <1>3, <1>4 DEF Precedes

\* The candidates of one attempt, as a ranking gets them.
Rankable(C) ==
  /\ IsFiniteSet(C) /\ \A c \in C : CandidateType(c)
  /\ \A c, d \in C : c.id = d.id => c = d

Entitled(C, view) == {c \in C : Eligible(c, view)}

Leads(c, E, view) == c \in E /\ \A d \in E \ {c} : Outranks(c, d, view)

\* The primary candidate is an eligible one that outranks the others.
LEMMA PrimaryLeads ==
  ASSUME NEW a, NEW pass, NEW C, NEW view, NEW parent, NEW consumed, Rankable(C),
         Entitled(C, view) # {}
  PROVE  Leads(RankRootCauses(a, pass, C, view, parent, consumed).primary, Entitled(C, view), view)
<1> DEFINE E == Entitled(C, view)
           R == {p \in E \X E : Outranks(p[1], p[2], view)}
<1>1. IsFiniteSet(E) /\ \A c \in E : c \in C /\ CandidateType(c)
  BY FS_Subset DEF Rankable, Entitled
<1>2. \A c, d \in E : <<c, d>> \in R <=> Outranks(c, d, view)
  OBVIOUS
<1>3. \A c, d \in E : c # d => <<c, d>> \in R \/ <<d, c>> \in R
  BY <1>1, <1>2, OutranksOrders DEF Rankable
<1>4. \A c, d, e \in E : <<c, d>> \in R /\ <<d, e>> \in R => <<c, e>> \in R
  BY <1>1, <1>2, OutranksTransitive
<1> HIDE DEF R
<1>5. \E c \in E : \A d \in E \ {c} : <<c, d>> \in R
  BY <1>1, <1>3, <1>4, Foremost
<1>6. \E c \in E : \A d \in E \ {c} : Outranks(c, d, view)
  BY <1>2, <1>5
<1> DEFINE best == CHOOSE c \in E : \A d \in E \ {c} : Outranks(c, d, view)
<1>7. best \in E /\ \A d \in E \ {best} : Outranks(best, d, view)
  BY <1>6
<1>8. RankRootCauses(a, pass, C, view, parent, consumed).primary = best
  BY DEF RankRootCauses, Entitled
<1> HIDE DEF best
<1> QED
  BY <1>7, <1>8 DEF Leads

\* A ranking that is not told of terminal effects and of the baseline, and
\* otherwise knows what v knows.
Bare(v, w) ==
  w.effects = {} /\ w.divergence = None /\ w.low = v.low /\ w.incomplete = v.incomplete

LEMMA BareScore ==
  ASSUME NEW v, NEW w, Bare(v, w), NEW c, CandidateType(c)
  PROVE  /\ ~ Explains(c, w)
         /\ Score(c, w) <= Score(c, v)
         /\ ~ Explains(c, v) /\ ~ Diverges(c, v) => Score(c, w) = Score(c, v)
<1>1. ~ Explains(c, w) /\ ~ Diverges(c, w)
  BY DEF Bare, Explains, Diverges
<1> DEFINE Known(view) == When(Explains(c, view), 8)
                          + When(Explains(c, view) /\ c.protocol \notin {"NAS", "NGAP"}, 5)
                          + When(Diverges(c, view), 10)
           rest == Clamp(c.base) + When(c.explicit, 8) + When(Linked(c), 8)
                   + When(c.impact = "causal", 10) + When(c.impact = "contributing", 5)
                   - When("cleanup" \in c.marks, 30) - When("downstream" \in c.marks, 20)
                   - When("recovered_retry" \in c.marks, 15)
                   - When("contradicted" \in c.marks, 25)
                   - When(v.low, 12) - When(v.incomplete, 15)
<1>2. \A n \in Int : Clamp(n) \in 0 .. 100
  BY DEF Clamp, Most, Least
<1>3. Clamp(c.base) \in Int
  BY <1>2 DEF CandidateType
<1>4. rest \in Int /\ Known(v) \in Int /\ Known(v) >= 0 /\ Known(w) = 0
  BY <1>1, <1>3 DEF When
<1>5. ~ Explains(c, v) /\ ~ Diverges(c, v) => Known(v) = 0
  BY DEF When
<1>6. Score(c, v) = Clamp(rest + Known(v))
  BY <1>3 DEF Score, When
<1>7. Score(c, w) = Clamp(rest + Known(w))
  BY <1>3 DEF Score, When, Bare
<1> HIDE DEF rest, Known
<1>8. Clamp(rest + Known(w)) <= Clamp(rest + Known(v))
  BY <1>4 DEF Clamp, Most, Least
<1> QED
  BY <1>1, <1>4, <1>5, <1>6, <1>7, <1>8

\* Who outranks, without that knowledge, a candidate that owes it nothing,
\* outranks it with that knowledge as well.
LEMMA BareOutranks ==
  ASSUME NEW v, NEW w, Bare(v, w), NEW s, NEW b, CandidateType(s), CandidateType(b),
         ~ Explains(b, v), ~ Diverges(b, v), Outranks(s, b, w)
  PROVE  Outranks(s, b, v)
<1> DEFINE k == Key(s, w)
           l == Key(b, w)
           m == Key(s, v)
           n == Key(b, v)
<1>1. /\ k[1] \in Int /\ k[2] \in Int /\ k[3] \in Int /\ k[4] \in Int /\ k[5] \in Int
      /\ k[6] \in Int /\ k[7] \in Int
  BY KeyTyped
<1>2. /\ l[1] \in Int /\ l[2] \in Int /\ l[3] \in Int /\ l[4] \in Int /\ l[5] \in Int
      /\ l[6] \in Int /\ l[7] \in Int
  BY KeyTyped
<1>3. /\ m[1] \in Int /\ m[4] \in Int /\ m[2] = k[2] /\ m[3] = k[3] /\ m[5] = k[5]
      /\ m[6] = k[6] /\ m[7] = k[7]
      /\ n[2] = l[2] /\ n[3] = l[3] /\ n[5] = l[5] /\ n[6] = l[6] /\ n[7] = l[7]
  BY KeyTyped
<1>4. m[1] <= k[1] /\ n[1] = l[1]
  <2>1. /\ m[1] = -Score(s, v) /\ k[1] = -Score(s, w)
        /\ n[1] = -Score(b, v) /\ l[1] = -Score(b, w)
    BY KeyTyped
  <2>2. /\ Score(s, v) \in Int /\ Score(s, w) \in Int
        /\ Score(b, v) \in Int /\ Score(b, w) \in Int
    BY ScoreTyped
  <2>3. Score(s, w) <= Score(s, v) /\ Score(b, w) = Score(b, v)
    BY BareScore
  <2> HIDE DEF k, l, m, n
  <2> QED
    BY <2>1, <2>2, <2>3
<1>5. m[4] <= k[4] /\ n[4] = l[4]
  <2>1. /\ m[4] = -When(Explains(s, v), 1) /\ k[4] = -When(Explains(s, w), 1)
        /\ n[4] = -When(Explains(b, v), 1) /\ l[4] = -When(Explains(b, w), 1)
    BY KeyTyped
  <2>2. ~ Explains(s, w) /\ ~ Explains(b, w)
    BY BareScore
  <2> HIDE DEF k, l, m, n
  <2> QED
    BY <2>1, <2>2 DEF When
<1>6. Precedes(k, l) /\ (Precedes(m, n) => Outranks(s, b, v))
  BY OutranksPlaces
<1> HIDE DEF k, l, m, n
<1> QED
  BY <1>1, <1>2, <1>3, <1>4, <1>5, <1>6 DEF Precedes

LEMMA NobodyEntitled ==
  ASSUME NEW a, NEW pass, NEW C, NEW view, NEW parent, NEW consumed, Entitled(C, view) = {}
  PROVE  RankRootCauses(a, pass, C, view, parent, consumed).primary = None
BY DEF RankRootCauses, Entitled

\* Why a second ranking, of more candidates and with less knowledge, may have
\* another primary candidate.
LEMMA OtherPrimary ==
  ASSUME NEW v, NEW w, Bare(v, w), NEW C, NEW D, Rankable(C), Rankable(D), C \subseteq D, None \notin C,
         NEW first, (Entitled(C, v) = {} /\ first = None) \/ Leads(first, Entitled(C, v), v),
         NEW second, (Entitled(D, w) = {} /\ second = None) \/ Leads(second, Entitled(D, w), w)
  PROVE  \/ second = first \/ second \in D \ C
         \/ first # None /\ (Explains(first, v) \/ Diverges(first, v))
<1> SUFFICES ASSUME second # first, second \notin D \ C,
                    first = None \/ (~ Explains(first, v) /\ ~ Diverges(first, v))
             PROVE  FALSE
  OBVIOUS
<1>1. \A c \in D : CandidateType(c)
  BY DEF Rankable
<1>2. \A c \in D : Score(c, v) \in Int /\ Score(c, w) \in Int
  BY <1>1, ScoreTyped
<1>3. ASSUME NEW c \in Entitled(D, w), c \in C
      PROVE  c \in Entitled(C, v)
  <2>1. Score(c, w) <= Score(c, v)
    BY <1>1, <1>3, BareScore
  <2> QED
    BY <1>2, <1>3, <2>1 DEF Entitled, Eligible
<1>4. CASE first = None
  <2>1. Entitled(C, v) = {}
    BY <1>4 DEF Leads, Entitled
  <2>2. second \in Entitled(D, w)
    BY <1>4 DEF Leads
  <2>3. second \in C
    BY <2>2 DEF Entitled
  <2> QED
    BY <1>3, <2>1, <2>2, <2>3
<1>5. CASE first # None
  <2>1. Leads(first, Entitled(C, v), v)
    BY <1>5
  <2>2. first \in C /\ Eligible(first, v) /\ ~ Explains(first, v) /\ ~ Diverges(first, v)
    BY <1>5, <2>1 DEF Leads, Entitled
  <2>3. Score(first, w) = Score(first, v)
    BY <1>1, <2>2, BareScore
  <2>4. first \in Entitled(D, w)
    BY <2>2, <2>3 DEF Entitled, Eligible
  <2>5. Leads(second, Entitled(D, w), w)
    BY <2>4
  <2>6. second \in Entitled(D, w) /\ second \in C /\ Outranks(second, first, w)
    BY <2>4, <2>5 DEF Leads, Entitled
  <2>7. Outranks(second, first, v)
    BY <1>1, <2>2, <2>6, BareOutranks
  <2>8. second \in Entitled(C, v)
    BY <1>3, <2>6
  <2>9. Outranks(first, second, v)
    BY <2>1, <2>8 DEF Leads
  <2> QED
    BY <1>1, <2>2, <2>6, <2>7, <2>9, OutranksOrders
<1> QED
  BY <1>4, <1>5

\* The candidate of an inspection has the number of the inspection for its id.
Found(i) ==
  /\ IsFiniteSet(inspections[i].candidates)
  /\ \A c \in inspections[i].candidates :
       /\ CandidateType(c) /\ c.id = -i
       /\ \E tool, e : c = DependencyCandidate(i, tool, e)
  /\ \A c, d \in inspections[i].candidates : c = d

FirstRanking(a) == RankRootCauses(a, "primary", case[a].candidates, Primary(a), None, 0)

SecondRanking(a) ==
  RankRootCauses(a, "dependency_expanded", roots[a].candidates \cup Returned(a), Expanded(a),
                 Revision(roots[a]), Len(inspections))

\* The rankings are what the candidates and the inspections make them, to the
\* end: nothing is inspected after the second ranking.
RankedInv ==
  /\ case \in [Attempts -> Cases]
  /\ IF pc = "rank" THEN roots = [a \in Attempts |-> None]
     ELSE roots = [a \in Attempts |-> FirstRanking(a)]
  /\ \A i \in DOMAIN inspections : Found(i)
  /\ \A a \in Attempts : expanded[a] # None => expanded[a] = SecondRanking(a)

LEMMA InspectionFinds ==
  ASSUME NEW k \in Nat, NEW r
  PROVE  LET C == InspectFlow(k, r).candidates IN
         /\ IsFiniteSet(C) /\ \A c \in C : CandidateType(c) /\ c.id = -k
         /\ \A c \in C : \E tool, e : c = DependencyCandidate(k, tool, e)
         /\ \A c, d \in C : c = d
<1> DEFINE partition == IF r.tool = "inspect_nrf_flow" THEN "nrf" ELSE "udr"
           X == {e \in ToSet(Store) : /\ e.partition = partition
                                      /\ r.from <= e.frame /\ e.frame <= r.to}
           seen == Keep(Store, X)
           Y == {e \in ToSet(seen) : Failing(e)}
           failed == Keep(seen, Y)
           x == DependencyCandidate(k, r.tool, Head(failed))
           C == InspectFlow(k, r).candidates
<1>1. C = IF failed = << >> THEN {} ELSE {x}
  BY DEF InspectFlow
<1>2. seen \in Seq(ToSet(Store)) /\ ToSet(seen) \subseteq ToSet(Store)
  BY StoreAssumption, KeepSelects, KeepElements
<1> HIDE DEF seen
<1>3. failed \in Seq(ToSet(Store))
  BY <1>2, KeepSelects
<1> HIDE DEF failed
<1>4. failed # << >> => Head(failed) \in ToSet(Store)
  BY <1>3
<1>5. failed # << >> => Head(failed).frame \in Int
  BY <1>4, StoreAssumption
<1>6. failed # << >> => CandidateType(x) /\ x.id = -k
  BY <1>5 DEF DependencyCandidate, CandidateType
<1>7. \E tool, e : x = DependencyCandidate(k, tool, e)
  OBVIOUS
<1> HIDE DEF x, C
<1>8. IsFiniteSet({x}) /\ IsFiniteSet({})
  BY FS_Singleton, FS_EmptySet
<1>9. IsFiniteSet(C) /\ \A c \in C : CandidateType(c) /\ c.id = -k
  BY <1>1, <1>6, <1>8
<1>10. \A c, d \in C : c = d
  BY <1>1
<1>11. \A c \in C : \E tool, e : c = DependencyCandidate(k, tool, e)
  BY <1>1, <1>7
<1> QED
  BY <1>9, <1>10, <1>11 DEF C

LEMMA RankedInit == Init => RankedInv
BY DEF Init, RankedInv

LEMMA RankedInspected ==
  ASSUME IInv, InspectionsInv, RankedInv, Inspect
  PROVE  RankedInv'
<1> DEFINE r == diagnoses[turn].requests[NextRequest]
           k == Len(inspections)
           x == InspectFlow(k + 1, r)
<1>0. /\ pc = "inspect" /\ turn \in Attempts
      /\ inspections' = Append(inspections, x)
      /\ UNCHANGED <<pc, expanded, case, roots>>
  BY DEF Inspect, IInv, Positions, Attempts, ranking, analysis
<1>1. PICK S : inspections \in Seq(S)
  BY DEF InspectionsInv
<1>2. /\ k \in Nat /\ DOMAIN inspections = 1 .. k /\ DOMAIN inspections' = 1 .. (k + 1)
      /\ \A i \in 1 .. k : inspections'[i] = inspections[i]
      /\ inspections'[k + 1] = x
  <2>1. inspections \in Seq(S \cup {x})
    BY <1>1
  <2> HIDE DEF x
  <2> QED
    BY <1>0, <1>1, <2>1
<1>3. /\ IsFiniteSet(x.candidates) /\ \A c \in x.candidates : CandidateType(c) /\ c.id = -(k + 1)
      /\ \A c \in x.candidates : \E tool, e : c = DependencyCandidate(k + 1, tool, e)
      /\ \A c, d \in x.candidates : c = d
  <2>1. k + 1 \in Nat
    BY <1>2
  <2> QED
    BY <2>1, InspectionFinds
<1> HIDE DEF x
<1>4. \A i \in DOMAIN inspections' : Found(i)'
  <2> SUFFICES ASSUME NEW i \in DOMAIN inspections' PROVE Found(i)'
    OBVIOUS
  <2>1. CASE i = k + 1
    BY <1>2, <1>3, <2>1 DEF Found
  <2>2. CASE i # k + 1
    <3>1. i \in DOMAIN inspections /\ inspections'[i] = inspections[i]
      BY <1>2, <2>2
    <3> QED
      BY <3>1 DEF RankedInv, Found
  <2> QED
    BY <2>1, <2>2
<1>5. \A a \in Attempts : expanded'[a] = None
  BY <1>0 DEF InspectionsInv
<1>6. roots' = [a \in Attempts |-> FirstRanking(a)']
  BY <1>0 DEF RankedInv, FirstRanking, Primary
<1> QED
  BY <1>0, <1>4, <1>5, <1>6 DEF RankedInv

LEMMA RankedRanked ==
  ASSUME IInv, RankedInv, InspectionsInv, RankPrimary \/ RankExpanded
  PROVE  RankedInv'
<1>0. case' = case /\ inspections' = inspections /\ pc' # "rank"
  BY DEF RankPrimary, RankExpanded, analysis
<1>1. \A a : FirstRanking(a)' = FirstRanking(a)
  BY <1>0 DEF FirstRanking, Primary
<1>2. \A i : Found(i)' <=> Found(i)
  BY <1>0 DEF Found
<1>3. roots' = [a \in Attempts |-> FirstRanking(a)]
  BY <1>0 DEF RankPrimary, RankExpanded, RankedInv, FirstRanking
<1>4. ASSUME NEW a \in Attempts, expanded'[a] # None PROVE expanded'[a] = SecondRanking(a)'
  <2>1. CASE RankPrimary
    BY <1>4, <2>1 DEF RankPrimary, InspectionsInv
  <2>2. CASE RankExpanded
    <3>1. expanded'[a] = SecondRanking(a) /\ roots' = roots
      BY <1>4, <2>2 DEF RankExpanded, SecondRanking
    <3>2. Returned(a)' = Returned(a) /\ Expanded(a)' = Expanded(a)
      BY <1>0 DEF Returned, Inspected, Expanded
    <3>3. SecondRanking(a)' = SecondRanking(a)
      BY <1>0, <3>1, <3>2 DEF SecondRanking
    <3> QED
      BY <3>1, <3>3
  <2> QED
    BY <2>1, <2>2
<1> QED
  BY <1>0, <1>1, <1>2, <1>3, <1>4 DEF RankedInv

LEMMA RankedElsewhere ==
  ASSUME RankedInv, UNCHANGED <<case, roots, expanded, inspections>>, pc' = "rank" <=> pc = "rank"
  PROVE  RankedInv'
<1>1. \A a : FirstRanking(a)' = FirstRanking(a)
  BY DEF FirstRanking, Primary
<1>2. \A i : Found(i)' <=> Found(i)
  BY DEF Found
<1>3. \A a : Returned(a)' = Returned(a) /\ Expanded(a)' = Expanded(a)
  BY DEF Returned, Inspected, Expanded
<1>4. \A a : SecondRanking(a)' = SecondRanking(a)
  BY <1>3 DEF SecondRanking
<1> QED
  BY <1>1, <1>2, <1>4 DEF RankedInv

\* What the rankings were made from does not change any more.
THEOREM RankingsStand == Spec => []RankedInv
<1>1. /\ IInv /\ InspectionsInv /\ RankedInv /\ [Next]_vars => RankedInv'
  <2> SUFFICES ASSUME IInv, InspectionsInv, RankedInv, [Next]_vars PROVE RankedInv'
    OBVIOUS
  <2>1. CASE Inspect
    BY <2>1, RankedInspected
  <2>2. CASE RankPrimary \/ RankExpanded
    BY <2>2, RankedRanked
  <2>3. CASE \/ BuildInitial \/ BuildFails \/ ProviderBreaks \/ DiagnoseInitial \/ DiagnoseFinal
             \/ NextDiagnosis \/ SkipAttempt \/ BuildExpanded \/ Render \/ Terminated
             \/ UNCHANGED vars
    <3>1. UNCHANGED <<case, roots, expanded, inspections>>
      BY <2>3 DEF BuildInitial, BuildFails, ProviderBreaks, Raise, DiagnoseInitial, DiagnoseFinal,
                  NextDiagnosis, SkipAttempt, BuildExpanded, Render, Terminated, vars, ranking,
                  analysis
    <3>2. pc' = "rank" <=> pc = "rank"
      BY <2>3 DEF BuildInitial, BuildFails, ProviderBreaks, Raise, DiagnoseInitial, DiagnoseFinal,
                  NextDiagnosis, SkipAttempt, BuildExpanded, Render, Terminated, vars, Advance
    <3> QED
      BY <3>1, <3>2, RankedElsewhere
  <2> QED
    BY <2>1, <2>2, <2>3 DEF Next
<1> QED
  BY RankedInit, DiagnosesInOrder, CourseKept, <1>1, PTL DEF Spec

\* The candidates of both rankings have ids of their own.
LEMMA BothRankable ==
  ASSUME RankedInv, InspectionsInv, NEW a \in Attempts
  PROVE  /\ Rankable(case[a].candidates) /\ Rankable(case[a].candidates \cup Returned(a))
         /\ None \notin case[a].candidates
<1> DEFINE C == case[a].candidates
           R == Returned(a)
<1>0. case[a] \in Cases
  BY DEF RankedInv
<1>1. IsFiniteSet(C) /\ None \notin C
  BY <1>0, CasesAssumption
<1>2. \A c \in C : CandidateType(c) /\ c.id \in Nat
  BY <1>0, CasesAssumption DEF CandidateType
<1>3. \A c, d \in C : c.id = d.id => c = d
  BY <1>0, CasesAssumption
<1>4. PICK S : inspections \in Seq(S)
  BY DEF InspectionsInv
<1>5. DOMAIN inspections = 1 .. Len(inspections) /\ Len(inspections) \in Nat
  BY <1>4
<1>6. Inspected(a) \subseteq 1 .. Len(inspections)
  BY <1>5 DEF Inspected
<1>7. \A i \in Inspected(a) : Found(i)
  BY DEF RankedInv, Inspected
<1>8. IsFiniteSet(R)
  <2> DEFINE f == [i \in Inspected(a) |-> inspections[i].candidates]
  <2>1. IsFiniteSet(Inspected(a))
    <3>1. IsFiniteSet(1 .. Len(inspections))
      BY <1>5, FS_Interval
    <3> QED
      BY <1>6, <3>1, FS_Subset
  <2>2. IsFiniteSet(Range(f))
    <3>1. f = [i \in Inspected(a) |-> f[i]]
      OBVIOUS
    <3> HIDE DEF f
    <3> QED
      BY <2>1, <3>1, ImageFinite
  <2>3. \A T \in Range(f) : IsFiniteSet(T)
    BY <1>7 DEF Range, Found
  <2>4. R = UNION Range(f)
    BY DEF Returned, Range
  <2> HIDE DEF f
  <2> QED
    BY <2>2, <2>3, <2>4, FS_UNION
<1>9. \A c \in R : \E i \in Inspected(a) : c \in inspections[i].candidates
  BY DEF Returned
<1>10. \A c \in R : CandidateType(c) /\ c.id < 0
  BY <1>6, <1>7, <1>9 DEF Found
<1>11. \A c, d \in R : c.id = d.id => c = d
  <2> SUFFICES ASSUME NEW c \in R, NEW d \in R, c.id = d.id PROVE c = d
    OBVIOUS
  <2>1. PICK i \in Inspected(a) : c \in inspections[i].candidates
    BY <1>9
  <2>2. PICK j \in Inspected(a) : d \in inspections[j].candidates
    BY <1>9
  <2>3. c.id = -i /\ d.id = -j /\ i \in Int /\ j \in Int
    BY <1>6, <1>7, <2>1, <2>2 DEF Found
  <2>4. -i = -j
    BY <2>3
  <2>5. i = j
    BY <2>3, <2>4
  <2> QED
    BY <1>7, <2>1, <2>2, <2>5 DEF Found
<1> HIDE DEF C, R
<1>12. IsFiniteSet(C \cup R)
  BY <1>1, <1>8, FS_Union
<1>13. Rankable(C)
  BY <1>1, <1>2, <1>3 DEF Rankable
<1>14. \A c \in C, d \in R : c.id # d.id
  <2> SUFFICES ASSUME NEW c \in C, NEW d \in R, c.id = d.id PROVE FALSE
    OBVIOUS
  <2> QED
    BY <1>2, <1>10
<1>15. Rankable(C \cup R)
  BY <1>2, <1>3, <1>10, <1>11, <1>12, <1>14 DEF Rankable
<1> QED
  BY <1>1, <1>13, <1>15 DEF C, R

\* Whatever the candidates and the inspections: a second ranking forgets
\* nothing, adds only what was inspected for its attempt, and differs in the
\* primary candidate only because of that or of what it was not told.
THEOREM SecondRankingJustified == Spec => []SecondRankingExplained
<1>1. IInv /\ InspectionsInv /\ RankedInv => SecondRankingExplained
  <2> SUFFICES ASSUME IInv, InspectionsInv, RankedInv, NEW a \in Attempts, expanded[a] # None
               PROVE  /\ roots[a].candidates \subseteq expanded[a].candidates
                      /\ \A c \in expanded[a].candidates \ roots[a].candidates :
                           \E i \in DOMAIN inspections : /\ inspections[i].attempt = a
                                                         /\ c \in inspections[i].candidates
                      /\ \/ expanded[a].primary = roots[a].primary
                         \/ expanded[a].primary \in expanded[a].candidates \ roots[a].candidates
                         \/ /\ roots[a].primary # None
                            /\ \/ Explains(roots[a].primary, Primary(a))
                               \/ Diverges(roots[a].primary, Primary(a))
    BY DEF SecondRankingExplained
  <2> DEFINE v == Primary(a)
             w == Expanded(a)
             C == case[a].candidates
             D == C \cup Returned(a)
             first == roots[a].primary
             second == expanded[a].primary
  <2>1. pc # "rank"
    BY DEF InspectionsInv
  <2>2. roots[a] = FirstRanking(a) /\ expanded[a] = SecondRanking(a)
    BY <2>1 DEF RankedInv
  <2>3. roots[a].candidates = C
    BY <2>2 DEF FirstRanking, RankRootCauses
  <2>4. expanded[a].candidates = D
    BY <2>2, <2>3 DEF SecondRanking, RankRootCauses
  <2>5. Bare(v, w)
    <3>1. /\ case[a] \in Cases
          /\ DOMAIN case[a] = {"candidates", "effects", "divergence", "low", "incomplete",
                               "begins", "timeline", "evidence", "need"}
      BY CasesAssumption DEF RankedInv
    <3> QED
      BY <3>1 DEF Bare, Primary, Expanded
  <2>6. Rankable(C) /\ Rankable(D) /\ None \notin C
    BY BothRankable
  <2>7. (Entitled(C, v) = {} /\ first = None) \/ Leads(first, Entitled(C, v), v)
    BY <2>2, <2>6, PrimaryLeads, NobodyEntitled DEF FirstRanking
  <2>8. (Entitled(D, w) = {} /\ second = None) \/ Leads(second, Entitled(D, w), w)
    <3>1. expanded[a] = RankRootCauses(a, "dependency_expanded", D, w, Revision(roots[a]),
                                       Len(inspections))
      BY <2>2, <2>3 DEF SecondRanking
    <3> HIDE DEF D, w
    <3> QED
      BY <2>6, <3>1, PrimaryLeads, NobodyEntitled
  <2>9. \A c \in D \ C : \E i \in DOMAIN inspections : /\ inspections[i].attempt = a
                                                      /\ c \in inspections[i].candidates
    BY DEF Returned, Inspected
  <2>10. C \subseteq D
    OBVIOUS
  <2> HIDE DEF C, D, v, w, first, second
  <2>11. \/ second = first \/ second \in D \ C
         \/ first # None /\ (Explains(first, v) \/ Diverges(first, v))
    BY <2>5, <2>6, <2>7, <2>8, <2>10, OtherPrimary
  <2> QED
    BY <2>3, <2>4, <2>9, <2>10, <2>11 DEF first, second, v
<1> QED
  BY <1>1, DiagnosesInOrder, CourseKept, RankingsStand, PTL

-----------------------------------------------------------------------------
(* Packets and their budget *)

\* The items of the first k sections.
Placed(o, k) == UNION {{i} \X (1 .. o[i]) : i \in 1 .. k}

LEMMA OneMoreSection ==
  ASSUME NEW o \in [1 .. 7 -> Nat], NEW k \in 0 .. 6, IsFiniteSet(Placed(o, k))
  PROVE  /\ IsFiniteSet(Placed(o, k + 1))
         /\ Cardinality(Placed(o, k + 1)) = Cardinality(Placed(o, k)) + o[k + 1]
<1> DEFINE New == {k + 1} \X (1 .. o[k + 1])
<1>1. k + 1 \in 1 .. 7 /\ o[k + 1] \in Nat
  OBVIOUS
<1>2. Placed(o, k + 1) = Placed(o, k) \cup New
  <2>1. 1 .. (k + 1) = (1 .. k) \cup {k + 1}
    OBVIOUS
  <2>2. {{i} \X (1 .. o[i]) : i \in 1 .. (k + 1)} = {{i} \X (1 .. o[i]) : i \in 1 .. k} \cup {New}
    BY <2>1
  <2> QED
    BY <2>2 DEF Placed
<1>3. Placed(o, k) \cap New = {}
  BY DEF Placed
<1>4. IsFiniteSet({k + 1}) /\ Cardinality({k + 1}) = 1
  BY FS_Singleton
<1>5. IsFiniteSet(1 .. o[k + 1]) /\ Cardinality(1 .. o[k + 1]) = o[k + 1]
  <2>1. PICK n \in Nat : n = o[k + 1]
    BY <1>1
  <2>2. IsFiniteSet(1 .. n) /\ Cardinality(1 .. n) = IF 1 > n THEN 0 ELSE n - 1 + 1
    <3>1. 1 \in Int /\ n \in Int
      OBVIOUS
    <3> QED
      BY <3>1, FS_Interval, Zenon
  <2>3. Cardinality(1 .. n) = n
    BY <2>2
  <2> QED
    BY <2>1, <2>2, <2>3
<1>6. IsFiniteSet(New) /\ Cardinality(New) = o[k + 1]
  <2>1. /\ IsFiniteSet(New)
        /\ Cardinality(New) = Cardinality({k + 1}) * Cardinality(1 .. o[k + 1])
    BY <1>4, <1>5, FS_Product
  <2> HIDE DEF New
  <2>2. Cardinality(New) = 1 * o[k + 1]
    BY <1>4, <1>5, <2>1
  <2> QED
    BY <1>1, <2>1, <2>2
<1>7. IsFiniteSet(Placed(o, k) \cup New)
  BY <1>6, FS_Union
<1>8. Cardinality(Placed(o, k) \cup New)
        = Cardinality(Placed(o, k)) + Cardinality(New) - Cardinality(Placed(o, k) \cap New)
  BY <1>6, FS_Union
<1>9. Cardinality(Placed(o, k) \cap New) = 0
  BY <1>3, FS_EmptySet
<1>10. Cardinality(Placed(o, k)) \in Nat
  BY FS_CardinalityType
<1> HIDE DEF New
<1>11. Cardinality(Placed(o, k) \cup New) = Cardinality(Placed(o, k)) + o[k + 1]
  BY <1>1, <1>6, <1>8, <1>9, <1>10
<1> QED
  BY <1>2, <1>7, <1>11

\* The items of the sections add up.
LEMMA SectionsAdd ==
  ASSUME NEW o \in [1 .. 7 -> Nat]
  PROVE  /\ \A k \in 0 .. 7 : Items(o, 1 .. k) \in Nat
         /\ Items(o, 1 .. 0) = 0
         /\ \A k \in 0 .. 6 : Items(o, 1 .. (k + 1)) = Items(o, 1 .. k) + o[k + 1]
<1> DEFINE T == {k \in Nat : k <= 7 => IsFiniteSet(Placed(o, k))}
<1>1. Placed(o, 0) = {}
  BY DEF Placed
<1>2. 0 \in T
  BY <1>1, FS_EmptySet
<1>3. ASSUME NEW k \in T \cap Nat PROVE k + 1 \in T
  <2>1. CASE k \in 0 .. 6
    BY <2>1, OneMoreSection
  <2>2. CASE k \notin 0 .. 6
    BY <2>2
  <2> QED
    BY <2>1, <2>2
<1>4. Nat \subseteq T
  <2>1. \A k \in T \cap Nat : k + 1 \in T
    BY <1>3
  <2> HIDE DEF T
  <2> QED
    BY <1>2, <2>1, Induction
<1>5. \A k \in 0 .. 7 : IsFiniteSet(Placed(o, k))
  BY <1>4
<1>6. \A k : Items(o, 1 .. k) = Cardinality(Placed(o, k))
  BY DEF Items, Placed
<1>7. \A k \in 0 .. 7 : Cardinality(Placed(o, k)) \in Nat
  BY <1>5, FS_CardinalityType
<1>8. Cardinality(Placed(o, 0)) = 0
  BY <1>1, FS_EmptySet
<1>9. \A k \in 0 .. 6 : Cardinality(Placed(o, k + 1)) = Cardinality(Placed(o, k)) + o[k + 1]
  BY <1>5, OneMoreSection
<1> QED
  BY <1>6, <1>7, <1>8, <1>9

PacketFields == {"attempt", "pass", "revision", "parent", "primary", "consumed", "optional"}

\* A packet as it is built, before it is cut.
Draft(p) ==
  /\ DOMAIN p = PacketFields /\ p.consumed \in Nat /\ p.optional \in [1 .. 7 -> Nat]
  /\ Mandatory(p) \in Nat

\* What is cut from the sections, front to back, is what was too much.
LEMMA TrimFits ==
  ASSUME NEW p, Draft(p), Fits(p)
  PROVE  Draft(Trim(p)) /\ Mandatory(Trim(p)) + Items(Trim(p).optional, 1 .. 7) <= Cap
<1> USE CapAssumption
<1> DEFINE o == p.optional
           M == Mandatory(p)
           P(k) == Items(o, 1 .. k)
           x == M + P(7) - Cap
           Cut(i) == Most(0, x - P(i - 1))
           t == [i \in 1 .. 7 |-> Most(0, o[i] - Cut(i))]
           Q(k) == Items(t, 1 .. k)
           T == {k \in Nat : k <= 7 => Q(k) = Most(0, P(k) - Most(0, x))}
<1>1. M \in Nat /\ M <= Cap /\ o \in [1 .. 7 -> Nat]
  BY DEF Draft, Fits
<1>2. Trim(p) = [p EXCEPT !.optional = t]
  BY DEF Trim
<1>3. /\ DOMAIN Trim(p) = PacketFields
      /\ Trim(p).optional = t /\ Trim(p).consumed = p.consumed /\ Trim(p).attempt = p.attempt
  <2> HIDE DEF t
  <2> QED
    BY <1>2 DEF Draft, PacketFields
<1>4. Mandatory(Trim(p)) = M
  BY <1>3 DEF Mandatory
<1> HIDE DEF M
<1>5. /\ \A k \in 0 .. 7 : P(k) \in Nat
      /\ P(0) = 0
      /\ \A k \in 0 .. 6 : P(k + 1) = P(k) + o[k + 1]
  BY <1>1, SectionsAdd
<1> HIDE DEF o, P
<1>6. x \in Int
  BY <1>1, <1>5
<1> HIDE DEF x
<1>7. /\ t \in [1 .. 7 -> Nat]
      /\ \A k \in 0 .. 6 : t[k + 1] = Most(0, o[k + 1] - Most(0, x - P(k)))
  <2>1. \A i \in 1 .. 7 : o[i] \in Nat /\ P(i - 1) \in Nat
    BY <1>1, <1>5
  <2>2. \A i \in 1 .. 7 : Most(0, o[i] - Cut(i)) \in Nat
    BY <1>6, <2>1 DEF Most
  <2>3. \A k \in 0 .. 6 : k + 1 \in 1 .. 7 /\ (k + 1) - 1 = k
    OBVIOUS
  <2>4. \A i \in 1 .. 7 : t[i] = Most(0, o[i] - Most(0, x - P(i - 1)))
    OBVIOUS
  <2>5. \A k \in 0 .. 6 : t[k + 1] = Most(0, o[k + 1] - Most(0, x - P((k + 1) - 1)))
    BY <2>3, <2>4
  <2> QED
    BY <2>2, <2>3, <2>5
<1> HIDE DEF t
<1>8. /\ \A k \in 0 .. 7 : Q(k) \in Nat
      /\ Q(0) = 0
      /\ \A k \in 0 .. 6 : Q(k + 1) = Q(k) + t[k + 1]
  BY <1>7, SectionsAdd
<1> HIDE DEF Q
<1>9. 0 \in T
  BY <1>5, <1>6, <1>8 DEF Most
<1>10. ASSUME NEW k \in T \cap Nat PROVE k + 1 \in T
  <2>1. CASE k \in 0 .. 6
    <3>1. Q(k) = Most(0, P(k) - Most(0, x))
      BY <2>1
    <3>2. /\ P(k) \in Nat /\ P(k + 1) = P(k) + o[k + 1] /\ o[k + 1] \in Nat
          /\ Q(k + 1) = Q(k) + Most(0, o[k + 1] - Most(0, x - P(k)))
      BY <1>1, <1>5, <1>7, <1>8, <2>1
    <3>3. Q(k + 1) = Most(0, P(k + 1) - Most(0, x))
      BY <1>6, <3>1, <3>2 DEF Most
    <3> QED
      BY <3>3
  <2>2. CASE k \notin 0 .. 6
    BY <2>2
  <2> QED
    BY <2>1, <2>2
<1>11. Nat \subseteq T
  <2>1. \A k \in T \cap Nat : k + 1 \in T
    BY <1>10
  <2> HIDE DEF T
  <2> QED
    BY <1>9, <2>1, Induction
<1>12. Q(7) = Most(0, P(7) - Most(0, x))
  BY <1>11
<1>13. M + Q(7) <= Cap
  BY <1>1, <1>5, <1>12 DEF Most, x
<1> QED
  BY <1>1, <1>3, <1>4, <1>7, <1>13 DEF Q, Draft, M

-----------------------------------------------------------------------------
(* Types *)

\* `None` stands for a candidate that is not there.
NoneIsNoCandidate == \A k, tool, e : DependencyCandidate(k, tool, e) # None

\* What a ranking is, of a set of candidates that is Rankable.
RankingType(a, r) ==
  /\ RootOf(a, r)
  /\ r.primary # None => r.primary.id \in Int
  /\ Cardinality(r.downstream) \in Nat /\ Cardinality(r.alternatives) \in Nat

LEMMA RankingTyped ==
  ASSUME NEW a, NEW pass \in {"primary", "dependency_expanded"}, NEW C, NEW view, NEW parent,
         NEW consumed, Rankable(C), None \notin C
  PROVE  RankingType(a, RankRootCauses(a, pass, C, view, parent, consumed))
<1> DEFINE r == RankRootCauses(a, pass, C, view, parent, consumed)
           E == Entitled(C, view)
<1>1. /\ r.attempt = a /\ r.pass = pass /\ r.candidates = C
      /\ E = {} => r.primary = None /\ r.confidence = "inconclusive"
      /\ E # {} => r.confidence \in {"high", "medium", "low"}
  BY DEF RankRootCauses, Entitled, Confidence
<1>2. r.alternatives \subseteq E /\ r.downstream \subseteq E
  BY DEF RankRootCauses, Entitled
<1>3. E \subseteq C
  BY DEF Entitled
<1>4. E # {} => r.primary \in E
  BY PrimaryLeads DEF Leads
<1> HIDE DEF r, E
<1>5. RootOf(a, r)
  BY <1>1, <1>2, <1>3, <1>4 DEF RootOf
<1>6. r.primary # None => r.primary.id \in Int
  BY <1>1, <1>3, <1>4 DEF Rankable, CandidateType
<1>7. /\ r.downstream \in SUBSET C /\ r.alternatives \in SUBSET C /\ IsFiniteSet(C)
  BY <1>2, <1>3 DEF Rankable
<1>8. Cardinality(r.downstream) \in Nat /\ Cardinality(r.alternatives) \in Nat
  BY <1>7, FS_Subset, FS_CardinalityType
<1> QED
  BY <1>5, <1>6, <1>8 DEF RankingType, r

LEMMA RankingsTyped ==
  ASSUME NoneIsNoCandidate, RankedInv, InspectionsInv, NEW a \in Attempts
  PROVE  /\ pc # "rank" => RankingType(a, roots[a])
         /\ expanded[a] # None => RankingType(a, expanded[a])
<1> DEFINE C == case[a].candidates
           D == C \cup Returned(a)
<1>1. Rankable(C) /\ Rankable(D) /\ None \notin C
  BY BothRankable
<1>2. None \notin Returned(a)
  <2> SUFFICES ASSUME NEW i \in Inspected(a), NEW c \in inspections[i].candidates
               PROVE  c # None
    BY DEF Returned
  <2>1. PICK tool, e : c = DependencyCandidate(i, tool, e)
    BY DEF RankedInv, Inspected, Found
  <2> QED
    BY <2>1 DEF NoneIsNoCandidate
<1>3. pc # "rank" => RankingType(a, roots[a])
  <2>1. pc # "rank" => roots[a] = FirstRanking(a)
    BY DEF RankedInv
  <2> HIDE DEF C
  <2>2. RankingType(a, RankRootCauses(a, "primary", C, Primary(a), None, 0))
    BY <1>1, RankingTyped
  <2> QED
    BY <2>1, <2>2 DEF FirstRanking, C
<1>4. expanded[a] # None => RankingType(a, expanded[a])
  <2> SUFFICES ASSUME expanded[a] # None PROVE RankingType(a, expanded[a])
    OBVIOUS
  <2>1. pc # "rank" /\ expanded[a] = SecondRanking(a)
    BY DEF RankedInv, InspectionsInv
  <2>2. roots[a] = FirstRanking(a)
    BY <2>1 DEF RankedInv
  <2>3. roots[a].candidates = C
    BY <2>2 DEF FirstRanking, RankRootCauses
  <2>4. expanded[a] = RankRootCauses(a, "dependency_expanded", D, Expanded(a), Revision(roots[a]),
                                     Len(inspections))
    BY <2>1, <2>3 DEF SecondRanking
  <2> HIDE DEF D
  <2>5. None \notin D
    BY <1>1, <1>2 DEF D
  <2> QED
    BY <1>1, <2>4, <2>5, RankingTyped
<1> QED
  BY <1>3, <1>4

\* A published packet keeps to its budget; the initial one of an attempt stays.
PacketsTyped ==
  /\ \A a \in Attempts : \A pass \in {"primary", "dependency_expanded"} :
       packets[pass][a] # None => PacketOf(a, packets[pass][a])
  /\ outcome # "failed" =>
       \A a \in Attempts :
         (pc = "build" => a < turn) /\ (pc = "ask" => a <= turn) /\ pc # "rank" =>
           PacketOf(a, packets["primary"][a])

TypeInv ==
  /\ mode \in Modes /\ outcome \in {"running", "success", "partial", "failed"}
  /\ kept = roots \/ kept = expanded
  /\ PacketsTyped
  /\ \A i \in DOMAIN diagnoses : DiagnosisType(diagnoses[i])
  /\ reported \in {<< >>, diagnoses}
  /\ pc \in {"rank", "build", "ask"} => reported = << >>

LEMMA InitialPacketFits ==
  ASSUME NoneIsNoCandidate, RankedInv, InspectionsInv, NEW a \in Attempts, pc # "rank",
         Fits(InitialPacket(a))
  PROVE  PacketOf(a, Trim(InitialPacket(a)))
<1> USE SectionsAssumption
<1> DEFINE p == InitialPacket(a)
           root == roots[a]
<1>1. Cardinality(root.downstream) \in Nat /\ Cardinality(root.alternatives) \in Nat
  BY RankingsTyped DEF RankingType
<1>2. case[a] \in Cases
  BY DEF RankedInv
<1>3. case[a].timeline \in Nat /\ case[a].evidence \in Nat /\ case[a].need \in Nat
  BY <1>2, CasesAssumption
<1>4. /\ p.attempt = a /\ p.consumed = 0 /\ DOMAIN p = PacketFields
      /\ p.optional = <<0, case[a].timeline, Checkpoints, Cardinality(root.downstream),
                        Least(Cardinality(root.alternatives), MaxAlternatives),
                        case[a].evidence, 2>>
  BY DEF InitialPacket, PacketFields
<1>5. Least(Cardinality(root.alternatives), MaxAlternatives) \in Nat
  BY <1>1 DEF Least
<1> HIDE DEF p, root
<1>6. p.optional \in [1 .. 7 -> Nat]
  BY <1>1, <1>3, <1>4, <1>5
<1>7. Mandatory(p) \in Nat
  BY <1>3, <1>4 DEF Mandatory
<1>8. Draft(p)
  BY <1>4, <1>6, <1>7 DEF Draft
<1>9. Draft(Trim(p)) /\ Mandatory(Trim(p)) + Items(Trim(p).optional, 1 .. 7) <= Cap
  BY <1>8, TrimFits DEF p
<1>10. Trim(p).attempt = a
  BY <1>4, InitialPacketTrimmed DEF p
<1> QED
  BY <1>9, <1>10 DEF Draft, PacketOf, p

LEMMA ExpandedPacketFits ==
  ASSUME NoneIsNoCandidate, RankedInv, InspectionsInv, NEW a \in Attempts, expanded[a] # None,
         InitialBuilt(a), PacketOf(a, packets["primary"][a]), Fits(ExpandedPacket(a))
  PROVE  PacketOf(a, Trim(ExpandedPacket(a)))
<1> DEFINE p == ExpandedPacket(a)
           root == expanded[a]
           first == packets["primary"][a]
<1>1. Cardinality(root.downstream) \in Nat /\ Cardinality(root.alternatives) \in Nat
  BY RankingsTyped DEF RankingType
<1>2. case[a] \in Cases
  BY DEF RankedInv
<1>3. case[a].need \in Nat
  BY <1>2, CasesAssumption
<1>4. Len(inspections) \in Nat
  BY DEF InspectionsInv
<1>5. DOMAIN first = PacketFields
  BY DEF InitialBuilt, Trim, InitialPacket, PacketFields
<1>6. first.attempt = a /\ first.optional \in [1 .. 7 -> Nat]
  BY DEF PacketOf
<1>7. /\ p.attempt = a /\ p.consumed = Len(inspections) /\ DOMAIN p = PacketFields
      /\ p.optional = [first.optional EXCEPT ![1] = Len(inspections),
                                             ![4] = Cardinality(root.downstream),
                                             ![5] = Cardinality(root.alternatives)]
  BY <1>5, <1>6 DEF ExpandedPacket, PacketFields
<1> HIDE DEF p, root, first
<1>8. p.optional \in [1 .. 7 -> Nat]
  BY <1>1, <1>4, <1>6, <1>7
<1>9. Mandatory(p) \in Nat
  BY <1>3, <1>4, <1>7 DEF Mandatory
<1>10. Draft(p)
  BY <1>4, <1>7, <1>8, <1>9 DEF Draft
<1>11. Draft(Trim(p)) /\ Mandatory(Trim(p)) + Items(Trim(p).optional, 1 .. 7) <= Cap
  BY <1>10, TrimFits DEF p
<1>12. Trim(p).attempt = a
  BY ExpandedPacketTrimmed DEF p
<1> QED
  BY <1>11, <1>12 DEF Draft, PacketOf, p

\* What a model may say of a packet.
LEMMA DiagnosisTyped ==
  ASSUME NEW p, NEW pass \in {"initial", "final"}, NEW d \in GenerateDiagnosis(p, pass),
         p.attempt \in Attempts, p.primary # None => p.primary.id \in Int
  PROVE  DiagnosisType(d)
<1>0. PrimaryId(p) \in Id
  BY DEF PrimaryId, Id
<1>1. CASE d = Diagnosis(p, pass, "disabled", None, FALSE, << >>)
  BY <1>1 DEF Diagnosis, DiagnosisType, Id
<1>2. CASE d = Diagnosis(p, pass, "failed", None, FALSE, << >>)
  BY <1>2 DEF Diagnosis, DiagnosisType, Id
<1>3. ASSUME NEW payload \in Payloads(p, pass), d = Validated(p, pass, payload)
      PROVE  DiagnosisType(d)
  <2>1. payload.primary \in Id
    <3>1. CASE mode = "local"
      <4>1. payload = LocalPayload(p, pass)
        BY <3>1 DEF Payloads
      <4> QED
        BY <1>0, <4>1 DEF LocalPayload
    <3>2. CASE mode # "local"
      <4>1. PICK w \in Answers : payload = RemotePayload(p, w)
        BY <3>2 DEF Payloads
      <4>2. payload.primary \in {None, PrimaryId(p), Invented}
        BY <4>1 DEF RemotePayload
      <4> QED
        BY <1>0, <4>2 DEF Id
    <3> QED
      BY <3>1, <3>2
  <2>2. Conflicts(p, payload.primary) \in BOOLEAN
    BY DEF Conflicts
  <2>3. /\ d.attempt = p.attempt /\ d.pass = pass /\ d.status = "success"
        /\ d.primary = payload.primary /\ d.conflict = Conflicts(p, payload.primary)
    BY <1>3 DEF Validated, Diagnosis
  <2> QED
    BY <2>1, <2>2, <2>3 DEF DiagnosisType
<1> QED
  BY <1>1, <1>2, <1>3 DEF GenerateDiagnosis

LEMMA TypesInit == Init => TypeInv
BY DEF Init, TypeInv, PacketsTyped

\* Whether a packet keeps to its budget depends on its attempt alone.
LEMMA PacketUnchanged ==
  ASSUME UNCHANGED case
  PROVE  \A a, p : PacketOf(a, p)' <=> PacketOf(a, p)
BY DEF PacketOf, Mandatory

LEMMA TypesBuilt ==
  ASSUME NoneIsNoCandidate, IInv, IInv', RankedInv, InspectionsInv, TypeInv,
         BuildInitial \/ BuildExpanded
  PROVE  TypeInv'
<1>0. /\ outcome # "failed" /\ turn \in Attempts
      /\ UNCHANGED <<mode, case, turn, roots, expanded, kept, diagnoses, reported, outcome>>
  BY DEF IInv, Positions, BuildInitial, BuildExpanded, analysis, ranking, Attempts
<1>1. PICK S : packets \in [{"primary", "dependency_expanded"} -> [Attempts -> S]]
  BY <1>0 DEF IInv, Containers
<1>2. \A a, p : PacketOf(a, p)' <=> PacketOf(a, p)
  BY <1>0, PacketUnchanged
<1>3. CASE BuildInitial
  <2>1. pc = "build" /\ pc' = "ask" /\ Fits(InitialPacket(turn))
    BY <1>3 DEF BuildInitial
  <2>2. PacketOf(turn, Trim(InitialPacket(turn)))
    BY <1>0, <2>1, InitialPacketFits
  <2>3. \E p : PacketOf(turn, p) /\ packets' = [packets EXCEPT !["primary"][turn] = p]
    BY <1>3, <2>2 DEF BuildInitial
  <2>4. PICK p : PacketOf(turn, p) /\ packets' = [packets EXCEPT !["primary"][turn] = p]
    BY <2>3
  <2>5. /\ packets'["dependency_expanded"] = packets["dependency_expanded"]
        /\ packets'["primary"][turn] = p
        /\ \A a \in Attempts \ {turn} : packets'["primary"][a] = packets["primary"][a]
    BY <1>0, <1>1, <2>4
  <2>6. \A a \in Attempts : a <= turn => a = turn \/ a < turn
    BY <1>0 DEF Attempts
  <2>7. \A a \in Attempts : a <= turn => PacketOf(a, packets'["primary"][a])
    BY <1>0, <2>1, <2>4, <2>5, <2>6 DEF TypeInv, PacketsTyped
  <2>8. \A a \in Attempts : \A pass \in {"primary", "dependency_expanded"} :
          packets'[pass][a] # None => PacketOf(a, packets'[pass][a])
    BY <1>0, <2>4, <2>5 DEF TypeInv, PacketsTyped
  <2>9. PacketsTyped'
    BY <1>0, <1>2, <2>1, <2>7, <2>8 DEF PacketsTyped
  <2> QED
    BY <1>0, <2>1, <2>9 DEF TypeInv, DiagnosisType
<1>4. CASE BuildExpanded
  <2>1. pc = "rebuild" /\ pc' = "reask" /\ expanded[turn] # None /\ Fits(ExpandedPacket(turn))
    BY <1>4 DEF BuildExpanded
  <2>2. InitialBuilt(turn) /\ PacketOf(turn, packets["primary"][turn])
    BY <1>0, <2>1 DEF IInv, Built, TypeInv, PacketsTyped
  <2>3. PacketOf(turn, Trim(ExpandedPacket(turn)))
    BY <1>0, <2>1, <2>2, ExpandedPacketFits
  <2>4. \E p : PacketOf(turn, p) /\ packets' = [packets EXCEPT !["dependency_expanded"][turn] = p]
    BY <1>4, <2>3 DEF BuildExpanded
  <2>5. PICK p : PacketOf(turn, p) /\ packets' = [packets EXCEPT !["dependency_expanded"][turn] = p]
    BY <2>4
  <2>6. /\ packets'["primary"] = packets["primary"]
        /\ packets'["dependency_expanded"][turn] = p
        /\ \A a \in Attempts \ {turn} :
             packets'["dependency_expanded"][a] = packets["dependency_expanded"][a]
    BY <1>0, <1>1, <2>5
  <2>7. \A a \in Attempts : \A pass \in {"primary", "dependency_expanded"} :
          packets'[pass][a] # None => PacketOf(a, packets'[pass][a])
    BY <1>0, <2>5, <2>6 DEF TypeInv, PacketsTyped
  <2>8. PacketsTyped'
    BY <1>0, <1>2, <2>1, <2>6, <2>7 DEF TypeInv, PacketsTyped
  <2> QED
    BY <1>0, <2>1, <2>8 DEF TypeInv, DiagnosisType
<1> QED
  BY <1>3, <1>4

LEMMA TypesDiagnosed ==
  ASSUME NoneIsNoCandidate, IInv, IInv', RankedInv, InspectionsInv, TypeInv,
         DiagnoseInitial \/ DiagnoseFinal
  PROVE  TypeInv'
<1>0. /\ outcome # "failed" /\ turn \in Attempts
      /\ UNCHANGED <<mode, case, roots, expanded, kept, packets, outcome>>
  BY DEF IInv, Positions, DiagnoseInitial, DiagnoseFinal, analysis, ranking, Attempts
<1>1. PICK S : diagnoses \in Seq(S)
  BY <1>0 DEF IInv, Containers
<1>2. PICK pass \in {"initial", "final"} : \E p : \E d \in GenerateDiagnosis(p, pass) :
        /\ diagnoses' = Append(diagnoses, d)
        /\ p.attempt \in Attempts /\ (p.primary # None => p.primary.id \in Int)
  <2>1. CASE DiagnoseInitial
    <3>1. pc = "ask"
      BY <2>1 DEF DiagnoseInitial
    <3>2. InitialBuilt(turn)
      BY <1>0, <3>1 DEF IInv, Built, Positions, Attempts
    <3>3. /\ packets["primary"][turn].attempt = turn
          /\ packets["primary"][turn].primary = roots[turn].primary
      BY <3>2, InitialPacketTrimmed DEF InitialBuilt
    <3>4. RankingType(turn, roots[turn])
      BY <1>0, <3>1, RankingsTyped
    <3>5. PICK p : p = packets["primary"][turn]
      OBVIOUS
    <3>6. p.attempt \in Attempts /\ (p.primary # None => p.primary.id \in Int)
      BY <1>0, <3>3, <3>4, <3>5 DEF RankingType
    <3>7. \E d \in GenerateDiagnosis(p, "initial") : diagnoses' = Append(diagnoses, d)
      BY <2>1, <3>5 DEF DiagnoseInitial
    <3> QED
      BY <3>6, <3>7
  <2>2. CASE DiagnoseFinal
    <3>1. pc = "reask"
      BY <2>2 DEF DiagnoseFinal
    <3>2. /\ InitialBuilt(turn) /\ expanded[turn] # None
          /\ packets["dependency_expanded"][turn] = Trim(ExpandedPacket(turn))
      BY <1>0, <3>1 DEF IInv, Built
    <3>3. /\ packets["dependency_expanded"][turn].attempt = turn
          /\ packets["dependency_expanded"][turn].primary = expanded[turn].primary
      BY <3>2, ExpandedPacketTrimmed
    <3>4. RankingType(turn, expanded[turn])
      BY <1>0, <3>2, RankingsTyped
    <3>5. PICK p : p = packets["dependency_expanded"][turn]
      OBVIOUS
    <3>6. p.attempt \in Attempts /\ (p.primary # None => p.primary.id \in Int)
      BY <1>0, <3>3, <3>4, <3>5 DEF RankingType
    <3>7. \E d \in GenerateDiagnosis(p, "final") : diagnoses' = Append(diagnoses, d)
      BY <2>2, <3>5 DEF DiagnoseFinal
    <3> QED
      BY <3>6, <3>7
  <2> QED
    BY <2>1, <2>2
<1>a. PICK p : \E d \in GenerateDiagnosis(p, pass) :
        /\ diagnoses' = Append(diagnoses, d)
        /\ p.attempt \in Attempts /\ (p.primary # None => p.primary.id \in Int)
  BY <1>2
<1>3. PICK d \in GenerateDiagnosis(p, pass) :
        /\ diagnoses' = Append(diagnoses, d)
        /\ p.attempt \in Attempts /\ (p.primary # None => p.primary.id \in Int)
  BY <1>a
<1>4. DiagnosisType(d)
  BY <1>3, DiagnosisTyped
<1>5. /\ Len(diagnoses) \in Nat /\ Len(diagnoses') = Len(diagnoses) + 1
      /\ \A i \in 1 .. Len(diagnoses) : diagnoses'[i] = diagnoses[i]
      /\ diagnoses'[Len(diagnoses) + 1] = d
      /\ diagnoses' \in Seq(S \cup {d})
  BY <1>1, <1>3, Appended
<1>6. \A i \in DOMAIN diagnoses' : i \in DOMAIN diagnoses \/ i = Len(diagnoses) + 1
  BY <1>1, <1>5
<1>7. \A i \in DOMAIN diagnoses' : DiagnosisType(diagnoses'[i])
  <2>1. \A i \in DOMAIN diagnoses : diagnoses'[i] = diagnoses[i]
    BY <1>1, <1>5
  <2> QED
    BY <1>4, <1>5, <1>6, <2>1 DEF TypeInv
<1>8. /\ reported' \in {<< >>, diagnoses'}
      /\ pc' \in {"rank", "build", "ask"} => reported' = << >>
  BY DEF TypeInv, DiagnoseInitial, DiagnoseFinal, Advance, IInv, Positions
<1>9. PacketsTyped'
  <2>1. \A a, q : PacketOf(a, q)' <=> PacketOf(a, q)
    BY <1>0, PacketUnchanged
  <2>2. \/ pc = "ask" /\ pc' = "build" /\ turn' = turn + 1
        \/ pc = "ask" /\ pc' = "inspect" /\ turn = N
        \/ pc = "reask" /\ pc' \in {"rebuild", "render"}
    BY <1>0, NAssumption DEF DiagnoseInitial, DiagnoseFinal, Advance, Attempts
  <2>3. \A a \in Attempts : pc' = "build" /\ a < turn' => a <= turn
    BY <1>0, <2>2 DEF Attempts
  <2>4. \A a \in Attempts : a <= N
    BY NAssumption DEF Attempts
  <2> QED
    BY <1>0, <2>1, <2>2, <2>3, <2>4 DEF TypeInv, PacketsTyped
<1> QED
  BY <1>0, <1>7, <1>8, <1>9 DEF TypeInv, DiagnosisType

\* The other steps publish no packet and add no diagnosis.
LEMMA TypesElsewhere ==
  ASSUME IInv, InspectionsInv, TypeInv,
         \/ RankPrimary \/ BuildFails \/ ProviderBreaks \/ Inspect \/ NextDiagnosis
         \/ RankExpanded \/ SkipAttempt \/ Render \/ Terminated \/ UNCHANGED vars
  PROVE  TypeInv'
<1>0. UNCHANGED <<mode, case, packets, diagnoses, reported>>
  BY DEF RankPrimary, BuildFails, ProviderBreaks, Raise, Inspect, NextDiagnosis, RankExpanded,
         SkipAttempt, Render, Terminated, vars, analysis
<1>1. outcome' \in {"running", "success", "partial", "failed"}
  BY DEF TypeInv, RankPrimary, BuildFails, ProviderBreaks, Raise, Inspect, NextDiagnosis,
         RankExpanded, SkipAttempt, Render, Terminated, vars
<1>2. kept' = roots' \/ kept' = expanded'
  <2>1. CASE RankPrimary
    BY <2>1 DEF RankPrimary
  <2>2. CASE RankExpanded
    BY <2>2 DEF RankExpanded, IInv, Positions, Rankings
  <2>3. CASE \/ BuildFails \/ ProviderBreaks \/ Inspect \/ NextDiagnosis
             \/ SkipAttempt \/ Render \/ Terminated \/ UNCHANGED vars
    BY <2>3 DEF TypeInv, BuildFails, ProviderBreaks, Raise, Inspect, NextDiagnosis, SkipAttempt,
                Render, Terminated, vars, ranking
  <2> QED
    BY <2>1, <2>2, <2>3
<1>3. outcome' # "failed" => outcome # "failed"
  BY DEF RankPrimary, BuildFails, ProviderBreaks, Raise, Inspect, NextDiagnosis, RankExpanded,
         SkipAttempt, Render, Terminated, vars
<1>4. PacketsTyped'
  <2>1. \A a, p : PacketOf(a, p)' <=> PacketOf(a, p)
    BY <1>0, PacketUnchanged
  <2>2. \A a \in Attempts : \A pass \in {"primary", "dependency_expanded"} :
          packets'[pass][a] # None => PacketOf(a, packets'[pass][a])
    BY <1>0 DEF TypeInv, PacketsTyped
  <2>3. ASSUME outcome' # "failed", NEW a \in Attempts, pc' = "build" => a < turn',
               pc' = "ask" => a <= turn', pc' # "rank"
        PROVE  PacketOf(a, packets'["primary"][a])
    <3>1. CASE RankPrimary
      <4>1. turn' = 1 /\ pc' = "build"
        BY <3>1 DEF RankPrimary, IInv, Positions
      <4> QED
        BY <2>3, <4>1 DEF Attempts
    <3>2. CASE ~RankPrimary
      <4>1. pc # "rank" /\ (pc = "build" => a < turn) /\ (pc = "ask" => a <= turn)
        BY <2>3, <3>2 DEF BuildFails, ProviderBreaks, Raise, Inspect, NextDiagnosis,
               RankExpanded, SkipAttempt, Render, Terminated, vars, Advance
      <4> QED
        BY <1>0, <1>3, <2>3, <4>1 DEF TypeInv, PacketsTyped
    <3> QED
      BY <3>1, <3>2
  <2> QED
    BY <2>1, <2>2, <2>3 DEF PacketsTyped
<1>5. pc' \in {"rank", "build", "ask"} => reported' = << >>
  BY <1>0 DEF TypeInv, RankPrimary, BuildFails, ProviderBreaks, Raise, Inspect, NextDiagnosis,
         RankExpanded, SkipAttempt, Render, Terminated, vars, Advance
<1> QED
  BY <1>0, <1>1, <1>2, <1>4, <1>5 DEF TypeInv, DiagnosisType

\* The state keeps its shape, and every published packet its budget, whatever
\* the candidates, the inspections and the answers are.
THEOREM DiagnosesTyped ==
  ASSUME NoneIsNoCandidate
  PROVE  Spec => []TypeOK
<1>1. /\ IInv /\ IInv' /\ InspectionsInv /\ RankedInv /\ TypeInv /\ [Next]_vars
      => TypeInv'
  <2> SUFFICES ASSUME IInv, IInv', InspectionsInv, RankedInv, TypeInv, [Next]_vars
               PROVE  TypeInv'
    OBVIOUS
  <2>1. CASE BuildInitial \/ BuildExpanded
    BY <2>1, TypesBuilt
  <2>2. CASE DiagnoseInitial \/ DiagnoseFinal
    BY <2>2, TypesDiagnosed
  <2>3. CASE \/ RankPrimary \/ BuildFails \/ ProviderBreaks \/ Inspect \/ NextDiagnosis
             \/ RankExpanded \/ SkipAttempt \/ Render \/ Terminated \/ UNCHANGED vars
    BY <2>3, TypesElsewhere
  <2> QED
    BY <2>1, <2>2, <2>3 DEF Next
<1>2. IInv /\ InspectionsInv /\ RankedInv /\ TypeInv => TypeOK
  <2> SUFFICES ASSUME IInv, InspectionsInv, RankedInv, TypeInv PROVE TypeOK
    OBVIOUS
  <2>1. ASSUME NEW a \in Attempts
        PROVE  /\ roots[a] # None => RootOf(a, roots[a])
               /\ expanded[a] # None => RootOf(a, expanded[a])
    <3>1. pc = "rank" => roots[a] = None
      BY DEF RankedInv
    <3> QED
      BY <3>1, RankingsTyped DEF RankingType
  <2>2. ASSUME NEW a \in Attempts, NEW r \in {roots[a], expanded[a], kept[a]} \ {None}
        PROVE  RootOf(a, r)
    BY <2>1, <2>2 DEF TypeInv
  <2>3. ASSUME NEW a \in Attempts,
               NEW p \in {packets["primary"][a], packets["dependency_expanded"][a]} \ {None}
        PROVE  PacketOf(a, p)
    BY <2>3 DEF TypeInv, PacketsTyped
  <2>4. /\ turn \in Attempts
        /\ pc \in {"rank", "build", "ask", "inspect", "rerank", "rebuild", "reask", "render",
                   "done"}
    BY DEF IInv, Positions, Steps, Attempts
  <2>5. case \in [Attempts -> Cases] /\ \A i \in DOMAIN inspections : inspections[i].attempt \in Attempts
    BY DEF RankedInv, InspectionsInv
  <2> QED
    BY <2>2, <2>3, <2>4, <2>5 DEF TypeOK, TypeInv
<1> QED
  BY TypesInit, DiagnosesInOrder, CourseKept, RankingsStand, <1>1, <1>2, PTL DEF Spec
=============================================================================
