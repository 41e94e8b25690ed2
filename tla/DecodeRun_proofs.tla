--------------------------- MODULE DecodeRun_proofs ---------------------------
(***************************************************************************)
(* What DecodeRun promises for any number of invocations, protocols and    *)
(* files.                                                                  *)
(*                                                                         *)
(* Type correctness is not inductive alone: a manifest records one final   *)
(* status per protocol, so it needs JoinedWhenDone, and a wrapper's result *)
(* is the status of a manifest, so it needs ValidatesWhatItRead.  What is  *)
(* said of the published generation rests on IInv and on the assumption    *)
(* that no wrapper dies before its child (without it ManifestBacked fails: *)
(* run DecodeRun_Orphan).  StatusHonest and AbortLeavesNothing need no     *)
(* assumption on the faults, nor does the count of a wrapper's steps.      *)
(***************************************************************************)
EXTENDS DecodeRun, TLAPS

\* The type invariant with the facts it needs, about the child and the wrapper.
TInv == TypeOK /\ JoinedWhenDone

TypeInv == TInv /\ ValidatesWhatItRead

\* The overall status is one of the three manifest statuses.
LEMMA OverallStatusType ==
  ASSUME NEW i \in Invocation
  PROVE  OverallStatus(i) \in ManifestStatus
BY DEF OverallStatus, ManifestStatus

\* Whatever status tshark left, a decoder returns a final one.
LEMMA FinalStatusType ==
  ASSUME NEW i \in Invocation, NEW p \in Protocol, NEW waitErr \in BOOLEAN
  PROVE  FinalStatus(i, p, waitErr) \in WorkerDone
BY DEF FinalStatus, WorkerDone

\* Exiting keeps the child's variables well typed.
LEMMA ExitType ==
  ASSUME TypeOK, NEW i \in Invocation, NEW code \in GoState, Exit(i, code)
  PROVE  /\ go' \in [Invocation -> GoState]
         /\ ctx' \in [Invocation -> BOOLEAN]
         /\ worker' \in [Invocation -> [Protocol -> WorkerState]]
         /\ sink' \in [Invocation -> SUBSET Artifact]
         /\ missed' \in [Invocation -> SUBSET Artifact]
         /\ unopened' \in [Invocation -> SUBSET Raw]
         /\ listed' \in [Invocation -> SUBSET Artifact]
BY DEF TypeOK, Exit, NoWorkers, WorkerState, WorkerDone

\* Exiting makes no other child pass the join.
LEMMA ExitJoined ==
  ASSUME TInv, NEW i \in Invocation, NEW code \in GoEnded, Exit(i, code)
  PROVE  JoinedWhenDone'
BY DEF TInv, TypeOK, JoinedWhenDone, Exit, NoWorkers, WorkerDone, GoEnded

LEMMA EndedIsState == GoEnded \subseteq GoState /\ GoLive \subseteq GoState
BY DEF GoState

LEMMA TypeInit == Init => TypeInv
<1> SUFFICES ASSUME Init PROVE TypeInv
  OBVIOUS
<1>1. TypeOK
  BY DEF Init, TypeOK, NoWorkers, WorkerState, WorkerDone, PyState, GoState
<1>2. JoinedWhenDone
  BY DEF Init, JoinedWhenDone
<1>3. ValidatesWhatItRead
  BY DEF Init, ValidatesWhatItRead
<1> QED
  BY <1>1, <1>2, <1>3 DEF TInv, TypeInv

\* The steps of the child's main goroutine.
LEMMA TypeMainStep ==
  ASSUME TInv, NEW i \in Invocation, MainStep(i)
  PROVE  TInv'
<1> USE DecodeAssumption, EndedIsState
<1>1. CASE Preflight(i)
  <2>1. CASE Exit(i, "exit2")
    BY <1>1, <2>1, ExitType, ExitJoined DEF TInv, TypeOK, Preflight, GoEnded, pyVars
  <2>2. CASE StartWorkers(i)
    BY <1>1, <2>2 DEF TInv, TypeOK, JoinedWhenDone, Preflight, StartWorkers,
                      WorkerState, WorkerDone, GoState, GoLive, pyVars
  <2> QED
    BY <1>1, <2>1, <2>2 DEF Preflight
<1>2. CASE JoinWorkers(i)
  <2>1. CASE Exit(i, "exit4")
    BY <1>2, <2>1, ExitType, ExitJoined DEF TInv, TypeOK, JoinWorkers, GoEnded, pyVars
  <2>2. CASE MainGoto(i, "aborting") \/ MainGoto(i, "indexing")
    BY <1>2, <2>2 DEF TInv, TypeOK, JoinedWhenDone, JoinWorkers, Joined, MainGoto,
                      GoState, GoLive, pyVars
  <2> QED
    BY <1>2, <2>1, <2>2 DEF JoinWorkers
<1>3. CASE CheckCancelled(i)
  BY <1>3 DEF TInv, TypeOK, JoinedWhenDone, CheckCancelled, MainGoto, GoState,
              GoLive, pyVars
<1>4. CASE AbortRemove(i)
  BY <1>4 DEF TInv, TypeOK, JoinedWhenDone, AbortRemove, pyVars
<1>5. CASE AbortDone(i)
  BY <1>5, ExitType, ExitJoined DEF TInv, TypeOK, AbortDone, GoEnded, pyVars
<1>6. CASE WriteManifest(i)
  <2>1. Exit(i, "exit0")
    BY <1>6 DEF WriteManifest
  <2>2. worker[i] \in [Protocol -> WorkerDone]
    BY <1>6 DEF TInv, TypeOK, JoinedWhenDone, WriteManifest
  <2>3. manifest' \in Manifest
    BY <1>6, <2>2, OverallStatusType DEF WriteManifest, Manifest, TInv, TypeOK
  <2> QED
    BY <1>6, <2>1, <2>3, ExitType, ExitJoined
    DEF TInv, TypeOK, WriteManifest, GoEnded, pyVars
<1> QED
  BY <1>1, <1>2, <1>3, <1>4, <1>5, <1>6 DEF MainStep

\* A goroutine that moves belongs to a child that has not joined yet.
LEMMA GotoType ==
  ASSUME TInv, NEW i \in Invocation, NEW p \in Protocol, NEW s \in WorkerState,
         go[i] = "decoding", go' = go, Goto(i, p, s)
  PROVE  worker' \in [Invocation -> [Protocol -> WorkerState]] /\ JoinedWhenDone'
BY DEF TInv, TypeOK, JoinedWhenDone, Goto

\* The steps of a protocol goroutine.
LEMMA TypeWorkerStep ==
  ASSUME TInv, NEW i \in Invocation, NEW p \in Protocol, WorkerStep(i, p)
  PROVE  TInv'
<1> USE DEF pyVars
<1>1. CASE StreamFails(i, p)
  BY <1>1, GotoType DEF TInv, TypeOK, StreamFails, At, WorkerState, WorkerDone
<1>2. CASE FinishReading(i, p)
  BY <1>2, GotoType DEF TInv, TypeOK, FinishReading, At, WorkerState, WorkerDone
<1>3. ASSUME NEW a \in Artifact, PublishFile(i, p, a) PROVE TInv'
  BY <1>3 DEF TInv, TypeOK, JoinedWhenDone, PublishFile, MayClose
<1>4. CASE ReturnRun(i, p)
  <2>1. PICK waitErr \in BOOLEAN : Goto(i, p, FinalStatus(i, p, waitErr))
    BY <1>4 DEF ReturnRun
  <2>2. FinalStatus(i, p, waitErr) \in WorkerState
    BY FinalStatusType DEF WorkerState
  <2> QED
    BY <1>4, <2>1, <2>2, GotoType DEF TInv, TypeOK, ReturnRun, At
<1> QED
  BY <1>1, <1>2, <1>3, <1>4 DEF WorkerStep

\* The faults of the child.
LEMMA TypeGoFault ==
  ASSUME TInv, NEW i \in Invocation, GoFault(i)
  PROVE  TInv'
<1> USE EndedIsState DEF pyVars
<1>1. CASE PreflightFails(i)
  BY <1>1, ExitType, ExitJoined DEF TInv, TypeOK, PreflightFails, GoEnded
<1>2. CASE GoCrash(i)
  BY <1>2, ExitType, ExitJoined DEF TInv, TypeOK, GoCrash, GoEnded
<1>3. CASE ManifestFails(i)
  BY <1>3, ExitType, ExitJoined DEF TInv, TypeOK, ManifestFails, GoEnded
<1>4. ASSUME NEW p \in Protocol, TruncatedRecord(i, p) PROVE TInv'
  BY <1>4, GotoType DEF TInv, TypeOK, TruncatedRecord, At, WorkerState
<1>5. ASSUME NEW p \in Protocol, Panic(i, p) PROVE TInv'
  <2>1. /\ listed' \in [Invocation -> SUBSET Artifact]
        /\ unopened' \in [Invocation -> SUBSET Raw]
    BY <1>5 DEF TInv, TypeOK, Panic
  <2> QED
    BY <1>5, <2>1, GotoType DEF TInv, TypeOK, Panic, At, WorkerState, WorkerDone
<1>6. ASSUME NEW p \in Protocol, NEW a \in Artifact, PublishFails(i, p, a)
      PROVE  TInv'
  <2>1. missed' \in [Invocation -> SUBSET Artifact]
    BY <1>6 DEF TInv, TypeOK, PublishFails
  <2>2. listed' \in [Invocation -> SUBSET Artifact]
    <3>1. listed' = listed \/ listed' = [listed EXCEPT ![i] = @ \ Of(p)]
      BY <1>6 DEF PublishFails
    <3> QED
      BY <3>1 DEF TInv, TypeOK
  <2>3. go[i] = "decoding" /\ go' = go
    BY <1>6 DEF PublishFails, MayClose, At
  <2>4. worker' \in [Invocation -> [Protocol -> WorkerState]] /\ JoinedWhenDone'
    <3>1. CASE Goto(i, p, "failed")
      BY <2>3, <3>1, GotoType DEF WorkerState, WorkerDone
    <3>2. CASE worker' = worker
      BY <2>3, <3>2 DEF TInv, TypeOK, JoinedWhenDone
    <3> QED
      BY <1>6, <3>1, <3>2 DEF PublishFails
  <2> QED
    BY <1>6, <2>1, <2>2, <2>3, <2>4 DEF TInv, TypeOK, PublishFails
<1>7. ASSUME NEW p \in Protocol, RawSinkFails(i, p) PROVE TInv'
  BY <1>7 DEF TInv, TypeOK, JoinedWhenDone, RawSinkFails, At
<1> QED
  BY <1>1, <1>2, <1>3, <1>4, <1>5, <1>6, <1>7 DEF GoFault

\* The steps of the wrapper, its start and its death included.
LEMMA TypeWrapper ==
  ASSUME TInv, ValidatesWhatItRead, NEW i \in Invocation,
         Request(i) \/ WrapperStep(i) \/ WrapperDies(i)
  PROVE  TInv'
<1> USE EndedIsState DEF goVars
<1>1. CASE StartWrapper(i)
  BY <1>1 DEF TInv, TypeOK, JoinedWhenDone, StartWrapper, StartChild, Called,
              PyState, PyActive,
              Returned, GoState, GoLive
<1>2. CASE FinishCopy(i)
  BY <1>2 DEF TInv, TypeOK, JoinedWhenDone, FinishCopy, StartChild, PyState, PyActive,
              GoState, GoLive
<1>3. CASE Timeout(i)
  <2>1. py' \in [Invocation -> PyState]
    BY <1>3 DEF TInv, TypeOK, Timeout, PyState, PyActive
  <2>2. CASE Exit(i, "killed")
    BY <1>3, <2>1, <2>2, ExitType, ExitJoined DEF TInv, TypeOK, Timeout, GoEnded
  <2>3. CASE /\ ctx' = [ctx EXCEPT ![i] = TRUE]
             /\ UNCHANGED <<go, worker, sink, missed, unopened, listed>>
    BY <1>3, <2>1, <2>3 DEF TInv, TypeOK, JoinedWhenDone, Timeout
  <2> QED
    BY <1>3, <2>2, <2>3 DEF Timeout
<1>4. CASE GraceExpires(i)
  BY <1>4, ExitType, ExitJoined DEF TInv, TypeOK, GraceExpires, GoEnded, pyVars
<1>5. CASE ReadManifest(i)
  BY <1>5 DEF TInv, TypeOK, JoinedWhenDone, ReadManifest, PyState, PyActive, Returned
<1>6. CASE ValidateArtifacts(i)
  <2>1. got[i].status \in ManifestStatus
    BY <1>6 DEF TInv, TypeOK, ValidateArtifacts, ValidatesWhatItRead, Manifest
  <2> QED
    BY <1>6, <2>1 DEF TInv, TypeOK, JoinedWhenDone, ValidateArtifacts, PyState,
                      Returned, ManifestStatus
<1>7. CASE WrapperDies(i)
  BY <1>7 DEF TInv, TypeOK, JoinedWhenDone, WrapperDies, PyState
<1>8. CASE RefuseRequest(i)
  BY <1>8 DEF TInv, TypeOK, JoinedWhenDone, RefuseRequest, PyState, Returned
<1>9. CASE CopyFails(i)
  BY <1>9 DEF TInv, TypeOK, JoinedWhenDone, CopyFails, PyState, Returned
<1> QED
  BY <1>1, <1>2, <1>3, <1>4, <1>5, <1>6, <1>7, <1>8, <1>9 DEF WrapperStep, Request

\* The child never touches what belongs to the wrapper.
LEMMA GoLeavesWrapper ==
  ASSUME NEW i \in Invocation, GoStep(i) \/ GoFault(i)
  PROVE  UNCHANGED pyVars /\ UNCHANGED source
BY DEF GoStep, MainStep, WorkerStep, GoFault, Preflight, JoinWorkers, CheckCancelled,
       AbortRemove, AbortDone, WriteManifest, StreamFails, FinishReading, PublishFile,
       ReturnRun, PreflightFails, GoCrash, ManifestFails, TruncatedRecord, Panic,
       PublishFails, RawSinkFails

\* Only a manifest that exists is validated.
LEMMA ReadStep ==
  ASSUME TypeInv, NEW i \in Invocation,
         Request(i) \/ WrapperStep(i) \/ WrapperDies(i)
  PROVE  ValidatesWhatItRead'
<1> USE DEF TypeInv, TInv, TypeOK, ValidatesWhatItRead, PyActive
<1>1. CASE StartWrapper(i)
  BY <1>1 DEF StartWrapper, StartChild, Called
<1>2. CASE FinishCopy(i)
  BY <1>2 DEF FinishCopy, StartChild
<1>3. CASE Timeout(i)
  BY <1>3 DEF Timeout
<1>4. CASE GraceExpires(i)
  BY <1>4 DEF GraceExpires, pyVars
<1>5. CASE ReadManifest(i)
  BY <1>5 DEF ReadManifest
<1>6. CASE ValidateArtifacts(i)
  <2>1. py'[i] \in {"fatal", "invalid", got[i].status}
    BY <1>6 DEF ValidateArtifacts
  <2>2. got[i].status \in ManifestStatus
    BY <1>6 DEF ValidateArtifacts, Manifest
  <2> QED
    BY <1>6, <2>1, <2>2 DEF ValidateArtifacts, ManifestStatus
<1>7. CASE WrapperDies(i)
  BY <1>7 DEF WrapperDies
<1>8. CASE RefuseRequest(i) \/ CopyFails(i)
  BY <1>8 DEF RefuseRequest, CopyFails
<1> QED
  BY <1>1, <1>2, <1>3, <1>4, <1>5, <1>6, <1>7, <1>8 DEF WrapperStep, Request

LEMMA TypeStep == TypeInv /\ [Next]_vars => TypeInv'
<1> SUFFICES ASSUME TypeInv, [Next]_vars PROVE TypeInv'
  OBVIOUS
<1>1. CASE UNCHANGED vars
  BY <1>1 DEF TypeInv, TInv, TypeOK, JoinedWhenDone, ValidatesWhatItRead, vars,
              pyVars, goVars
<1>2. ASSUME NEW i \in Invocation, GoStep(i) \/ GoFault(i) PROVE TypeInv'
  <2>1. ValidatesWhatItRead'
    BY <1>2, GoLeavesWrapper DEF TypeInv, ValidatesWhatItRead, pyVars
  <2> QED
    BY <1>2, <2>1, TypeMainStep, TypeWorkerStep, TypeGoFault DEF GoStep, TypeInv
<1>3. ASSUME NEW i \in Invocation, Request(i) \/ WrapperStep(i) \/ WrapperDies(i)
      PROVE  TypeInv'
  BY <1>3, ReadStep, TypeWrapper DEF TypeInv
<1> QED
  BY <1>1, <1>2, <1>3 DEF Next

\* Every state of every instance is well typed, wrapper deaths included; in
\* particular a manifest records a final status for each protocol.
THEOREM TypeCorrect == Spec => []TypeOK
<1>1. TypeInv => TypeOK
  BY DEF TInv, TypeInv
<1> QED
  BY TypeInit, TypeStep, <1>1, PTL DEF Spec

-----------------------------------------------------------------------------
(* Safety when no wrapper dies.                                            *)

\* The part of IInv that is not about types.
SInv ==
  /\ OneActive
  /\ UncommittedWhileDecoding
  /\ SinkIsDisk
  /\ ManifestOnDisk
  /\ AbortLeavesNothing

LEMMA IInvParts == IInv <=> TypeInv /\ SInv
BY DEF IInv, TypeInv, TInv, SInv

LEMMA SafetyInit == Init => IInv
<1> SUFFICES ASSUME Init PROVE IInv
  OBVIOUS
<1>1. SInv
  BY DecodeAssumption
  DEF Init, SInv, OneActive, UncommittedWhileDecoding, SinkIsDisk, ManifestOnDisk,
      AbortLeavesNothing, PyActive, GoLive
<1> QED
  BY <1>1, TypeInit, IInvParts

\* The end of a child leaves the directory to what it has committed.  Ending
\* as "aborted" needs an empty published list.
LEMMA ExitSafe ==
  ASSUME IInv, NEW i \in Invocation, NEW code \in GoEnded,
         go[i] \in GoLive, Exit(i, code), UNCHANGED <<disk, manifest>>,
         code = "aborted" => sink[i] = {},
         \/ py' = py
         \/ py[i] = "waiting" /\ py' = [py EXCEPT ![i] = "terminating"]
  PROVE  SInv'
<1> USE DEF IInv, TypeOK
<1>1. \A j \in Invocation : j # i => go'[j] = go[j] /\ sink'[j] = sink[j] /\ listed'[j] = listed[j]
  BY DEF Exit
<1>2. go'[i] = code /\ sink'[i] = {} /\ listed'[i] = {} /\ code \notin GoLive
  BY DEF Exit, GoEnded, GoLive
<1>3. \A j \in Invocation : py'[j] \in PyActive <=> py[j] \in PyActive
  BY DEF PyActive
<1>4. OneActive'
  BY <1>1, <1>2, <1>3 DEF OneActive, PyActive
<1>5. UncommittedWhileDecoding'
  BY <1>1, <1>2 DEF UncommittedWhileDecoding
<1>6. SinkIsDisk'
  BY <1>1, <1>2 DEF SinkIsDisk, GoLive, GoEnded
<1>7. ManifestOnDisk'
  BY DEF ManifestOnDisk
<1>8. AbortLeavesNothing'
  BY <1>1, <1>2 DEF AbortLeavesNothing, SinkIsDisk
<1> QED
  BY <1>4, <1>5, <1>6, <1>7, <1>8 DEF SInv

\* A step inside a child that neither publishes nor lets it end.
LEMMA QuietSafe ==
  ASSUME IInv, NEW i \in Invocation, NEW s \in GoLive \ {"preflight"},
         go[i] \in GoLive \ {"preflight"}, go' = [go EXCEPT ![i] = s],
         UNCHANGED <<disk, manifest, py, sink>>,
         listed' \in [Invocation -> SUBSET Artifact],
         \A j \in Invocation : listed'[j] \subseteq listed[j],
         go[i] = "aborting" => s = "aborting"
  PROVE  SInv'
<1> USE DEF IInv, TypeOK
<1>1. \A j \in Invocation : j # i => go'[j] = go[j]
  OBVIOUS
<1>2. go'[i] = s
  OBVIOUS
<1>3. OneActive'
  BY <1>1, <1>2 DEF OneActive, GoLive
<1>4. UncommittedWhileDecoding'
  BY <1>1, <1>2 DEF UncommittedWhileDecoding
<1>5. SinkIsDisk'
  BY <1>1, <1>2 DEF SinkIsDisk, GoLive
<1>6. ManifestOnDisk'
  BY DEF ManifestOnDisk
<1>7. AbortLeavesNothing'
  BY <1>1, <1>2 DEF AbortLeavesNothing, GoLive
<1> QED
  BY <1>3, <1>4, <1>5, <1>6, <1>7 DEF SInv

\* The steps of the child's main goroutine.  The interesting ones: Preflight
\* starts decoding only over an empty generation, AbortRemove meets no
\* manifest, and WriteManifest describes only what the child has on disk.
LEMMA SafetyMainStep ==
  ASSUME IInv, NEW i \in Invocation, MainStep(i)
  PROVE  SInv'
<1> USE DEF IInv, TypeOK, pyVars
<1>1. CASE Preflight(i)
  <2>1. CASE Exit(i, "exit2")
    BY <1>1, <2>1, ExitSafe DEF Preflight, GoLive, GoEnded
  <2>2. CASE manifest = NoManifest /\ StartWorkers(i)
    <3>1. \A j \in Invocation : j # i => go'[j] = go[j]
      BY <2>2 DEF StartWorkers
    <3>2. go[i] = "preflight" /\ go'[i] = "decoding"
      BY <1>1, <2>2 DEF Preflight, StartWorkers
    <3>3. UNCHANGED <<disk, manifest, py, sink, listed>>
      BY <1>1, <2>2 DEF Preflight, StartWorkers
    <3>4. OneActive'
      BY <3>1, <3>2, <3>3 DEF OneActive, GoLive
    <3>5. UncommittedWhileDecoding' /\ ManifestOnDisk'
      BY <2>2, <3>3 DEF UncommittedWhileDecoding, ManifestOnDisk
    <3>6. SinkIsDisk'
      BY <3>1, <3>2, <3>3 DEF SinkIsDisk, GoLive
    <3>7. AbortLeavesNothing'
      BY <3>1, <3>2, <3>3 DEF AbortLeavesNothing
    <3> QED
      BY <3>4, <3>5, <3>6, <3>7 DEF SInv
  <2> QED
    BY <1>1, <2>1, <2>2 DEF Preflight
<1>2. CASE JoinWorkers(i)
  <2>1. CASE Exit(i, "exit4")
    BY <1>2, <2>1, ExitSafe DEF JoinWorkers, Joined, GoLive, GoEnded
  <2>2. CASE MainGoto(i, "aborting")
    BY <1>2, <2>2, QuietSafe DEF JoinWorkers, Joined, MainGoto, GoLive
  <2>3. CASE MainGoto(i, "indexing")
    BY <1>2, <2>3, QuietSafe DEF JoinWorkers, Joined, MainGoto, GoLive
  <2> QED
    BY <1>2, <2>1, <2>2, <2>3 DEF JoinWorkers
<1>3. CASE CheckCancelled(i)
  <2>1. CASE MainGoto(i, "aborting")
    BY <1>3, <2>1, QuietSafe DEF CheckCancelled, MainGoto, GoLive
  <2>2. CASE MainGoto(i, "manifest")
    BY <1>3, <2>2, QuietSafe DEF CheckCancelled, MainGoto, GoLive
  <2> QED
    BY <1>3, <2>1, <2>2 DEF CheckCancelled
<1>4. CASE AbortRemove(i)
  <2>1. PICK a \in sink[i] : /\ disk' = [disk EXCEPT ![a] = NoFile]
                             /\ sink' = [sink EXCEPT ![i] = @ \ {a}]
    BY <1>4 DEF AbortRemove
  <2>2. go[i] = "aborting" /\ manifest = NoManifest /\ disk[a] = i
    BY <1>4, <2>1 DEF AbortRemove, UncommittedWhileDecoding, SinkIsDisk, GoLive
  <2>3. OneActive' /\ UncommittedWhileDecoding' /\ ManifestOnDisk'
    BY <1>4, <2>2 DEF AbortRemove, OneActive, UncommittedWhileDecoding, ManifestOnDisk
  <2>4. \A b \in Artifact, j \in Invocation :
          disk'[b] = j <=> (b # a /\ disk[b] = j)
    BY <2>1, DecodeAssumption
  <2>5. SinkIsDisk'
    BY <1>4, <2>1, <2>2, <2>4 DEF AbortRemove, SinkIsDisk, GoLive
  <2>6. AbortLeavesNothing'
    BY <1>4, <2>4 DEF AbortRemove, AbortLeavesNothing
  <2> QED
    BY <2>3, <2>5, <2>6 DEF SInv
<1>5. CASE AbortDone(i)
  BY <1>5, ExitSafe DEF AbortDone, GoLive, GoEnded
<1>6. CASE WriteManifest(i)
  <2>1. Exit(i, "exit0") /\ go[i] = "manifest" /\ UNCHANGED <<disk, py>>
    BY <1>6 DEF WriteManifest
  <2>2. manifest'.files = listed[i] /\ manifest'.by = i
    BY <1>6 DEF WriteManifest
  <2>3. \A a \in listed[i] : disk[a] = i
    BY <2>1 DEF SinkIsDisk, GoLive
  <2>4. ManifestOnDisk'
    BY <2>1, <2>2, <2>3 DEF ManifestOnDisk
  <2>5. \A j \in Invocation : go'[j] \notin GoLive
    BY <2>1 DEF Exit, OneActive, GoLive, PyActive
  <2>6. UncommittedWhileDecoding'
    BY <2>5 DEF UncommittedWhileDecoding
  <2>7. \A j \in Invocation : j # i => go'[j] = go[j] /\ sink'[j] = sink[j] /\ listed'[j] = listed[j]
    BY <2>1 DEF Exit
  <2>8. go'[i] = "exit0" /\ sink'[i] = {} /\ listed'[i] = {}
    BY <2>1 DEF Exit
  <2>9. OneActive'
    BY <2>1, <2>5, <2>7, <2>8 DEF OneActive, GoLive
  <2>10. SinkIsDisk' /\ AbortLeavesNothing'
    BY <2>1, <2>5, <2>7, <2>8, ZenonT(40) DEF SinkIsDisk, AbortLeavesNothing, GoLive
  <2> QED
    BY <2>4, <2>6, <2>9, <2>10 DEF SInv
<1> QED
  BY <1>1, <1>2, <1>3, <1>4, <1>5, <1>6 DEF MainStep

\* A goroutine that moves without publishing.
LEMMA GoroutineSafe ==
  ASSUME IInv, NEW i \in Invocation, go[i] = "decoding",
         UNCHANGED <<disk, manifest, py, go, sink>>,
         listed' \in [Invocation -> SUBSET Artifact],
         \A j \in Invocation : listed'[j] \subseteq listed[j]
  PROVE  SInv'
<1>1. go' = [go EXCEPT ![i] = "decoding"]
  BY DEF IInv, TypeOK
<1> QED
  BY <1>1, QuietSafe DEF GoLive

\* The steps of a protocol goroutine: PublishFile writes a file only while no
\* manifest exists and no other child lives.
LEMMA SafetyWorkerStep ==
  ASSUME IInv, NEW i \in Invocation, NEW p \in Protocol, WorkerStep(i, p)
  PROVE  SInv'
<1> USE DEF IInv, TypeOK, pyVars
<1>1. CASE StreamFails(i, p)
  BY <1>1, GoroutineSafe DEF StreamFails, Untouched, At
<1>2. CASE FinishReading(i, p)
  BY <1>2, GoroutineSafe DEF FinishReading, At
<1>3. ASSUME NEW a \in Artifact, PublishFile(i, p, a) PROVE SInv'
  <2>1. go[i] = "decoding" /\ a \in Artifact
    BY <1>3 DEF PublishFile, MayClose, At
  <2>2. manifest = NoManifest
    BY <2>1 DEF UncommittedWhileDecoding, GoLive
  <2>3. \A j \in Invocation : go[j] \in GoLive => j = i
    BY <2>1 DEF OneActive, GoLive, PyActive
  <2>4. \A b \in Artifact, j \in Invocation :
          disk'[b] = j <=> IF b = a THEN j = i ELSE disk[b] = j
    BY <1>3 DEF PublishFile
  <2>5. UNCHANGED <<manifest, py, go>>
    BY <1>3 DEF PublishFile
  <2>6. OneActive' /\ UncommittedWhileDecoding' /\ ManifestOnDisk'
    BY <2>2, <2>5 DEF OneActive, UncommittedWhileDecoding, ManifestOnDisk
  <2>7. sink' = [sink EXCEPT ![i] = @ \cup {a}] /\ listed' = [listed EXCEPT ![i] = @ \cup {a}]
    BY <1>3 DEF PublishFile
  <2>8. SinkIsDisk'
    <3>1. ASSUME NEW j \in Invocation, j # i
          PROVE  /\ go'[j] \in {"none", "preflight"} => \A b \in Artifact : disk'[b] # j
                 /\ go'[j] \notin GoLive
                 /\ sink'[j] = {} /\ listed'[j] = {}
      BY <2>3, <2>4, <2>5, <2>7, <3>1 DEF SinkIsDisk, GoLive
    <3>2. /\ \A b \in Artifact : b \in sink'[i] <=> disk'[b] = i
          /\ listed'[i] \subseteq sink'[i]
      BY <2>1, <2>4, <2>7 DEF SinkIsDisk, GoLive
    <3> QED
      BY <2>1, <2>5, <3>1, <3>2 DEF SinkIsDisk, GoLive
  <2>9. AbortLeavesNothing'
    BY <2>1, <2>4, <2>5 DEF AbortLeavesNothing
  <2> QED
    BY <2>6, <2>8, <2>9 DEF SInv
<1>4. CASE ReturnRun(i, p)
  BY <1>4, GoroutineSafe DEF ReturnRun, At
<1> QED
  BY <1>1, <1>2, <1>3, <1>4 DEF WorkerStep

\* The faults of the child: none of them touches the directory.
LEMMA SafetyGoFault ==
  ASSUME IInv, NEW i \in Invocation, GoFault(i)
  PROVE  SInv'
<1> USE DEF IInv, TypeOK, pyVars
<1>1. CASE PreflightFails(i)
  BY <1>1, ExitSafe DEF PreflightFails, GoLive, GoEnded
<1>2. CASE GoCrash(i)
  BY <1>2, ExitSafe DEF GoCrash, GoEnded
<1>3. CASE ManifestFails(i)
  BY <1>3, ExitSafe DEF ManifestFails, GoLive, GoEnded
<1>4. ASSUME NEW p \in Protocol, TruncatedRecord(i, p) PROVE SInv'
  BY <1>4, GoroutineSafe DEF TruncatedRecord, At
<1>5. ASSUME NEW p \in Protocol, Panic(i, p) PROVE SInv'
  <2>1. listed' = [listed EXCEPT ![i] = @ \ Of(p)] /\ go[i] = "decoding"
    BY <1>5 DEF Panic, At
  <2> QED
    BY <1>5, <2>1, GoroutineSafe DEF Panic
<1>6. ASSUME NEW p \in Protocol, NEW a \in Artifact, PublishFails(i, p, a)
      PROVE  SInv'
  <2>1. listed' = listed \/ listed' = [listed EXCEPT ![i] = @ \ Of(p)]
    BY <1>6 DEF PublishFails
  <2>2. go[i] = "decoding"
    BY <1>6 DEF PublishFails, MayClose, At
  <2>3. /\ listed' \in [Invocation -> SUBSET Artifact]
        /\ \A j \in Invocation : listed'[j] \subseteq listed[j]
    BY <2>1, ZenonT(40)
  <2> QED
    BY <1>6, <2>2, <2>3, GoroutineSafe DEF PublishFails
<1>7. ASSUME NEW p \in Protocol, RawSinkFails(i, p) PROVE SInv'
  BY <1>7, GoroutineSafe DEF RawSinkFails, At
<1> QED
  BY <1>1, <1>2, <1>3, <1>4, <1>5, <1>6, <1>7 DEF GoFault

\* The steps of the wrapper: StartWrapper and FinishCopy start a child only
\* while no other wrapper is at work, ReadManifest moves on only after the
\* child has ended.
LEMMA SafetyWrapper ==
  ASSUME IInv, NEW i \in Invocation, Request(i) \/ WrapperStep(i)
  PROVE  SInv'
<1> USE DEF IInv, TypeOK, goVars
<1>1. CASE StartWrapper(i)
  <2>1. \A j \in Invocation : j # i => go'[j] = go[j] /\ py'[j] = py[j]
    BY <1>1 DEF StartWrapper, StartChild, Called
  <2>2. /\ py[i] = "idle" /\ go[i] = "none"
        /\ \A j \in Invocation : py[j] \notin PyActive
    BY <1>1 DEF StartWrapper, StartChild, Called, OneActive
  <2>3. \/ py'[i] \in {"copying", "refused"} /\ go'[i] = "none"
        \/ py'[i] = "waiting" /\ go'[i] = "preflight"
    BY <1>1, <2>2 DEF StartWrapper, StartChild, Called
  <2>4. UNCHANGED <<disk, manifest, sink, listed>>
    BY <1>1 DEF StartWrapper, StartChild, Called
  <2>5. OneActive'
    BY <2>1, <2>2, <2>3 DEF OneActive, PyActive, GoLive
  <2>6. UncommittedWhileDecoding' /\ ManifestOnDisk' /\ AbortLeavesNothing'
    BY <2>1, <2>3, <2>4
    DEF UncommittedWhileDecoding, ManifestOnDisk, AbortLeavesNothing, GoLive
  <2>7. SinkIsDisk'
    BY <2>1, <2>2, <2>3, <2>4 DEF SinkIsDisk, GoLive
  <2> QED
    BY <2>5, <2>6, <2>7 DEF SInv
<1>2. CASE FinishCopy(i)
  <2>1. \A j \in Invocation : j # i => go'[j] = go[j] /\ py'[j] = py[j]
    BY <1>2 DEF FinishCopy, StartChild
  <2>2. py[i] = "copying" /\ go[i] = "none" /\ py'[i] = "waiting" /\ go'[i] = "preflight"
    BY <1>2 DEF FinishCopy, StartChild, OneActive
  <2>3. UNCHANGED <<disk, manifest, sink, listed>>
    BY <1>2 DEF FinishCopy, StartChild
  <2>4. OneActive'
    <3>1. \A j \in Invocation : py'[j] \in PyActive => j = i
      BY <2>1, <2>2 DEF OneActive, PyActive
    <3>2. \A j \in Invocation : go'[j] \in GoLive => py'[j] \in {"waiting", "terminating"}
      BY <2>1, <2>2 DEF OneActive
    <3>3. \A j \in Invocation : py'[j] \in {"idle", "copying"} => go'[j] = "none"
      BY <2>1, <2>2 DEF OneActive
    <3> QED
      BY <3>1, <3>2, <3>3 DEF OneActive
  <2>5. UncommittedWhileDecoding' /\ ManifestOnDisk' /\ AbortLeavesNothing'
    BY <2>1, <2>2, <2>3
    DEF UncommittedWhileDecoding, ManifestOnDisk, AbortLeavesNothing, GoLive
  <2>6. SinkIsDisk'
    BY <2>1, <2>2, <2>3 DEF SinkIsDisk, GoLive
  <2> QED
    BY <2>4, <2>5, <2>6 DEF SInv
<1>3. CASE Timeout(i)
  <2>1. py[i] = "waiting" /\ py' = [py EXCEPT ![i] = "terminating"] /\ go[i] \in GoLive
    BY <1>3 DEF Timeout
  <2>2. CASE Exit(i, "killed")
    BY <1>3, <2>1, <2>2, ExitSafe DEF Timeout, GoEnded
  <2>3. CASE UNCHANGED <<go, worker, sink, missed, unopened, listed>>
    <3>1. UNCHANGED <<disk, manifest>>
      BY <1>3 DEF Timeout
    <3>2. OneActive'
      BY <2>1, <2>3 DEF OneActive, PyActive
    <3>3. UncommittedWhileDecoding' /\ SinkIsDisk' /\ ManifestOnDisk' /\ AbortLeavesNothing'
      BY <2>3, <3>1 DEF UncommittedWhileDecoding, SinkIsDisk, ManifestOnDisk, AbortLeavesNothing
    <3> QED
      BY <3>2, <3>3 DEF SInv
  <2> QED
    BY <1>3, <2>2, <2>3 DEF Timeout
<1>4. CASE GraceExpires(i)
  BY <1>4, ExitSafe DEF GraceExpires, GoEnded, pyVars
<1>5. CASE ReadManifest(i)
  <2>1. go[i] \in GoEnded /\ py[i] \in {"waiting", "terminating"}
    BY <1>5 DEF ReadManifest
  <2>2. py' = [py EXCEPT ![i] = "fatal"] \/ py' = [py EXCEPT ![i] = "validating"]
    BY <1>5 DEF ReadManifest
  <2>3. OneActive'
    BY <1>5, <2>1, <2>2 DEF ReadManifest, OneActive, PyActive, GoLive, GoEnded
  <2> QED
    BY <1>5, <2>3 DEF SInv, ReadManifest, UncommittedWhileDecoding, SinkIsDisk,
                      ManifestOnDisk, AbortLeavesNothing
<1>6. CASE ValidateArtifacts(i)
  <2>1. got[i].status \in ManifestStatus
    BY <1>6 DEF ValidateArtifacts, ValidatesWhatItRead, Manifest
  <2>2. py'[i] \in Returned /\ py[i] = "validating"
    BY <1>6, <2>1 DEF ValidateArtifacts, ManifestStatus, Returned
  <2>3. \A j \in Invocation : j # i => py'[j] = py[j]
    BY <1>6 DEF ValidateArtifacts
  <2>4. go' = go
    BY <1>6 DEF ValidateArtifacts
  <2>5. /\ \A j, k \in Invocation : py'[j] \in PyActive /\ py'[k] \in PyActive => j = k
        /\ \A j \in Invocation : py'[j] \in {"idle", "copying"} => go[j] = "none"
    BY <2>2, <2>3 DEF OneActive, PyActive, Returned
  <2>6. \A j \in Invocation : go[j] \in GoLive => py'[j] \in {"waiting", "terminating"}
    BY <2>2, <2>3 DEF OneActive
  <2>7. OneActive'
    BY <2>4, <2>5, <2>6 DEF OneActive, PyActive, GoLive
  <2> QED
    BY <1>6, <2>7 DEF SInv, ValidateArtifacts, UncommittedWhileDecoding, SinkIsDisk,
                      ManifestOnDisk, AbortLeavesNothing
<1>7. CASE RefuseRequest(i) \/ CopyFails(i)
  <2>1. /\ py' = [py EXCEPT ![i] = "refused"] /\ py[i] \in {"idle", "copying"}
        /\ UNCHANGED <<disk, manifest, goVars>>
    BY <1>7 DEF RefuseRequest, Called, CopyFails
  <2>2. OneActive'
    BY <2>1 DEF OneActive, PyActive
  <2> QED
    BY <2>1, <2>2 DEF SInv, UncommittedWhileDecoding, SinkIsDisk, ManifestOnDisk,
                      AbortLeavesNothing
<1> QED
  BY <1>1, <1>2, <1>3, <1>4, <1>5, <1>6, <1>7 DEF WrapperStep, Request

LEMMA SafetyStep ==
  ASSUME "wrapper_death" \notin Faults
  PROVE  IInv /\ [Next]_vars => IInv'
<1> SUFFICES ASSUME IInv, [Next]_vars PROVE SInv'
  <2>1. TypeInv' /\ SInv' => IInv'
    BY DEF IInv, TypeInv, TInv, SInv
  <2> QED
    BY <2>1, TypeStep, IInvParts
<1>1. CASE UNCHANGED vars
  BY <1>1 DEF IInv, SInv, OneActive, UncommittedWhileDecoding, SinkIsDisk,
              ManifestOnDisk, AbortLeavesNothing, vars, pyVars, goVars
<1>2. CASE Next
  <2>1. \A i \in Invocation : ~ WrapperDies(i)
    BY DEF WrapperDies
  <2> QED
    BY <1>2, <2>1, SafetyMainStep, SafetyWorkerStep, SafetyGoFault, SafetyWrapper
    DEF Next, GoStep
<1> QED
  BY <1>1, <1>2

\* The inductive invariant, for every number of invocations and files.
THEOREM InvariantHolds ==
  ASSUME "wrapper_death" \notin Faults
  PROVE  Spec => []IInv
BY SafetyInit, SafetyStep, PTL DEF Spec

\* If no wrapper dies before its child, every file the manifest names is in
\* decoder/ with the bytes it describes, at every moment.
THEOREM ManifestAlwaysBacked ==
  ASSUME "wrapper_death" \notin Faults
  PROVE  Spec => []ManifestBacked
<1>1. IInv => ManifestBacked
  <2> SUFFICES ASSUME IInv, manifest # NoManifest, NEW a \in manifest.files
               PROVE  Matches(a, manifest)
    BY DEF ManifestBacked
  <2>1. disk[a] = manifest.by /\ manifest.by \in Invocation
    BY DEF IInv, TypeOK, Manifest, ManifestOnDisk
  <2> QED
    BY <2>1, DecodeAssumption DEF Matches
<1> QED
  BY <1>1, InvariantHolds, PTL

\* The manifest of a run directory is written once, and the files it names are
\* neither rewritten nor removed afterwards.
THEOREM GenerationNeverChanges ==
  ASSUME "wrapper_death" \notin Faults
  PROVE  Spec => GenerationImmutable
<1> DEFINE Kept == /\ manifest' = manifest
                   /\ \A a \in manifest.files : disk'[a] = disk[a]
<1>1. ASSUME IInv, [Next]_vars, manifest # NoManifest PROVE Kept
  <2>1. \A i \in Invocation : go[i] \notin GoLive \ {"preflight"}
    BY <1>1 DEF IInv, UncommittedWhileDecoding
  <2>2. CASE UNCHANGED vars
    BY <2>2 DEF vars
  <2>3. ASSUME NEW i \in Invocation, MainStep(i) PROVE Kept
    <3>1. Preflight(i)
      BY <2>1, <2>3 DEF MainStep, JoinWorkers, Joined, CheckCancelled, AbortRemove,
                        AbortDone, WriteManifest, GoLive
    <3> QED
      BY <3>1 DEF Preflight
  <2>4. ASSUME NEW i \in Invocation, NEW p \in Protocol, WorkerStep(i, p) PROVE Kept
    BY <2>1, <2>4 DEF WorkerStep, StreamFails, FinishReading, PublishFile, MayClose,
                      ReturnRun, At, GoLive
  <2>5. ASSUME NEW i \in Invocation, GoFault(i) PROVE Kept
    BY <2>5 DEF GoFault, PreflightFails, GoCrash, ManifestFails, TruncatedRecord,
                Panic, PublishFails, RawSinkFails
  <2>6. ASSUME NEW i \in Invocation, Request(i) \/ WrapperStep(i) \/ WrapperDies(i)
        PROVE  Kept
    BY <2>6 DEF Request, RefuseRequest, StartWrapper, WrapperStep, WrapperDies,
                FinishCopy, CopyFails, Timeout, GraceExpires, ReadManifest,
                ValidateArtifacts
  <2> QED
    BY <1>1, <2>2, <2>3, <2>4, <2>5, <2>6 DEF Next, GoStep
<1>2. IInv /\ [Next]_vars => [manifest # NoManifest => Kept]_<<manifest, disk>>
  BY <1>1
<1> QED
  BY <1>2, InvariantHolds, PTL DEF Spec, GenerationImmutable, Kept

-----------------------------------------------------------------------------
(* The status of a manifest is earned, wrapper deaths included.            *)

HonestParts ==
  /\ RequestedRun
  /\ NothingBeforeDecoding
  /\ RecordsDescribed
  /\ SomeRunUsable
  /\ StatusHonest

LEMMA HonestInit == Init => HonestInv
<1> SUFFICES ASSUME Init PROVE HonestInv
  OBVIOUS
<1>1. HonestParts
  BY DEF Init, HonestParts, RequestedRun, NothingBeforeDecoding, RecordsDescribed,
         SomeRunUsable, StatusHonest
<1> QED
  BY <1>1, TypeInit DEF TypeInv, TInv, HonestInv, HonestParts

\* The results behind the join do not change.
LEMMA UsableKept ==
  ASSUME SomeRunUsable,
         \A j \in Invocation : go'[j] \in {"indexing", "manifest"} =>
           go[j] \in {"indexing", "manifest"} /\ worker'[j] = worker[j]
  PROVE  SomeRunUsable'
BY DEF SomeRunUsable, Runs, AllFailed

\* A child that has ended owes nothing.
LEMMA HonestExit ==
  ASSUME HonestInv, NEW i \in Invocation, NEW code \in GoEnded, Exit(i, code),
         UNCHANGED <<manifest, opt>>, py'[i] \notin {"idle", "copying"},
         \A j \in Invocation : j # i => py'[j] = py[j]
  PROVE  HonestParts'
<1> USE DEF HonestInv, TypeOK
<1>1. \A j \in Invocation : j # i =>
        /\ go'[j] = go[j] /\ worker'[j] = worker[j]
        /\ sink'[j] = sink[j] /\ listed'[j] = listed[j]
        /\ unopened'[j] = unopened[j]
  BY DEF Exit
<1>2. go'[i] \notin {"decoding", "indexing", "manifest"}
  BY DEF Exit, GoEnded
<1>3. RequestedRun'
  BY <1>1, <1>2 DEF RequestedRun
<1>4. RecordsDescribed'
  BY <1>1, <1>2 DEF RecordsDescribed
<1>5. SomeRunUsable'
  BY <1>1, <1>2 DEF SomeRunUsable, Runs, AllFailed
<1>6. StatusHonest'
  BY DEF StatusHonest
<1>7. NothingBeforeDecoding'
  BY <1>1 DEF NothingBeforeDecoding, Exit, GoEnded
<1> QED
  BY <1>3, <1>4, <1>5, <1>6, <1>7 DEF HonestParts

\* The main goroutine moves on with the results it has.
LEMMA HonestGoto ==
  ASSUME HonestInv, NEW i \in Invocation, NEW s \in GoLive, MainGoto(i, s),
         UNCHANGED <<manifest, opt, py>>, go[i] \in {"decoding", "indexing"},
         s \in {"indexing", "manifest", "aborting"},
         s # "aborting" => (Runs(i) # {} => ~ AllFailed(i))
  PROVE  HonestParts'
<1> USE DEF HonestInv, TypeOK
<1>1. /\ \A j \in Invocation : j # i => go'[j] = go[j]
      /\ go'[i] = s /\ UNCHANGED <<worker, sink, unopened, listed>>
  BY DEF MainGoto
<1>2. RequestedRun'
  BY <1>1 DEF RequestedRun
<1>3. RecordsDescribed'
  BY <1>1 DEF RecordsDescribed
<1>4. SomeRunUsable'
  BY <1>1 DEF SomeRunUsable, Runs, AllFailed
<1>5. StatusHonest'
  BY DEF StatusHonest
<1>6. NothingBeforeDecoding'
  BY <1>1 DEF NothingBeforeDecoding
<1> QED
  BY <1>2, <1>3, <1>4, <1>5, <1>6 DEF HonestParts

\* The commit: "failed" is impossible after the join, and "success" means that
\* no requested protocol ended as failed or partial.
LEMMA HonestCommit ==
  ASSUME HonestInv, NEW i \in Invocation, WriteManifest(i)
  PROVE  StatusHonest'
<1> USE DEF HonestInv, TypeOK, pyVars
<1>1. /\ go[i] = "manifest" /\ opt' = opt
      /\ manifest' = [by |-> i, files |-> listed[i], unretained |-> unopened[i],
                       protocols |-> worker[i], status |-> OverallStatus(i)]
  BY DEF WriteManifest
<1>2. OverallStatus(i) # "failed"
  BY <1>1 DEF OverallStatus, SomeRunUsable
<1>3. ASSUME OverallStatus(i) = "success", NEW p \in Requested[opt[i]]
      PROVE  /\ worker[i][p] \in {"success", "absent"}
             /\ (p \notin StreamProtocol /\ worker[i][p] = "success")
                  => Of(p) \subseteq listed[i] \cup unopened[i]
  <2>1. p \in Protocol
    BY DecodeAssumption
  <2>2. worker[i][p] \in WorkerDone /\ worker[i][p] # "not_requested"
    BY <1>1, <1>3, <2>1 DEF JoinedWhenDone, RequestedRun
  <2>3. worker[i][p] \notin {"failed", "partial"}
    BY <1>3, <2>1, <2>2 DEF OverallStatus, Runs
  <2> QED
    BY <1>1, <2>1, <2>2, <2>3 DEF WorkerDone, RecordsDescribed
<1> QED
  BY <1>1, <1>2, <1>3 DEF StatusHonest

LEMMA HonestMainStep ==
  ASSUME HonestInv, NEW i \in Invocation, MainStep(i)
  PROVE  HonestParts'
<1> USE DEF HonestInv, TypeOK, pyVars
<1>0. go[i] \in GoLive /\ py[i] \notin {"idle", "copying"}
  BY DEF MainStep, Preflight, JoinWorkers, Joined, CheckCancelled, AbortRemove,
         AbortDone, WriteManifest, GoLive, NothingBeforeDecoding
<1>1. CASE Preflight(i)
  <2>1. CASE Exit(i, "exit2")
    BY <1>0, <1>1, <2>1, HonestExit DEF Preflight, GoEnded
  <2>2. CASE StartWorkers(i)
    <3>1. /\ \A j \in Invocation : j # i => go'[j] = go[j] /\ worker'[j] = worker[j]
          /\ go'[i] = "decoding" /\ UNCHANGED <<sink, unopened, listed, opt, manifest, py>>
      BY <1>1, <2>2 DEF Preflight, StartWorkers
    <3>2. \A p \in Protocol : worker'[i][p] = IF p \in Requested[opt[i]]
                                               THEN "reading" ELSE "not_requested"
      BY <2>2 DEF StartWorkers
    <3>3. sink[i] = {}
      BY <1>1 DEF Preflight, NothingBeforeDecoding
    <3>4. RequestedRun'
      BY <3>1, <3>2 DEF RequestedRun
    <3>5. RecordsDescribed'
      BY <3>1, <3>2, <3>3 DEF RecordsDescribed, WorkerDone
    <3>6. SomeRunUsable'
      BY <3>1 DEF SomeRunUsable, Runs, AllFailed
    <3>7. StatusHonest'
      BY <3>1 DEF StatusHonest
    <3>8. NothingBeforeDecoding'
      BY <1>0, <3>1 DEF NothingBeforeDecoding
    <3> QED
      BY <3>4, <3>5, <3>6, <3>7, <3>8 DEF HonestParts
  <2> QED
    BY <1>1, <2>1, <2>2 DEF Preflight
<1>2. CASE JoinWorkers(i)
  <2>1. CASE Exit(i, "exit4")
    BY <1>0, <1>2, <2>1, HonestExit DEF JoinWorkers, GoEnded
  <2>2. CASE MainGoto(i, "aborting")
    BY <1>2, <2>2, HonestGoto DEF JoinWorkers, Joined, GoLive
  <2>3. CASE MainGoto(i, "indexing") /\ ~ (AllFailed(i) /\ Runs(i) # {})
    BY <1>2, <2>3, HonestGoto DEF JoinWorkers, Joined, GoLive
  <2> QED
    BY <1>2, <2>1, <2>2, <2>3 DEF JoinWorkers
<1>3. CASE CheckCancelled(i)
  <2>1. CASE MainGoto(i, "aborting")
    BY <1>3, <2>1, HonestGoto DEF CheckCancelled, GoLive
  <2>2. CASE MainGoto(i, "manifest")
    <3>1. Runs(i) # {} => ~ AllFailed(i)
      BY <1>3 DEF CheckCancelled, SomeRunUsable
    <3> QED
      BY <1>3, <2>2, <3>1, HonestGoto DEF CheckCancelled, GoLive
  <2> QED
    BY <1>3, <2>1, <2>2 DEF CheckCancelled
<1>4. CASE AbortRemove(i)
  <2>1. PICK a \in sink[i] : sink' = [sink EXCEPT ![i] = @ \ {a}]
    BY <1>4 DEF AbortRemove
  <2>2. RecordsDescribed'
    BY <1>4, <2>1 DEF AbortRemove, RecordsDescribed
  <2>3. NothingBeforeDecoding'
    BY <1>4, <2>1 DEF AbortRemove, NothingBeforeDecoding
  <2> QED
    BY <1>4, <2>2, <2>3, UsableKept DEF AbortRemove, HonestParts, RequestedRun,
                                        StatusHonest
<1>5. CASE AbortDone(i)
  BY <1>0, <1>5, HonestExit DEF AbortDone, GoEnded
<1>6. CASE WriteManifest(i)
  <2>1. Exit(i, "exit0") /\ opt' = opt
    BY <1>6 DEF WriteManifest
  <2>2. \A j \in Invocation : j # i =>
          /\ go'[j] = go[j] /\ worker'[j] = worker[j]
          /\ sink'[j] = sink[j] /\ listed'[j] = listed[j]
          /\ unopened'[j] = unopened[j]
    BY <2>1 DEF Exit
  <2>3. go'[i] = "exit0"
    BY <2>1 DEF Exit
  <2>4. RequestedRun'
    BY <2>1, <2>2, <2>3 DEF RequestedRun
  <2>5. RecordsDescribed'
    BY <2>1, <2>2, <2>3 DEF RecordsDescribed
  <2>6. SomeRunUsable'
    BY <2>1, <2>2, <2>3 DEF SomeRunUsable, Runs, AllFailed
  <2>7. NothingBeforeDecoding'
    BY <1>0, <1>6, <2>2, <2>3 DEF WriteManifest, NothingBeforeDecoding
  <2> QED
    BY <1>6, <2>4, <2>5, <2>6, <2>7, HonestCommit DEF HonestParts
<1> QED
  BY <1>1, <1>2, <1>3, <1>4, <1>5, <1>6 DEF MainStep

\* A goroutine that moves to another state, dropping its descriptors and
\* warnings only when it fails.
LEMMA HonestGoroutine ==
  ASSUME HonestInv, NEW i \in Invocation, NEW p \in Protocol, NEW s \in WorkerState,
         go[i] = "decoding", Goto(i, p, s),
         UNCHANGED <<manifest, opt, sink, py, go>>,
         worker[i][p] \notin WorkerDone, s # "not_requested",
         \/ listed' = listed
         \/ s = "failed" /\ listed' = [listed EXCEPT ![i] = @ \ Of(p)],
         \/ unopened' = unopened
         \/ s = "failed" /\ unopened' = [unopened EXCEPT ![i] = @ \ Of(p)],
         p \notin StreamProtocol /\ s = "success"
           => Of(p) \subseteq listed[i] \cup unopened[i]
  PROVE  HonestParts'
<1> USE DEF HonestInv, TypeOK
<1>1. /\ \A j \in Invocation : j # i => /\ worker'[j] = worker[j]
                                       /\ listed'[j] = listed[j]
                                       /\ unopened'[j] = unopened[j]
      /\ worker'[i][p] = s
      /\ \A q \in Protocol : q # p => worker'[i][q] = worker[i][q]
  BY DEF Goto
<1>2. RequestedRun'
  BY <1>1, SMTT(40) DEF RequestedRun, WorkerDone
<1>3. RecordsDescribed'
  <2>1. \A q \in Protocol : q # p => Of(p) \cap Of(q) = {}
    BY DEF Of
  <2>2. ASSUME NEW q \in Protocol \ StreamProtocol
        PROVE  /\ worker'[i][q] \notin WorkerDone => sink'[i] \cap Of(q) \subseteq listed'[i]
               /\ worker'[i][q] = "success"
                    => Of(q) \subseteq listed'[i] \cup unopened'[i]
    <3>1. CASE q = p
      BY <1>1, <3>1 DEF RecordsDescribed, WorkerDone
    <3>2. CASE q # p
      BY <1>1, <2>1, <3>2 DEF RecordsDescribed
    <3> QED
      BY <3>1, <3>2
  <2> QED
    BY <1>1, <2>2 DEF RecordsDescribed, Of
<1>4. SomeRunUsable'
  BY <1>1, UsableKept
<1>5. StatusHonest'
  BY DEF StatusHonest
<1>6. NothingBeforeDecoding'
  BY DEF NothingBeforeDecoding
<1> QED
  BY <1>2, <1>3, <1>4, <1>5, <1>6 DEF HonestParts

\* A record protocol that returns "success" has published and described every
\* one of its files that it could open.
LEMMA ReturnDescribed ==
  ASSUME HonestInv, NEW i \in Invocation, NEW p \in Protocol \ StreamProtocol,
         NEW waitErr \in BOOLEAN, ReturnRun(i, p),
         FinalStatus(i, p, waitErr) = "success"
  PROVE  Of(p) \subseteq listed[i] \cup unopened[i]
<1>1. Of(p) \cap missed[i] = {}
  BY DEF FinalStatus
<1>2. Of(p) \cap Document = {}
  BY DecodeAssumption DEF Of
<1>3. Of(p) \subseteq sink[i] \cup unopened[i]
  BY <1>1, <1>2 DEF ReturnRun, Handled
<1>4. go[i] = "decoding" /\ worker[i][p] \notin WorkerDone
  BY DEF ReturnRun, At, WorkerDone
<1> QED
  BY <1>3, <1>4 DEF HonestInv, RecordsDescribed

LEMMA HonestWorkerStep ==
  ASSUME HonestInv, NEW i \in Invocation, NEW p \in Protocol, WorkerStep(i, p)
  PROVE  HonestParts'
<1> USE DEF HonestInv, TypeOK, pyVars
<1>1. CASE StreamFails(i, p)
  BY <1>1, HonestGoroutine DEF StreamFails, At, WorkerState, WorkerDone
<1>2. CASE FinishReading(i, p)
  <2>1. PICK s \in {"closing", "closing_empty"} : Goto(i, p, s)
    BY <1>2 DEF FinishReading
  <2> QED
    BY <1>2, <2>1, HonestGoroutine DEF FinishReading, At, WorkerState, WorkerDone
<1>3. ASSUME NEW a \in Artifact, PublishFile(i, p, a) PROVE HonestParts'
  <2>1. /\ go[i] = "decoding" /\ UNCHANGED <<manifest, py, opt, go, worker, unopened>>
        /\ sink' = [sink EXCEPT ![i] = @ \cup {a}]
        /\ listed' = [listed EXCEPT ![i] = @ \cup {a}]
    BY <1>3 DEF PublishFile, MayClose, At
  <2>2. RequestedRun' /\ StatusHonest'
    BY <2>1 DEF RequestedRun, StatusHonest
  <2>3. SomeRunUsable'
    BY <2>1 DEF SomeRunUsable, Runs, AllFailed
  <2>4. NothingBeforeDecoding'
    BY <2>1 DEF NothingBeforeDecoding
  <2>5. RecordsDescribed'
    BY <2>1 DEF RecordsDescribed
  <2> QED
    BY <2>2, <2>3, <2>4, <2>5 DEF HonestParts
<1>4. CASE ReturnRun(i, p)
  <2>1. PICK waitErr \in BOOLEAN : Goto(i, p, FinalStatus(i, p, waitErr))
    BY <1>4 DEF ReturnRun
  <2>2. FinalStatus(i, p, waitErr) \in WorkerState \ {"not_requested"}
    BY FinalStatusType DEF WorkerState, FinalStatus, WorkerDone
  <2>3. p \notin StreamProtocol /\ FinalStatus(i, p, waitErr) = "success"
          => Of(p) \subseteq listed[i] \cup unopened[i]
    BY <1>4, ReturnDescribed
  <2>4. /\ go[i] = "decoding" /\ worker[i][p] \notin WorkerDone
        /\ UNCHANGED <<manifest, opt, sink, py, go, unopened, listed>>
    BY <1>4 DEF ReturnRun, At, WorkerDone
  <2> HIDE DEF HonestInv, TypeOK
  <2> QED
    BY <2>1, <2>2, <2>3, <2>4, HonestGoroutine
<1> QED
  BY <1>1, <1>2, <1>3, <1>4 DEF WorkerStep

LEMMA HonestGoFault ==
  ASSUME HonestInv, NEW i \in Invocation, GoFault(i)
  PROVE  HonestParts'
<1> USE DEF HonestInv, TypeOK, pyVars
<1>1. \A j \in Invocation : go[j] \in GoLive => py[j] \notin {"idle", "copying"}
  BY DEF NothingBeforeDecoding, GoLive
<1>2. CASE PreflightFails(i)
  BY <1>1, <1>2, HonestExit DEF PreflightFails, GoEnded, GoLive
<1>3. CASE GoCrash(i)
  BY <1>1, <1>3, HonestExit DEF GoCrash, GoEnded
<1>4. CASE ManifestFails(i)
  BY <1>1, <1>4, HonestExit DEF ManifestFails, GoEnded, GoLive
<1>5. ASSUME NEW p \in Protocol, TruncatedRecord(i, p) PROVE HonestParts'
  BY <1>5, HonestGoroutine DEF TruncatedRecord, At, WorkerState, WorkerDone
<1>6. ASSUME NEW p \in Protocol, Panic(i, p) PROVE HonestParts'
  BY <1>6, HonestGoroutine DEF Panic, At, WorkerState, WorkerDone
<1>7. ASSUME NEW p \in Protocol, NEW a \in Artifact, PublishFails(i, p, a)
      PROVE  HonestParts'
  <2>1. /\ go[i] = "decoding" /\ worker[i][p] \notin WorkerDone
        /\ UNCHANGED <<manifest, opt, sink, py, go, unopened>>
    BY <1>7 DEF PublishFails, MayClose, At, WorkerDone
  <2>2. CASE Goto(i, p, "failed") /\ listed' = [listed EXCEPT ![i] = @ \ Of(p)]
    BY <2>1, <2>2, HonestGoroutine DEF WorkerState, WorkerDone
  <2>3. CASE UNCHANGED <<worker, listed>>
    <3>1. RequestedRun' /\ NothingBeforeDecoding' /\ RecordsDescribed' /\ StatusHonest'
      BY <2>1, <2>3 DEF RequestedRun, NothingBeforeDecoding, RecordsDescribed, StatusHonest
    <3>2. SomeRunUsable'
      BY <2>1, <2>3 DEF SomeRunUsable, Runs, AllFailed
    <3> QED
      BY <3>1, <3>2 DEF HonestParts
  <2> QED
    BY <1>7, <2>2, <2>3 DEF PublishFails
<1>8. ASSUME NEW p \in Protocol, RawSinkFails(i, p) PROVE HonestParts'
  <2>1. /\ UNCHANGED <<manifest, py, opt, go, worker, sink, listed>>
        /\ \A j \in Invocation : unopened[j] \subseteq unopened'[j]
    BY <1>8 DEF RawSinkFails
  <2>2. RequestedRun' /\ NothingBeforeDecoding' /\ StatusHonest'
    BY <2>1 DEF RequestedRun, NothingBeforeDecoding, StatusHonest
  <2>3. RecordsDescribed'
    BY <2>1 DEF RecordsDescribed
  <2>4. SomeRunUsable'
    BY <2>1 DEF SomeRunUsable, Runs, AllFailed
  <2> QED
    BY <2>2, <2>3, <2>4 DEF HonestParts
<1> QED
  BY <1>2, <1>3, <1>4, <1>5, <1>6, <1>7, <1>8 DEF GoFault

LEMMA HonestWrapper ==
  ASSUME HonestInv, ValidatesWhatItRead, NEW i \in Invocation,
         Request(i) \/ WrapperStep(i) \/ WrapperDies(i)
  PROVE  HonestParts'
<1> USE DEF HonestInv, TypeOK, goVars
<1> DEFINE Started ==
      /\ UNCHANGED <<manifest, opt, worker, sink, unopened, listed>>
      /\ go' = go \/ (go[i] = "none" /\ go' = [go EXCEPT ![i] = "preflight"])
      /\ \A j \in Invocation : py'[j] \in {"idle", "copying"} =>
           go'[j] = go[j] /\ py[j] \in {"idle", "copying"}
<1>1. Started => HonestParts'
  <2> SUFFICES ASSUME Started PROVE HonestParts'
    OBVIOUS
  <2>1. \A j \in Invocation : go'[j] = go[j] \/ (go[j] = "none" /\ go'[j] = "preflight")
    OBVIOUS
  <2>2. RequestedRun' /\ StatusHonest'
    BY <2>1 DEF RequestedRun, StatusHonest
  <2>3. NothingBeforeDecoding'
    BY <2>1 DEF NothingBeforeDecoding
  <2>4. RecordsDescribed'
    BY <2>1 DEF RecordsDescribed
  <2>5. SomeRunUsable'
    BY <2>1, UsableKept
  <2> QED
    BY <2>2, <2>3, <2>4, <2>5 DEF HonestParts
<1>2. CASE StartWrapper(i)
  BY <1>1, <1>2 DEF StartWrapper, StartChild, Called, NothingBeforeDecoding
<1>3. CASE FinishCopy(i)
  BY <1>1, <1>3 DEF FinishCopy, StartChild, NothingBeforeDecoding
<1>4. CASE Timeout(i)
  <2>1. CASE Exit(i, "killed")
    BY <1>4, <2>1, HonestExit DEF Timeout, GoEnded
  <2>2. CASE UNCHANGED <<go, worker, sink, missed, unopened, listed>>
    BY <1>1, <1>4, <2>2 DEF Timeout
  <2> QED
    BY <1>4, <2>1, <2>2 DEF Timeout
<1>5. CASE GraceExpires(i)
  BY <1>5, HonestExit DEF GraceExpires, GoEnded, pyVars
<1>6. CASE ReadManifest(i)
  BY <1>1, <1>6 DEF ReadManifest
<1>7. CASE ValidateArtifacts(i)
  <2>1. \A j \in Invocation : j # i => py'[j] = py[j]
    BY <1>7 DEF ValidateArtifacts
  <2>2. got[i].status \in ManifestStatus
    BY <1>7 DEF ValidateArtifacts, ValidatesWhatItRead, Manifest
  <2>3. py'[i] \notin {"idle", "copying"}
    BY <1>7, <2>2 DEF ValidateArtifacts, ManifestStatus
  <2> QED
    BY <1>1, <1>7, <2>1, <2>3 DEF ValidateArtifacts
<1>8. CASE WrapperDies(i)
  BY <1>1, <1>8 DEF WrapperDies
<1>9. CASE RefuseRequest(i) \/ CopyFails(i)
  BY <1>1, <1>9 DEF RefuseRequest, CopyFails
<1> QED
  BY <1>2, <1>3, <1>4, <1>5, <1>6, <1>7, <1>8, <1>9 DEF WrapperStep, Request

LEMMA HonestStep == TypeInv /\ HonestInv /\ [Next]_vars => HonestInv'
<1> SUFFICES ASSUME TypeInv, HonestInv, [Next]_vars PROVE HonestParts'
  <2>1. TypeInv' /\ HonestParts' => HonestInv'
    BY DEF HonestInv, HonestParts, TypeInv, TInv
  <2> QED
    BY <2>1, TypeStep
<1>1. CASE UNCHANGED vars
  BY <1>1 DEF HonestInv, HonestParts, RequestedRun, NothingBeforeDecoding,
              RecordsDescribed, SomeRunUsable, StatusHonest, Runs, AllFailed, vars,
              pyVars, goVars
<1>2. CASE Next
  BY <1>2, HonestMainStep, HonestWorkerStep, HonestGoFault, HonestWrapper
  DEF Next, GoStep, TypeInv
<1> QED
  BY <1>1, <1>2

\* A published manifest never hides a failure: it is not "failed", and when it
\* says "success" every requested protocol succeeded or saw no traffic, and
\* each record protocol that saw packets has all of its files in the manifest,
\* but for a raw file that the manifest's warnings name as not opened.
\* This needs no assumption on the faults.
THEOREM StatusAlwaysHonest == Spec => []StatusHonest
<1>1. Spec => []TypeInv
  BY TypeInit, TypeStep, PTL DEF Spec
<1>2. Spec => []HonestInv
  BY <1>1, HonestInit, HonestStep, PTL DEF Spec
<1>3. HonestInv => StatusHonest
  BY DEF HonestInv
<1> QED
  BY <1>2, <1>3, PTL

-----------------------------------------------------------------------------
(* An aborted child leaves nothing, whatever other children do: the second *)
(* theorem that survives the death of a wrapper.                           *)

\* While a child lives, every file of its own in decoder/ is on its list.
OwnFilesListed ==
  \A i \in Invocation :
    /\ go[i] \in {"none", "preflight"} => \A a \in Artifact : disk[a] # i
    /\ go[i] \in GoLive => \A a \in Artifact : disk[a] = i => a \in sink[i]

CleanInv == OwnFilesListed /\ AbortLeavesNothing

LEMMA CleanInit == Init => CleanInv
BY DecodeAssumption DEF Init, CleanInv, OwnFilesListed, AbortLeavesNothing

\* No file and no list changes; a child is started or moves on.
LEMMA CleanQuiet ==
  ASSUME CleanInv, UNCHANGED <<disk, sink>>,
         \A j \in Invocation :
           \/ go'[j] = go[j]
           \/ go[j] = "none" /\ go'[j] = "preflight"
           \/ go[j] \in GoLive /\ go'[j] \in GoLive \ {"preflight"}
  PROVE  CleanInv'
BY DEF CleanInv, OwnFilesListed, AbortLeavesNothing, GoLive

\* A child ends by any way but abortPublished.
LEMMA CleanExit ==
  ASSUME TypeOK, CleanInv, NEW i \in Invocation, NEW code \in GoEnded \ {"aborted"},
         Exit(i, code), disk' = disk
  PROVE  CleanInv'
<1>1. /\ go'[i] = code
      /\ \A j \in Invocation : j # i => go'[j] = go[j] /\ sink'[j] = sink[j]
  BY DEF TypeOK, Exit
<1> QED
  BY <1>1 DEF CleanInv, OwnFilesListed, AbortLeavesNothing, GoLive, GoEnded

LEMMA CleanMainStep ==
  ASSUME TypeOK, CleanInv, NEW i \in Invocation, MainStep(i)
  PROVE  CleanInv'
<1>1. CASE Preflight(i)
  <2>1. CASE Exit(i, "exit2")
    BY <1>1, <2>1, CleanExit DEF Preflight, GoEnded
  <2>2. CASE StartWorkers(i)
    BY <1>1, <2>2, CleanQuiet DEF Preflight, StartWorkers, TypeOK, GoLive
  <2> QED
    BY <1>1, <2>1, <2>2 DEF Preflight
<1>2. CASE JoinWorkers(i)
  <2>1. CASE Exit(i, "exit4")
    BY <1>2, <2>1, CleanExit DEF JoinWorkers, GoEnded
  <2>2. ASSUME NEW s \in {"aborting", "indexing"}, MainGoto(i, s) PROVE CleanInv'
    BY <1>2, <2>2, CleanQuiet DEF JoinWorkers, Joined, MainGoto, TypeOK, GoLive
  <2> QED
    BY <1>2, <2>1, <2>2 DEF JoinWorkers
<1>3. CASE CheckCancelled(i)
  BY <1>3, CleanQuiet DEF CheckCancelled, MainGoto, TypeOK, GoLive
<1>4. CASE AbortRemove(i)
  <2>1. PICK a \in sink[i] : /\ disk' = [disk EXCEPT ![a] = NoFile]
                             /\ sink' = [sink EXCEPT ![i] = @ \ {a}]
    BY <1>4 DEF AbortRemove
  <2>2. go' = go /\ go[i] = "aborting" /\ a \in Artifact
    BY <1>4 DEF AbortRemove, TypeOK
  <2>3. \A b \in Artifact : disk'[b] = IF b = a THEN NoFile ELSE disk[b]
    BY <2>1 DEF TypeOK
  <2>4. \A j \in Invocation : sink'[j] = IF j = i THEN sink[i] \ {a} ELSE sink[j]
    BY <2>1 DEF TypeOK
  <2> QED
    BY <2>2, <2>3, <2>4, DecodeAssumption DEF CleanInv, OwnFilesListed, AbortLeavesNothing
<1>5. CASE AbortDone(i)
  <2>1. /\ go'[i] = "aborted" /\ disk' = disk
        /\ \A j \in Invocation : j # i => go'[j] = go[j] /\ sink'[j] = sink[j]
    BY <1>5 DEF AbortDone, Exit, TypeOK
  <2>2. \A a \in Artifact : disk[a] # i
    BY <1>5 DEF AbortDone, CleanInv, OwnFilesListed, GoLive
  <2> QED
    BY <2>1, <2>2 DEF CleanInv, OwnFilesListed, AbortLeavesNothing, GoLive
<1>6. CASE WriteManifest(i)
  BY <1>6, CleanExit DEF WriteManifest, GoEnded
<1> QED
  BY <1>1, <1>2, <1>3, <1>4, <1>5, <1>6 DEF MainStep

LEMMA CleanWorkerStep ==
  ASSUME TypeOK, CleanInv, NEW i \in Invocation, NEW p \in Protocol, WorkerStep(i, p)
  PROVE  CleanInv'
<1>1. CASE StreamFails(i, p) \/ FinishReading(i, p) \/ ReturnRun(i, p)
  BY <1>1, CleanQuiet DEF StreamFails, FinishReading, ReturnRun
<1>2. ASSUME NEW a \in Artifact, PublishFile(i, p, a) PROVE CleanInv'
  <2>1. /\ disk' = [disk EXCEPT ![a] = i]
        /\ sink' = [sink EXCEPT ![i] = @ \cup {a}]
        /\ go' = go /\ go[i] = "decoding"
    BY <1>2 DEF PublishFile, MayClose, At
  <2>2. \A b \in Artifact : disk'[b] = IF b = a THEN i ELSE disk[b]
    BY <2>1 DEF TypeOK
  <2>3. \A j \in Invocation : sink'[j] = IF j = i THEN sink[i] \cup {a} ELSE sink[j]
    BY <2>1 DEF TypeOK
  <2> QED
    BY <2>1, <2>2, <2>3 DEF CleanInv, OwnFilesListed, AbortLeavesNothing, GoLive
<1> QED
  BY <1>1, <1>2 DEF WorkerStep

LEMMA CleanGoFault ==
  ASSUME TypeOK, CleanInv, NEW i \in Invocation, GoFault(i)
  PROVE  CleanInv'
<1>1. CASE PreflightFails(i) \/ GoCrash(i) \/ ManifestFails(i)
  BY <1>1, CleanExit DEF PreflightFails, GoCrash, ManifestFails, GoEnded
<1>2. ASSUME NEW p \in Protocol, TruncatedRecord(i, p) \/ Panic(i, p) \/ RawSinkFails(i, p)
      PROVE  CleanInv'
  BY <1>2, CleanQuiet DEF TruncatedRecord, Panic, RawSinkFails
<1>3. ASSUME NEW p \in Protocol, NEW a \in Artifact, PublishFails(i, p, a) PROVE CleanInv'
  BY <1>3, CleanQuiet DEF PublishFails
<1> QED
  BY <1>1, <1>2, <1>3 DEF GoFault

LEMMA CleanWrapper ==
  ASSUME TypeOK, NothingBeforeDecoding, CleanInv, NEW i \in Invocation,
         Request(i) \/ WrapperStep(i) \/ WrapperDies(i)
  PROVE  CleanInv'
<1>1. CASE StartWrapper(i) \/ FinishCopy(i)
  BY <1>1, CleanQuiet DEF StartWrapper, StartChild, FinishCopy, NothingBeforeDecoding,
                         Called, TypeOK
<1>2. CASE Timeout(i)
  <2>1. CASE Exit(i, "killed")
    BY <1>2, <2>1, CleanExit DEF Timeout, GoEnded
  <2>2. CASE UNCHANGED <<go, sink>>
    BY <1>2, <2>2, CleanQuiet DEF Timeout
  <2> QED
    BY <1>2, <2>1, <2>2 DEF Timeout
<1>3. CASE GraceExpires(i)
  BY <1>3, CleanExit DEF GraceExpires, GoEnded
<1>4. CASE ReadManifest(i) \/ ValidateArtifacts(i) \/ WrapperDies(i)
  BY <1>4, CleanQuiet DEF ReadManifest, ValidateArtifacts, WrapperDies, goVars
<1>5. CASE RefuseRequest(i) \/ CopyFails(i)
  BY <1>5, CleanQuiet DEF RefuseRequest, CopyFails, goVars
<1> QED
  BY <1>1, <1>2, <1>3, <1>4, <1>5 DEF WrapperStep, Request

LEMMA CleanStep == HonestInv /\ CleanInv /\ [Next]_vars => CleanInv'
<1> SUFFICES ASSUME HonestInv, CleanInv, [Next]_vars PROVE CleanInv'
  OBVIOUS
<1>1. TypeOK /\ NothingBeforeDecoding
  BY DEF HonestInv
<1>2. CASE UNCHANGED vars
  BY <1>2, CleanQuiet DEF vars, goVars
<1>3. CASE Next
  BY <1>1, <1>3, CleanMainStep, CleanWorkerStep, CleanGoFault, CleanWrapper
  DEF Next, GoStep
<1> QED
  BY <1>2, <1>3

\* A child that was cancelled and cleaned up leaves none of its files behind,
\* whatever its goroutines had done before and whoever else writes decoder/.
THEOREM AbortAlwaysClean == Spec => []AbortLeavesNothing
<1>1. Spec => []TypeInv
  BY TypeInit, TypeStep, PTL DEF Spec
<1>2. Spec => []HonestInv
  BY <1>1, HonestInit, HonestStep, PTL DEF Spec
<1>3. CleanInv => AbortLeavesNothing
  BY DEF CleanInv
<1> QED
  BY <1>2, <1>3, CleanInit, CleanStep, PTL DEF Spec

-----------------------------------------------------------------------------
(* The run directory implements DecodeGeneration.                          *)

LEMMA RefinementInit == Init => RefinementInv
BY DEF Init, RefinementInv, ReadsTheGeneration, CopiedBeforeDecoding

\* No step leaves a wrapper with an outdated manifest, and no child starts
\* over a partly copied capture.
LEMMA RefinementStep ==
  ASSUME "wrapper_death" \notin Faults
  PROVE  IInv /\ RefinementInv /\ [Next]_vars => RefinementInv'
<1> SUFFICES ASSUME IInv, RefinementInv, [Next]_vars PROVE RefinementInv'
  OBVIOUS
<1> USE DEF IInv, TypeOK
<1> DEFINE Quiet(i) == /\ go[i] # "none" /\ UNCHANGED <<source, manifest, got>>
                       /\ \A j \in Invocation : j # i => go'[j] = go[j] /\ py'[j] = py[j]
                       /\ py'[i] \notin {"copying", "validating"}
<1>1. ASSUME NEW i \in Invocation, Quiet(i) PROVE RefinementInv'
  <2>1. source = "whole"
    BY <1>1 DEF RefinementInv, CopiedBeforeDecoding
  <2> QED
    BY <1>1, <2>1 DEF RefinementInv, ReadsTheGeneration, CopiedBeforeDecoding
<1>2. CASE UNCHANGED vars
  BY <1>2 DEF RefinementInv, ReadsTheGeneration, CopiedBeforeDecoding, vars, pyVars, goVars
<1>3. ASSUME NEW i \in Invocation, MainStep(i) PROVE RefinementInv'
  <2>1. go[i] \in GoLive /\ py[i] \in {"waiting", "terminating"}
    BY <1>3 DEF MainStep, Preflight, JoinWorkers, Joined, CheckCancelled, AbortRemove,
                AbortDone, WriteManifest, GoLive, OneActive
  <2>2. UNCHANGED <<source, py, got>>
    BY <1>3 DEF MainStep, Preflight, JoinWorkers, CheckCancelled, AbortRemove,
                AbortDone, WriteManifest, pyVars
  <2>3. source = "whole"
    BY <2>1 DEF RefinementInv, CopiedBeforeDecoding, GoLive
  <2>4. \A j \in Invocation : py[j] # "validating"
    BY <2>1 DEF OneActive, PyActive
  <2> QED
    BY <2>2, <2>3, <2>4 DEF RefinementInv, ReadsTheGeneration, CopiedBeforeDecoding
<1>4. ASSUME NEW i \in Invocation, NEW p \in Protocol, WorkerStep(i, p)
      PROVE  RefinementInv'
  <2>1. UNCHANGED <<source, manifest, py, got, go>>
    BY <1>4 DEF WorkerStep, StreamFails, FinishReading, PublishFile, ReturnRun, pyVars
  <2> QED
    BY <2>1 DEF RefinementInv, ReadsTheGeneration, CopiedBeforeDecoding
<1>5. ASSUME NEW i \in Invocation, GoFault(i) PROVE RefinementInv'
  <2>1. go[i] \in GoLive
    BY <1>5 DEF GoFault, PreflightFails, GoCrash, ManifestFails, TruncatedRecord,
                Panic, PublishFails, RawSinkFails, MayClose, At, GoLive
  <2>2. UNCHANGED <<source, manifest, py, got>>
    BY <1>5, GoLeavesWrapper DEF pyVars, GoFault, PreflightFails, GoCrash, ManifestFails,
                TruncatedRecord, Panic, PublishFails, RawSinkFails
  <2>3. source = "whole"
    BY <2>1 DEF RefinementInv, CopiedBeforeDecoding, GoLive
  <2> QED
    BY <2>2, <2>3 DEF RefinementInv, ReadsTheGeneration, CopiedBeforeDecoding
<1>6. ASSUME NEW i \in Invocation, StartWrapper(i) PROVE RefinementInv'
  <2>1. /\ py[i] = "idle" /\ UNCHANGED <<manifest, got>>
        /\ \A j \in Invocation : j # i => py'[j] = py[j] /\ go'[j] = go[j]
        /\ \A j \in Invocation : py[j] \notin PyActive
    BY <1>6 DEF StartWrapper, StartChild, Called
  <2>2. \/ source = "absent" /\ source' = "torn" /\ py'[i] = "copying" /\ go' = go
        \/ source = "torn" /\ source' = "torn" /\ py'[i] = "refused" /\ go' = go
        \/ source = "whole" /\ source' = "whole" /\ py'[i] = "waiting"
    BY <1>6 DEF StartWrapper, StartChild
  <2> QED
    BY <2>1, <2>2 DEF RefinementInv, ReadsTheGeneration, CopiedBeforeDecoding, PyActive
<1>7. ASSUME NEW i \in Invocation, FinishCopy(i) PROVE RefinementInv'
  <2>1. /\ py' = [py EXCEPT ![i] = "waiting"] /\ source' = "whole"
        /\ py[i] = "copying" /\ UNCHANGED <<manifest, got>>
    BY <1>7 DEF FinishCopy, StartChild
  <2>2. \A j \in Invocation : py'[j] # "copying"
    BY <2>1 DEF OneActive, PyActive
  <2> QED
    BY <2>1, <2>2 DEF RefinementInv, ReadsTheGeneration, CopiedBeforeDecoding
<1>8. ASSUME NEW i \in Invocation, Timeout(i) \/ GraceExpires(i) PROVE RefinementInv'
  <2>1. go[i] \in GoLive /\ py[i] \in {"waiting", "terminating"}
    BY <1>8 DEF Timeout, GraceExpires
  <2>2. py' = py \/ py' = [py EXCEPT ![i] = "terminating"]
    BY <1>8 DEF Timeout, GraceExpires, pyVars
  <2>3. \A j \in Invocation : j # i => go'[j] = go[j]
    BY <1>8 DEF Timeout, GraceExpires, Exit
  <2>4. Quiet(i)
    BY <1>8, <2>1, <2>2, <2>3 DEF Timeout, GraceExpires, GoLive, pyVars
  <2> QED
    BY <1>1, <2>4
<1>9. ASSUME NEW i \in Invocation, ReadManifest(i) PROVE RefinementInv'
  <2>1. source = "whole"
    BY <1>9 DEF ReadManifest, RefinementInv, CopiedBeforeDecoding, GoEnded
  <2> QED
    BY <1>9, <2>1 DEF ReadManifest, RefinementInv, ReadsTheGeneration, CopiedBeforeDecoding
<1>10. ASSUME NEW i \in Invocation, ValidateArtifacts(i) PROVE RefinementInv'
  <2>1. /\ \A j \in Invocation : j # i => py'[j] = py[j]
        /\ py[i] = "validating"
        /\ py'[i] \in {"fatal", "invalid", got[i].status}
        /\ UNCHANGED <<source, manifest, got, go>>
    BY <1>10 DEF ValidateArtifacts, goVars
  <2>2. got[i].status \in ManifestStatus
    BY <2>1 DEF ValidatesWhatItRead, Manifest
  <2> QED
    BY <2>1, <2>2 DEF ManifestStatus, RefinementInv, ReadsTheGeneration, CopiedBeforeDecoding
<1>11. ASSUME NEW i \in Invocation, CopyFails(i) PROVE RefinementInv'
  <2>1. /\ py[i] = "copying" /\ py' = [py EXCEPT ![i] = "refused"]
        /\ UNCHANGED <<manifest, got, go>>
    BY <1>11 DEF CopyFails, goVars
  <2>2. \A j \in Invocation : py'[j] # "copying"
    BY <2>1 DEF OneActive, PyActive
  <2> QED
    BY <2>1, <2>2 DEF RefinementInv, ReadsTheGeneration, CopiedBeforeDecoding
<1>12. ASSUME NEW i \in Invocation, RefuseRequest(i) PROVE RefinementInv'
  BY <1>12 DEF RefuseRequest, RefinementInv, ReadsTheGeneration, CopiedBeforeDecoding,
               goVars
<1> QED
  BY <1>2, <1>3, <1>4, <1>5, <1>6, <1>7, <1>8, <1>9, <1>10, <1>11, <1>12
  DEF Next, GoStep, Request, WrapperStep, WrapperDies

\* Of all steps only four are visible: the commit of the manifest, a refusal, a
\* fatal ReadManifest and the end of a validation.  A validation accepts, because
\* what it read is the generation and the generation is backed and not failed.
LEMMA StepImplements ==
  ASSUME "wrapper_death" \notin Faults
  PROVE  IInv /\ IInv' /\ RefinementInv /\ HonestInv /\ HonestInv' /\ [Next]_vars
           => [Generation!GenNext]_(Generation!genVars)
<1> SUFFICES ASSUME IInv, IInv', RefinementInv, HonestInv, HonestInv', [Next]_vars
             PROVE  [Generation!GenNext]_(Generation!genVars)
  OBVIOUS
<1> USE DEF IInv, TypeOK
<1> DEFINE Hidden == UNCHANGED <<manifest, Verdict>>
<1>1. py' = py => Verdict' = Verdict
  BY DEF Verdict
<1>2. ASSUME NEW i \in Invocation, NEW s \in PyActive, py[i] \notin Returned,
             py' = [py EXCEPT ![i] = s]
      PROVE  Verdict' = Verdict
  BY <1>2 DEF Verdict, PyActive, Returned, Accepted
<1>3. CASE UNCHANGED vars
  BY <1>1, <1>3 DEF vars, pyVars, Generation!genVars
<1>4. ASSUME NEW i \in Invocation, MainStep(i)
      PROVE  Hidden \/ Generation!Publish
  <2>1. Verdict' = Verdict
    BY <1>1, <1>4, GoLeavesWrapper DEF GoStep, pyVars
  <2>2. CASE WriteManifest(i)
    <3>1. manifest = NoManifest
      BY <2>2 DEF WriteManifest, UncommittedWhileDecoding, GoLive
    <3>2. manifest' \in Manifest
      <4>1. manifest'.by = i /\ manifest' = [by |-> i, files |-> listed[i],
                unretained |-> unopened[i], protocols |-> worker[i],
                status |-> OverallStatus(i)]
        BY <2>2 DEF WriteManifest
      <4>2. worker[i] \in [Protocol -> WorkerDone]
        BY <2>2 DEF WriteManifest, JoinedWhenDone
      <4> QED
        BY <4>1, <4>2, OverallStatusType DEF Manifest
    <3>3. manifest'.status # "failed"
      BY <3>2, DecodeAssumption DEF HonestInv, StatusHonest
    <3> QED
      BY <2>1, <3>1, <3>2, <3>3 DEF Generation!Publish
  <2>3. CASE ~ WriteManifest(i)
    BY <1>4, <2>1, <2>3 DEF MainStep, Preflight, JoinWorkers, CheckCancelled,
                            AbortRemove, AbortDone
  <2> QED
    BY <2>2, <2>3
<1>5. ASSUME NEW i \in Invocation, NEW p \in Protocol, WorkerStep(i, p) PROVE Hidden
  BY <1>1, <1>5 DEF WorkerStep, StreamFails, FinishReading, PublishFile, ReturnRun, pyVars
<1>6. ASSUME NEW i \in Invocation, GoFault(i) PROVE Hidden
  BY <1>1, <1>6 DEF GoFault, PreflightFails, GoCrash, ManifestFails, TruncatedRecord,
                    Panic, PublishFails, RawSinkFails, pyVars
<1>7. ASSUME NEW i \in Invocation, Request(i) \/ CopyFails(i)
      PROVE  Hidden \/ Generation!Refuse(i)
  <2>1. py[i] \in {"idle", "copying"} /\ manifest' = manifest
    BY <1>7 DEF Request, RefuseRequest, StartWrapper, StartChild, Called, CopyFails
  <2>2. CASE py' = [py EXCEPT ![i] = "refused"]
    <3>1. Verdict[i] = "pending" /\ Verdict' = [Verdict EXCEPT ![i] = "refused"]
      BY <2>1, <2>2 DEF Verdict, Accepted, Returned
    <3> QED
      BY <2>1, <3>1 DEF Generation!Refuse
  <2>3. CASE py' = [py EXCEPT ![i] = "copying"] \/ py' = [py EXCEPT ![i] = "waiting"]
    BY <1>2, <2>1, <2>3 DEF PyActive, Returned
  <2> QED
    BY <1>7, <2>2, <2>3 DEF Request, RefuseRequest, StartWrapper, StartChild, CopyFails
<1>8. ASSUME NEW i \in Invocation, FinishCopy(i) \/ Timeout(i) PROVE Hidden
  BY <1>2, <1>8 DEF FinishCopy, StartChild, Timeout, PyActive, Returned
<1>9. ASSUME NEW i \in Invocation, GraceExpires(i) PROVE Hidden
  BY <1>1, <1>9 DEF GraceExpires, pyVars
<1>10. ASSUME NEW i \in Invocation, ReadManifest(i)
       PROVE  Hidden \/ Generation!Reject(i)
  <2>1. CASE manifest = NoManifest
    <3>1. Verdict[i] = "pending" /\ Verdict' = [Verdict EXCEPT ![i] = "rejected"]
      BY <1>10, <2>1 DEF ReadManifest, Verdict, Accepted, Returned
    <3> QED
      BY <1>10, <2>1, <3>1 DEF ReadManifest, Generation!Reject
  <2>2. CASE manifest # NoManifest
    BY <1>2, <1>10, <2>2 DEF ReadManifest, PyActive, Returned
  <2> QED
    BY <2>1, <2>2
<1>11. ASSUME NEW i \in Invocation, ValidateArtifacts(i)
       PROVE  Generation!Accept(i)
  <2>1. got[i] = manifest /\ manifest # NoManifest /\ manifest \in Manifest
    BY <1>11 DEF ValidateArtifacts, RefinementInv, ReadsTheGeneration, ValidatesWhatItRead
  <2>2. \A a \in manifest.files : Matches(a, manifest)
    BY <2>1, DecodeAssumption DEF ManifestOnDisk, Matches, Manifest
  <2>3. manifest.status \in Accepted /\ manifest.status # "failed"
    BY <2>1 DEF HonestInv, StatusHonest, Manifest, ManifestStatus, Accepted
  <2>4. py' = [py EXCEPT ![i] = manifest.status] /\ py[i] = "validating"
    BY <1>11, <2>1, <2>2, <2>3 DEF ValidateArtifacts
  <2>5. Verdict[i] = "pending" /\ Verdict' = [Verdict EXCEPT ![i] = manifest.status]
    BY <2>3, <2>4 DEF Verdict, Accepted, Returned
  <2> QED
    BY <1>11, <2>1, <2>5 DEF ValidateArtifacts, Generation!Accept
<1> QED
  BY <1>3, <1>4, <1>5, <1>6, <1>7, <1>8, <1>9, <1>10, <1>11
  DEF Next, GoStep, Request, WrapperStep, WrapperDies, Generation!genVars,
      Generation!GenNext

\* If no wrapper dies before its child, the run directory is a write-once
\* generation: the manifest is committed once, never by a failed decode, and a
\* decode whose decoder ran is accepted with the status of the published
\* generation when there is one, and fails when there is none.
THEOREM RunImplementsGeneration ==
  ASSUME "wrapper_death" \notin Faults
  PROVE  Spec => ImplementsGeneration
<1>1. Init => Generation!GenInit
  BY DEF Init, Generation!GenInit, Verdict, Accepted, Returned
<1>2. Spec => []HonestInv
  <2>1. Spec => []TypeInv
    BY TypeInit, TypeStep, PTL DEF Spec
  <2> QED
    BY <2>1, HonestInit, HonestStep, PTL DEF Spec
<1>3. Spec => []RefinementInv
  BY InvariantHolds, RefinementInit, RefinementStep, PTL DEF Spec
<1> QED
  BY <1>1, <1>2, <1>3, InvariantHolds, StepImplements, PTL
  DEF Spec, ImplementsGeneration, Generation!GenSpec

-----------------------------------------------------------------------------
(* Every step of a wrapper brings its result closer: what WrapperReturns   *)
(* rests on besides fairness.                                              *)

\* How many more steps a wrapper takes at most until run_decode returns or
\* raises: the copy, the timeout, the kill, the manifest and its files.
Patience(i) ==
  LET alive == IF go[i] \in GoLive THEN 1 ELSE 0
  IN CASE py[i] = "copying" -> 5
       [] py[i] = "waiting" -> 3 + alive
       [] py[i] = "terminating" -> 2 + alive
       [] py[i] = "validating" -> 1
       [] OTHER -> 0

\* A step of the wrapper itself, under each of its two timers or neither.
LEMMA WrapperCounts ==
  ASSUME TypeInv, NEW i \in Invocation, WrapperStep(i)
  PROVE  Patience(i) \in 1 .. 5 /\ Patience(i)' < Patience(i)
<1> USE DEF TypeInv, TInv, TypeOK
<1>1. CASE FinishCopy(i)
  <2>1. py[i] = "copying" /\ py'[i] = "waiting"
    BY <1>1 DEF FinishCopy, StartChild
  <2>2. Patience(i) = 5 /\ Patience(i)' \in {3, 4}
    BY <2>1 DEF Patience
  <2> QED
    BY <2>2
<1>2. CASE Timeout(i)
  <2>1. py[i] = "waiting" /\ py'[i] = "terminating" /\ go[i] \in GoLive
    BY <1>2 DEF Timeout
  <2>2. Patience(i) = 4 /\ Patience(i)' \in {2, 3}
    BY <2>1 DEF Patience
  <2> QED
    BY <2>2
<1>3. CASE GraceExpires(i)
  <2>1. /\ py[i] = "terminating" /\ py'[i] = "terminating"
        /\ go[i] \in GoLive /\ go'[i] = "killed"
    BY <1>3 DEF GraceExpires, Exit, pyVars
  <2>2. Patience(i) = 3 /\ Patience(i)' = 2
    BY <2>1 DEF Patience, GoLive
  <2> QED
    BY <2>2
<1>4. CASE ReadManifest(i)
  <2>1. py[i] \in {"waiting", "terminating"} /\ py'[i] \in {"fatal", "validating"}
    BY <1>4 DEF ReadManifest
  <2>2. Patience(i) \in {2, 3, 4} /\ Patience(i)' \in {0, 1}
    BY <2>1 DEF Patience
  <2> QED
    BY <2>2
<1>5. CASE ValidateArtifacts(i)
  <2>1. py[i] = "validating" /\ py'[i] \in {"fatal", "invalid", got[i].status}
    BY <1>5 DEF ValidateArtifacts
  <2>2. got[i].status \in ManifestStatus
    BY <2>1 DEF ValidatesWhatItRead, Manifest
  <2>3. Patience(i) = 1 /\ Patience(i)' = 0
    BY <2>1, <2>2 DEF Patience, ManifestStatus
  <2> QED
    BY <2>3
<1>6. CASE CopyFails(i)
  <2>1. py[i] = "copying" /\ py'[i] = "refused"
    BY <1>6 DEF CopyFails
  <2>2. Patience(i) = 5 /\ Patience(i)' = 0
    BY <2>1 DEF Patience
  <2> QED
    BY <2>2
<1> QED
  BY <1>1, <1>2, <1>3, <1>4, <1>5, <1>6 DEF WrapperStep

\* A child never comes back to life by itself, only a wrapper starts one.
LEMMA ChildNeverRevives ==
  ASSUME TypeOK, NEW i \in Invocation, NEW j \in Invocation,
         GoStep(j) \/ GoFault(j), go'[i] \in GoLive
  PROVE  go[i] \in GoLive
<1> USE DEF TypeOK, GoLive
<1>1. CASE MainStep(j)
  BY <1>1 DEF MainStep, Preflight, JoinWorkers, Joined, CheckCancelled, AbortRemove,
              AbortDone, WriteManifest, Exit, StartWorkers, MainGoto
<1>2. ASSUME NEW p \in Protocol, WorkerStep(j, p) PROVE go' = go
  BY <1>2 DEF WorkerStep, StreamFails, FinishReading, PublishFile, ReturnRun
<1>3. CASE GoFault(j)
  BY <1>3 DEF GoFault, PreflightFails, GoCrash, ManifestFails, TruncatedRecord, Panic,
              PublishFails, RawSinkFails, Exit
<1> QED
  BY <1>1, <1>2, <1>3 DEF GoStep

\* Where the wrapper stays, only the start of a child could set it back.
LEMMA PatienceKept ==
  ASSUME NEW i \in Invocation, py'[i] = py[i], go'[i] \in GoLive => go[i] \in GoLive
  PROVE  Patience(i)' <= Patience(i)
<1>1. PICK a \in 0 .. 1, b \in 0 .. 1 :
        /\ a = IF go[i] \in GoLive THEN 1 ELSE 0
        /\ b = IF go'[i] \in GoLive THEN 1 ELSE 0
  OBVIOUS
<1>2. b <= a
  BY <1>1
<1> QED
  BY <1>1, <1>2 DEF Patience

LEMMA OthersWait ==
  ASSUME TypeInv, NEW i \in Invocation, NEW j \in Invocation, py[i] \in PyActive,
         Request(j) \/ WrapperDies(j) \/ GoStep(j) \/ GoFault(j)
           \/ (WrapperStep(j) /\ j # i)
  PROVE  Patience(i)' <= Patience(i)
<1> USE DEF TypeInv, TInv, TypeOK
<1>1. CASE GoStep(j) \/ GoFault(j)
  BY <1>1, GoLeavesWrapper, ChildNeverRevives, PatienceKept DEF pyVars
<1>2. CASE Request(j)
  <2>1. j # i
    BY <1>2 DEF Request, RefuseRequest, StartWrapper, Called, PyActive
  <2>2. py'[i] = py[i] /\ go'[i] = go[i]
    BY <1>2, <2>1 DEF Request, RefuseRequest, StartWrapper, StartChild, goVars
  <2> QED
    BY <2>2, PatienceKept
<1>3. CASE WrapperStep(j) /\ j # i
  <2>1. py'[i] = py[i] /\ go'[i] = go[i]
    BY <1>3 DEF WrapperStep, FinishCopy, StartChild, CopyFails, Timeout, GraceExpires,
                ReadManifest, ValidateArtifacts, Exit, pyVars, goVars
  <2> QED
    BY <2>1, PatienceKept
<1>4. CASE WrapperDies(j)
  <2>1. go' = go /\ (py'[i] = py[i] \/ py'[i] = "dead")
    BY <1>4 DEF WrapperDies, goVars
  <2>2. CASE py'[i] = py[i]
    BY <2>1, <2>2, PatienceKept
  <2>3. CASE py'[i] = "dead"
    <3>1. Patience(i)' = 0
      BY <2>3 DEF Patience
    <3>2. Patience(i) \in 0 .. 5
      BY DEF Patience
    <3> QED
      BY <3>1, <3>2
  <2> QED
    BY <2>1, <2>2, <2>3
<1> QED
  BY <1>1, <1>2, <1>3, <1>4

\* run_decode takes at most five steps, whatever its child does and whichever
\* faults happen: each step of its own leaves fewer, and no step of its child,
\* of another invocation or of the environment gives it more. With the fairness
\* of its timers, this is what WrapperReturns rests on.
THEOREM WrapperStepsCount ==
  Spec => [][\A i \in Invocation :
               /\ WrapperStep(i) => /\ Patience(i) \in 1 .. 5
                                    /\ Patience(i)' < Patience(i)
               /\ py[i] \in PyActive => Patience(i)' <= Patience(i)]_vars
<1>1. ASSUME TypeInv, Next, NEW i \in Invocation
      PROVE  /\ WrapperStep(i) => Patience(i) \in 1 .. 5 /\ Patience(i)' < Patience(i)
             /\ py[i] \in PyActive => Patience(i)' <= Patience(i)
  <2>1. WrapperStep(i) => Patience(i) \in 1 .. 5 /\ Patience(i)' < Patience(i)
    BY <1>1, WrapperCounts
  <2>2. ASSUME py[i] \in PyActive PROVE Patience(i)' <= Patience(i)
    <3>1. CASE WrapperStep(i)
      <4>1. PICK a, b : a = Patience(i) /\ b = Patience(i)'
        OBVIOUS
      <4>2. Patience(i)' \in 0 .. 5
        BY DEF Patience
      <4>3. a \in 1 .. 5 /\ b \in 0 .. 5 /\ b < a
        BY <2>1, <3>1, <4>1, <4>2
      <4> QED
        BY <4>1, <4>3
    <3>2. CASE ~ WrapperStep(i)
      <4>1. PICK j \in Invocation :
              Request(j) \/ WrapperStep(j) \/ WrapperDies(j) \/ GoStep(j) \/ GoFault(j)
        BY <1>1 DEF Next
      <4>2. WrapperStep(j) => j # i
        BY <3>2
      <4> QED
        BY <1>1, <2>2, <4>1, <4>2, OthersWait
    <3> QED
      BY <3>1, <3>2
  <2> QED
    BY <2>1, <2>2
<1>2. Spec => []TypeInv
  BY TypeInit, TypeStep, PTL DEF Spec
<1>3. TypeInv /\ [Next]_vars =>
        [\A i \in Invocation :
               /\ WrapperStep(i) => /\ Patience(i) \in 1 .. 5
                                    /\ Patience(i)' < Patience(i)
               /\ py[i] \in PyActive => Patience(i)' <= Patience(i)]_vars
  BY <1>1
<1> QED
  BY <1>2, <1>3, PTL DEF Spec
=============================================================================
