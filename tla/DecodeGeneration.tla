--------------------------- MODULE DecodeGeneration ---------------------------
(***************************************************************************)
(* What T01 promises the pipeline about a run directory, without           *)
(* processes, files or signals: at most one decode generation is ever      *)
(* published, it is never one whose decoders all failed, and a decode that *)
(* got as far as its decoder returns exactly the status of the published   *)
(* generation when there is one: it fails only when there is none.         *)
(***************************************************************************)
CONSTANTS Invocation, Manifest, NoManifest

VARIABLES
  generation,  \* the published generation, or NoManifest
  verdict      \* what each decode invocation has returned

genVars == <<generation, verdict>>

GenInit ==
  /\ generation = NoManifest
  /\ verdict = [i \in Invocation |-> "pending"]

\* The one commit of the run directory.
Publish ==
  /\ generation = NoManifest
  /\ generation' \in Manifest
  /\ generation'.status # "failed"
  /\ UNCHANGED verdict

\* A decode is accepted with the status of the generation on disk, its own or
\* the one an earlier decode published.
Accept(i) ==
  /\ verdict[i] = "pending"
  /\ generation # NoManifest
  /\ verdict' = [verdict EXCEPT ![i] = generation.status]
  /\ UNCHANGED generation

\* A request is refused before its decoder starts, whatever was published.
Refuse(i) ==
  /\ verdict[i] = "pending"
  /\ verdict' = [verdict EXCEPT ![i] = "refused"]
  /\ UNCHANGED generation

\* A decode whose decoder ran fails, and nothing is published.
Reject(i) ==
  /\ verdict[i] = "pending"
  /\ generation = NoManifest
  /\ verdict' = [verdict EXCEPT ![i] = "rejected"]
  /\ UNCHANGED generation

GenNext == Publish \/ \E i \in Invocation : Accept(i) \/ Refuse(i) \/ Reject(i)

GenSpec == GenInit /\ [][GenNext]_genVars
=============================================================================
