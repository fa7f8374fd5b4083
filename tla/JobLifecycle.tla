---------------------------- MODULE JobLifecycle ----------------------------
(***************************************************************************)
(* What a user of a SlurmBridgeJob may rely on: the job is new, then       *)
(* active, then finished for good; its result is fetched after it          *)
(* finished, only if it was asked for, and not again once the fetch is     *)
(* recorded as done.                                                       *)
(***************************************************************************)
VARIABLES
  wanted,   \* whether the result is asked for
  phase,    \* of the job
  fetch     \* of the result

lifeVars == <<wanted, phase, fetch>>

LifeInit == wanted \in BOOLEAN /\ phase = "new" /\ fetch = "none"

Activate ==
  /\ phase = "new"
  /\ phase' = "active"
  /\ UNCHANGED <<wanted, fetch>>

Finish ==
  /\ phase \in {"new", "active"}
  /\ phase' \in {"Succeeded", "Failed"}
  /\ UNCHANGED <<wanted, fetch>>

StartFetch ==
  /\ phase \in {"Succeeded", "Failed"} /\ wanted
  /\ fetch = "none" /\ fetch' = "started"
  /\ UNCHANGED <<wanted, phase>>

EndFetch ==
  /\ fetch = "started" /\ fetch' = "done"
  /\ UNCHANGED <<wanted, phase>>

Remove ==
  /\ phase # "gone"
  /\ phase' = "gone" /\ fetch' = "none" /\ wanted' = FALSE

LifeNext == Activate \/ Finish \/ StartFetch \/ EndFetch \/ Remove

LifeSpec == LifeInit /\ [][LifeNext]_lifeVars
=============================================================================
