---------------------- MODULE UpgradeOrchestratorClaims ----------------------
(***************************************************************************)
(* What DetailOPeration.md says of the upgrade orchestrator and its code   *)
(* does not do.  Each is stated as a property of UpgradeOrchestrator; TLC  *)
(* shows a behaviour that violates it.                                     *)
(***************************************************************************)
EXTENDS UpgradeOrchestrator

\* Two versions mean an upgrade, and the state says so: the status update
\* that closes a confirmation leaves UpgradeInProgress behind.
\* (handleAwaitingConfirmationState; the reply of the update before it puts
\* the old state back into the object that is then written.)
ConfirmedUpgradeIsRecorded ==
  [][pc = "recordState" /\ pc' = "idle" /\ obj = cr /\ faults' = faults
       => cr'.state = "UpgradeInProgress"]_vars

\* Once every workload runs on the one version that is left, the operator
\* goes back to NoUpgrade.  (No handler leaves UpgradeInProgress.)
FinishedUpgradeReturns ==
  <>[](SingleVersion /\ AllWorkloadsMigrated /\ ~AnyNodeCordoned)
    => <>[](cr.state = "NoUpgrade")

\* Back in NoUpgrade, the traces of an upgrade are there only if the
\* annotation remembers to remove them.  (handleAwaitingConfirmationState
\* blocks PDBs before it writes the annotation; if the process stops or the
\* write fails in between and the timeout expires, nothing remembers them.)
LockdownIsRemembered ==
  pc = "idle" /\ cr.state = "NoUpgrade" /\ Traces => cr.lastKnown

\* The cleanup that ends an upgrade removes every trace of it, or the
\* annotation stays and it is tried again.  (cleanupGlobalUpgradeArtifacts
\* logs a failed patch and returns no error.)
CleanupLeavesNoTrace == [][cr.lastKnown /\ ~cr'.lastKnown => ~Traces']_vars
=============================================================================
