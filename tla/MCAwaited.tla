------------------------------ MODULE MCAwaited ------------------------------
(***************************************************************************)
(* The lifecycle of a transaction with awaited trackers, the organizations *)
(* and the file of a Cloud transfer, which share no variable, in one run:  *)
(* in a behaviour one of them, the part, acts, and the others keep their   *)
(* initial states.                                                         *)
(***************************************************************************)
EXTENDS MCTxLifecycle, Workspace, ExportFile

VARIABLE part

awaitedVars == <<part, vars, workVars, exportVars>>

AwaitedInit ==
  /\ part \in {"lifecycle", "workspace", "export"}
  /\ Init /\ WorkInit /\ ExportInit

OnlyPart(p) ==
  /\ part = p /\ UNCHANGED part
  /\ IF p = "lifecycle" THEN TRUE ELSE UNCHANGED vars
  /\ IF p = "workspace" THEN TRUE ELSE UNCHANGED workVars
  /\ IF p = "export" THEN TRUE ELSE UNCHANGED exportVars

AwaitedNext ==
  \/ OnlyPart("lifecycle") /\ Next
  \/ OnlyPart("workspace") /\ WorkNext
  \/ OnlyPart("export") /\ ExportNext

AwaitedSpec == AwaitedInit /\ [][AwaitedNext]_awaitedVars
=============================================================================
