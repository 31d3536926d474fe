-------------------------- MODULE RenderLifecycle --------------------------
(***************************************************************************)
(* What the owner of a clip is promised (docs/pipeline.md, the transition  *)
(* table of state-machine.ts and states.py): the status moves along the    *)
(* table, a crashed execution starts over from any active status, every    *)
(* attempt begins with a retry of a failed one, COMPLETED is immutable and *)
(* what was removed stays removed.  RenderPipeline implements this.        *)
(***************************************************************************)
EXTENDS Integers

VARIABLES status, attempt

vars == <<status, attempt>>

Active == {"QUEUED", "PREPARING", "ANALYZING_VISUALS", "RENDERING", "UPLOADING"}

Init == status = "QUEUED" /\ attempt = 1

Moves(from, to) == status \in from /\ status' = to /\ attempt' = attempt

Prepare == Moves(Active, "PREPARING")
Analyze == Moves({"PREPARING"}, "ANALYZING_VISUALS")
Encode == Moves({"PREPARING", "ANALYZING_VISUALS"}, "RENDERING")
Upload == Moves({"RENDERING"}, "UPLOADING")
Complete == Moves({"UPLOADING"}, "COMPLETED")
Fail == Moves(Active, "FAILED")

Retry == status = "FAILED" /\ status' = "QUEUED" /\ attempt' = attempt + 1

(* A removed clip has no status and no attempt any more.                   *)
Remove == status' = "removed" /\ attempt' = 0

Next == \/ Prepare \/ Analyze \/ Encode \/ Upload \/ Complete \/ Fail
        \/ Retry \/ Remove

Spec == Init /\ [][Next]_vars
=============================================================================
