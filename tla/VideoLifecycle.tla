--------------------------- MODULE VideoLifecycle ---------------------------
(***************************************************************************)
(* What the owner of a video is promised (docs/pipeline.md, the transition *)
(* tables of state-machine.ts and states.py), without queues, workers,     *)
(* requests or retries: the status moves along the table, every counter    *)
(* moves by one and only with a step that starts a new run, and a READY    *)
(* video shows the moments of its latest analysis run and no others.       *)
(* VideoPipeline implements this specification.                            *)
(***************************************************************************)
EXTENDS Integers

VARIABLES status, run, analysisRun,
          shown,       \* the analysis runs whose moments the owner sees
          deleted

vars == <<status, run, analysisRun, shown, deleted>>

Init == /\ status = "QUEUED" /\ run = 1 /\ analysisRun = 0
        /\ shown = {} /\ deleted = FALSE

Moves(from, to) == ~ deleted /\ status = from /\ status' = to

Advance ==
    /\ Moves("QUEUED", "INGESTING") \/ Moves("INGESTING", "TRANSCRIBING")
    /\ UNCHANGED <<run, analysisRun, shown, deleted>>

(* After transcription, a retry of a failed analysis, or a re-analysis.    *)
StartAnalysis ==
    /\ \E from \in {"TRANSCRIBING", "FAILED", "READY"} : Moves(from, "ANALYZING")
    /\ analysisRun' = analysisRun + 1
    /\ UNCHANGED <<run, shown, deleted>>

StartProcessing ==
    /\ Moves("FAILED", "QUEUED") \/ Moves("FAILED", "TRANSCRIBING")
    /\ run' = run + 1
    /\ UNCHANGED <<analysisRun, shown, deleted>>

(* The latest run's moments replace the older ones at once.                *)
Publish ==
    /\ status = "ANALYZING" /\ ~ deleted
    /\ shown' = {analysisRun}
    /\ UNCHANGED <<status, run, analysisRun, deleted>>

Deliver ==
    /\ Moves("ANALYZING", "READY")
    /\ shown = {analysisRun}
    /\ UNCHANGED <<run, analysisRun, shown, deleted>>

Fail ==
    /\ \E from \in {"QUEUED", "INGESTING", "TRANSCRIBING", "ANALYZING"} : Moves(from, "FAILED")
    /\ UNCHANGED <<run, analysisRun, shown, deleted>>

Remove ==
    /\ ~ deleted
    /\ deleted' = TRUE
    /\ shown' = {}
    /\ UNCHANGED <<status, run, analysisRun>>

Next == \/ Advance \/ StartAnalysis \/ StartProcessing
        \/ Publish \/ Deliver \/ Fail \/ Remove

Spec == Init /\ [][Next]_vars
=============================================================================
