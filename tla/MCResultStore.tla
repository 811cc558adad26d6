--------------------------- MODULE MCResultStore ---------------------------
(***************************************************************************)
(* What a worker does for one Run, for TLC: the pipeline over its media,   *)
(* the models it loads, the batches they run in and the results it         *)
(* publishes.  The parts share no record, so a behaviour exercises one of  *)
(* them, chosen by focus.                                                  *)
(***************************************************************************)
EXTENDS ResultStore, MediaPipeline, ModelRuntime, InferenceScheduler

CONSTANT Focuses     \* the parts a run looks at
VARIABLE focus

Sampling(strategy, interval, start, end) ==
    [strategy |-> strategy, interval |-> interval, start |-> start, end |-> end, segment |-> 0,
     stream |-> FALSE, seek |-> FALSE]
Segmented(p) == [p EXCEPT !.stream = TRUE, !.segment = 2]
MCPlans == {Sampling("interval", 1, 1, 2), Segmented(Sampling("interval", 2, 0, 0)),
            [Sampling("uniform", 1, 1, 2) EXCEPT !.seek = TRUE], Sampling("keyframe", 1, 0, 1),
            Segmented(Sampling("scene_change", 1, 0, 0))}

Machine(force, fallback) ==
    [force |-> force, fallback |-> fallback, cpu |-> TRUE, cuda |-> TRUE,
     tensorrt |-> FALSE, tensorrtEnabled |-> FALSE]
MCMachines == {Machine(TRUE, FALSE), Machine(FALSE, TRUE), Machine(FALSE, FALSE),
               [Machine(FALSE, TRUE) EXCEPT !.tensorrt = TRUE]}

Inference(scope, priority, weight, size) ==
    [scope |-> scope, priority |-> priority, weight |-> weight, group |-> "x", size |-> size]
MCInferences == [r1 |-> Inference("a", 0, 1, 1), r2 |-> Inference("b", 1, 2, 1),
                 r3 |-> Inference("c", 0, 1, 2), r4 |-> Inference("a", 0, 1, 1)]
------------------------------------------------------------------------------
workVars == <<focus, vars, mediaVars, modelVars, batchVars>>

WorkInit ==
    /\ focus \in Focuses
    /\ Init /\ MediaInit /\ ModelInit /\ BatchInit
    /\ focus # "media" => plan = Sampling("keyframe", 1, 0, 1) /\ closes
    /\ ~ closes => plan = Sampling("interval", 1, 1, 2)
    /\ focus # "models" => machine = Machine(TRUE, FALSE)

WorkNext ==
    /\ UNCHANGED focus
    /\ \/ focus = "results" /\ Next /\ UNCHANGED <<mediaVars, modelVars, batchVars>>
       \/ focus = "media" /\ MediaNext /\ UNCHANGED <<vars, modelVars, batchVars>>
       \/ focus = "models" /\ ModelNext /\ UNCHANGED <<vars, mediaVars, batchVars>>
       \/ focus = "batches" /\ BatchNext /\ UNCHANGED <<vars, mediaVars, modelVars>>

WorkSpec == WorkInit /\ [][WorkNext]_workVars
=============================================================================
