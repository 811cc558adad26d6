--------------------------- MODULE RunStatusSpec ---------------------------
(***************************************************************************)
(* What the status field of a Run promises to a client that only polls it. *)
(*                                                                         *)
(* A Run's record is written by the API process that created it, by the    *)
(* pause/resume/cancel handlers and by every worker that executes it.  The *)
(* client sees none of those, only the status.  This specification is the  *)
(* whole contract of the field: which value may follow which.  The         *)
(* protocol of RunExecution is shown to implement it.                      *)
(*                                                                         *)
(* The contract is the one the code keeps, which is weaker than "a         *)
(* terminal status is final": a worker that is already past its last       *)
(* checkpoint may still write COMPLETED over another outcome, and one that *)
(* was told to stop may write CANCELLED over COMPLETED (LateEdges).        *)
(***************************************************************************)

CONSTANT Runs

VARIABLE status

Terminal == {"completed", "failed", "cancelled"}

Active == {"running", "pausing", "paused", "cancelling"}

RunStatus == {"queued"} \cup Active \cup Terminal

Unstored == {"none", "deleted"}

\* The record is created queued, and is removed again only when the usage
\* could not be consumed: before it was offered to a worker, or after a queue
\* rebuild has already handed it to one.
CreateEdges == {<<"none", "queued">>}
DeleteEdges == RunStatus \X {"deleted"}

\* Leaving the queue.
StartEdges == {<<"queued", "running">>, <<"queued", "cancelled">>, <<"queued", "failed">>}

\* Pausing and resuming: running -> pausing -> paused -> running.
PauseEdges == {<<"running", "pausing">>, <<"pausing", "paused">>, <<"paused", "running">>}

\* Cancelling: a paused Run is cancelled at once, a working one on request.
CancelEdges == {<<"running", "cancelling">>, <<"pausing", "cancelling">>,
                <<"paused", "cancelled">>, <<"cancelling", "cancelled">>}

\* A worker that has finished, or failed, says so whatever was asked meanwhile.
FinishEdges == Active \X {"completed", "failed"}

\* A worker that finishes late overrules another outcome.
LateEdges == {<<"cancelled", "completed">>, <<"failed", "completed">>,
              <<"completed", "cancelled">>}

Edges == CreateEdges \cup DeleteEdges \cup StartEdges \cup PauseEdges
           \cup CancelEdges \cup FinishEdges \cup LateEdges

Init == status = [r \in Runs |-> "none"]

Move(r) == \E s \in RunStatus \cup Unstored :
             /\ <<status[r], s>> \in Edges
             /\ status' = [status EXCEPT ![r] = s]

Next == \E r \in Runs : Move(r)

Spec == Init /\ [][Next]_status
=============================================================================
