---------------------------- MODULE MediaPipeline ----------------------------
(***************************************************************************)
(* The execution of one pipeline: the executor walks the nodes with a      *)
(* checkpoint before each, the decode operator starts a thread that        *)
(* samples the media into a bounded queue, the analysing operator takes    *)
(* batches from it, and all three share the pause and cancel signal of     *)
(* ExecutionControl.  asked is the status of the Run, where the requests   *)
(* of a user arrive.  A unit is a sampled frame: at is its place in the    *)
(* media, pts the timestamp it is given.                                   *)
(***************************************************************************)
EXTENDS Naturals, Sequences

CONSTANTS Plans,          \* the sampling plans to look at
          QueueSize, BatchSize, Timeout,
          MaxReconnects,  \* max_reconnect_attempts
          MaxFrames,      \* bound: frames a source has
          MaxRequests,    \* bound: requests of the user
          ClosingOperators \* does the analysing operator close the media when it refuses early

ASSUME MediaAssumption ==
    /\ \A p \in Plans : /\ p.interval \in Nat /\ p.start \in Nat /\ p.end \in Nat
                        /\ p.strategy \in {"interval", "uniform", "scene_change", "keyframe"}
    /\ QueueSize \in Nat \ {0}

VARIABLES plan, closes, asked, requests, control, decoder, queue, operator, executor
mediaVars == <<plan, closes, asked, requests, control, decoder, queue, operator, executor>>

FailureLimit == 3
End == [at |-> 0, pts |-> 0, n |-> 0]
------------------------------------------------------------------------------
\* ExecutionControl.
pause(c) == [c EXCEPT !.paused = TRUE]
resume(c) == [c EXCEPT !.paused = FALSE]
cancel(c) == [c EXCEPT !.paused = FALSE, !.cancelled = TRUE]

\* wait_until_runnable returns: at once, or when a pause is over.
Runnable == ~control.paused \/ control.cancelled
------------------------------------------------------------------------------
\* SamplePlan.validate.
ValidPlan(p) == p.interval >= 1 /\ (p.end > 0 => p.end > p.start)

Decoder ==
    [at |-> "open", opened |-> 0, failures |-> 0, reconnects |-> 0, frames |-> 0, wall |-> 0,
     next |-> plan.start, pts |-> 0, units |-> <<>>, unit |-> End, reason |-> "source_ended"]

\* The thread of _produce has a result or an exception only after its end mark is queued.
DecoderOver == decoder.at \in {"none", "returned", "raised"}
Broken(d) == [d EXCEPT !.at = "finish", !.reason = "raised"]

\* open_capture: a stream is tried several times, a file once.
open_capture ==
    /\ decoder.at = "open" /\ Runnable
    /\ \E opens \in BOOLEAN :
          decoder' =
             CASE control.cancelled -> Broken(decoder)
               [] ~control.cancelled /\ opens -> [decoder EXCEPT !.at = "read"]
               [] ~control.cancelled /\ ~opens ->
                     IF plan.stream /\ decoder.opened + 1 < MaxReconnects
                     THEN [decoder EXCEPT !.opened = @ + 1] ELSE Broken(decoder)
    /\ UNCHANGED <<control, queue>>

\* A frame, somewhat later than the one before; at most MaxFrames of them.
ReadFrame ==
    /\ decoder.at = "read" /\ Runnable /\ ~control.cancelled
    /\ decoder.frames < MaxFrames /\ decoder.failures < FailureLimit
    /\ \E later \in 0 .. 2 :
          decoder' = [decoder EXCEPT !.at = "frame", !.failures = 0, !.frames = @ + 1,
                         !.wall = IF plan.stream /\ decoder.frames > 0 /\ later = 0
                                  THEN @ + 1 ELSE @ + later]
    /\ UNCHANGED <<control, queue>>

\* A failed read ends a file; a stream is reopened after the third in a row.
ReadFails ==
    /\ decoder.at = "read" /\ Runnable /\ ~control.cancelled
    /\ \E reopens \in BOOLEAN :
          decoder' =
             CASE ~plan.stream -> [decoder EXCEPT !.at = "ended"]
               [] plan.stream /\ decoder.failures + 1 < FailureLimit ->
                     [decoder EXCEPT !.failures = @ + 1]
               [] plan.stream /\ decoder.failures + 1 >= FailureLimit /\ decoder.reconnects >= MaxReconnects ->
                     [decoder EXCEPT !.at = "ended", !.reason = "reconnect_exhausted"]
               [] OTHER -> [decoder EXCEPT !.reconnects = @ + 1,
                                           !.failures = IF reopens THEN 0 ELSE FailureLimit]
    /\ UNCHANGED <<control, queue>>

\* _check_control before a read, and between a read and the use of its frame.
DecodingCancelled ==
    /\ decoder.at \in {"read", "frame"} /\ control.cancelled
    /\ decoder' = Broken(decoder)
    /\ UNCHANGED <<control, queue>>

\* The first multiple of the interval after this frame.
NextInterval(next, at) == next + plan.interval * (((at - next) \div plan.interval) + 1)

\* Whether a frame is taken: by the clock, always, or by what it shows.
Selected(d) ==
    CASE plan.strategy = "interval" -> {d.wall >= d.next}
      [] plan.strategy = "uniform" -> {TRUE}
      [] plan.strategy = "scene_change" -> IF d.units = <<>> THEN {TRUE} ELSE BOOLEAN
      [] plan.strategy = "keyframe" -> BOOLEAN

BeforeWindow(d) == ~plan.seek /\ d.wall < plan.start
PastWindow(d) == plan.end > 0 /\ d.wall > plan.end
PastSegment(d) == plan.stream /\ plan.segment > 0 /\ d.wall >= plan.segment

\* Timestamps given out increase even where the source's do not.
Unit(d) ==
    [at |-> d.wall, n |-> Len(d.units) + 1,
     pts |-> IF d.units = <<>> \/ d.wall > d.pts THEN d.wall ELSE d.pts + 1]

Sampled(d) ==
    [d EXCEPT !.at = "emit", !.unit = Unit(d), !.pts = Unit(d).pts,
              !.next = IF plan.strategy = "interval" THEN NextInterval(@, d.wall) ELSE @]

\* The window of the plan, the length of a stream segment, and the strategy.
SampleFrame ==
    /\ decoder.at = "frame" /\ Runnable /\ ~control.cancelled
    /\ \E selected \in Selected(decoder) :
          decoder' =
             CASE BeforeWindow(decoder) -> [decoder EXCEPT !.at = "read"]
               [] ~BeforeWindow(decoder) /\ PastWindow(decoder) ->
                     [decoder EXCEPT !.at = "ended", !.reason = "sample_window_completed"]
               [] ~BeforeWindow(decoder) /\ ~PastWindow(decoder) /\ PastSegment(decoder) ->
                     [decoder EXCEPT !.at = "ended", !.reason = "segment_window_completed"]
               [] OTHER -> IF selected THEN Sampled(decoder) ELSE [decoder EXCEPT !.at = "read"]
    /\ UNCHANGED <<control, queue>>

\* A backend that does not report frame types cannot sample keyframes.
NoFrameTypes ==
    /\ decoder.at = "frame" /\ Runnable /\ ~control.cancelled
    /\ plan.strategy = "keyframe"
    /\ ~BeforeWindow(decoder) /\ ~PastWindow(decoder) /\ ~PastSegment(decoder)
    /\ decoder' = Broken(decoder)
    /\ UNCHANGED <<control, queue>>

\* _emit waits while the queue is full, and gives up once cancelled.
_emit ==
    /\ decoder.at = "emit"
    /\ \/ /\ Len(queue) < QueueSize
          /\ queue' = Append(queue, decoder.unit)
          /\ decoder' = [decoder EXCEPT !.at = "read", !.units = Append(@, decoder.unit)]
       \/ /\ Len(queue) = QueueSize /\ control.cancelled
          /\ decoder' = Broken(decoder)
          /\ UNCHANGED queue
    /\ UNCHANGED control

\* Media without a single unit is an error.
EndOfMedia ==
    /\ decoder.at = "ended"
    /\ decoder' = IF decoder.units = <<>> THEN Broken(decoder) ELSE [decoder EXCEPT !.at = "finish"]
    /\ UNCHANGED <<control, queue>>

\* The end mark always arrives: once cancelled, a unit makes way for it.
_produce ==
    /\ decoder.at = "finish"
    /\ \/ /\ Len(queue) < QueueSize
          /\ queue' = Append(queue, End)
          /\ decoder' = [decoder EXCEPT !.at = IF decoder.reason = "raised" THEN "raised" ELSE "returned"]
       \/ /\ Len(queue) = QueueSize /\ control.cancelled
          /\ queue' = Tail(queue)
          /\ UNCHANGED decoder
    /\ UNCHANGED control
------------------------------------------------------------------------------
\* The analysing operator: what it has taken, the batch it collects, and whether a
\* thread of its own still waits for the queue after it was cancelled.
NoOperator == [at |-> "none", taken |-> <<>>, batch |-> 0, last |-> FALSE, orphan |-> FALSE]
OperatorOver == operator.at \in {"returned", "raised"}

\* Parameters, engine and model are checked before the first batch.
Prelude ==
    /\ operator.at = "prelude"
    /\ operator' = [operator EXCEPT !.at = "get"]
    /\ UNCHANGED <<control, decoder, queue>>

Refuse ==
    /\ operator.at = "prelude"
    /\ operator' = [operator EXCEPT !.at = IF closes THEN "close" ELSE "raised"]
    /\ UNCHANGED <<control, decoder, queue>>

\* batches: full batches are handed over, and what is left at the end mark.
batches ==
    /\ operator.at = "get" /\ queue # <<>>
    /\ queue' = Tail(queue)
    /\ operator' =
          IF Head(queue) = End
          THEN [operator EXCEPT !.at = IF operator.batch > 0 THEN "infer" ELSE "result", !.last = TRUE]
          ELSE [operator EXCEPT !.taken = Append(@, Head(queue)), !.batch = @ + 1,
                                !.at = IF operator.batch + 1 >= BatchSize THEN "infer" ELSE "get"]
    /\ UNCHANGED <<control, decoder>>

\* Inference, the partial result and the progress of a batch; any of them may fail.
Infer ==
    /\ operator.at = "infer"
    /\ \E fails \in BOOLEAN :
          operator' = [operator EXCEPT !.batch = 0, !.at = IF fails THEN "close"
                                                           ELSE IF operator.last THEN "result" ELSE "get"]
    /\ UNCHANGED <<control, decoder, queue>>

\* Mutant.
TakeResult_Unawaited ==
    /\ operator.at = "result"
    /\ operator' = [operator EXCEPT !.at = "returned"]
    /\ UNCHANGED <<control, decoder, queue>>

\* iter_batches: the decoder's own outcome decides whether the media was complete.
TakeResult ==
    /\ operator.at = "result" /\ DecoderOver
    /\ operator' = [operator EXCEPT !.at = IF decoder.at = "raised" THEN "close" ELSE "returned"]
    /\ UNCHANGED <<control, decoder, queue>>

\* close: stops a decoder that still runs and waits for it.
CloseMedia ==
    /\ operator.at = "close"
    /\ IF DecoderOver THEN operator' = [operator EXCEPT !.at = "raised"] /\ UNCHANGED control
       ELSE operator' = [operator EXCEPT !.at = "closing"] /\ control' = cancel(control)
    /\ UNCHANGED <<decoder, queue>>

Closed ==
    /\ operator.at = "closing" /\ DecoderOver
    /\ operator' = [operator EXCEPT !.at = "raised"]
    /\ UNCHANGED <<control, decoder, queue>>

\* A thread left behind by a cancelled get takes one more item.
OrphanGets ==
    /\ operator.orphan /\ queue # <<>>
    /\ queue' = Tail(queue)
    /\ operator' = [operator EXCEPT !.orphan = FALSE]
    /\ UNCHANGED <<control, decoder>>
------------------------------------------------------------------------------
\* The executor is about to start a node, waits for its operator, looks at the run
\* meanwhile, or is stopping the operator with an error at hand.
Executor == [at |-> "node", node |-> 1, ran |-> 0, error |-> "none"]
Over(error) == executor' = [executor EXCEPT !.at = "over", !.error = error]

\* _checkpoint: what the run's status asks for.  A save may lose to another writer.  A
\* run cancelled while it was paused is not told from a running one.
_checkpoint(outcome) ==
    \/ /\ outcome = "go" /\ asked \in {"running", "cancelled"}
       /\ control' = resume(control) /\ UNCHANGED asked
    \/ /\ outcome = "hold" /\ asked \in {"pausing", "paused"}
       /\ control' = pause(control) /\ asked' = "paused"
    \/ /\ outcome = "conflict" /\ asked = "pausing"
       /\ control' = pause(control) /\ UNCHANGED asked
    \/ /\ outcome \in {"stopped", "conflict"} /\ asked = "cancelling"
       /\ control' = cancel(control)
       /\ asked' = IF outcome = "stopped" THEN "cancelled" ELSE asked

Outcomes == {"go", "hold", "stopped", "conflict"}

\* DecodeMediaOperator: starts the thread and returns, unless a parameter is refused.
DecodeMedia ==
    \/ /\ executor' = [executor EXCEPT !.node = 2]
       /\ decoder' = Decoder
    \/ Over("operator") /\ UNCHANGED decoder

\* execute: a checkpoint, then the operator of the node.
StartNode ==
    /\ executor.at = "node"
    /\ \E outcome \in Outcomes :
          /\ _checkpoint(outcome)
          /\ CASE outcome = "go" /\ executor.node = 1 -> DecodeMedia /\ UNCHANGED operator
               [] outcome = "go" /\ executor.node = 2 ->
                     /\ executor' = [executor EXCEPT !.at = "wait"]
                     /\ operator' = [operator EXCEPT !.at = "prelude"] /\ UNCHANGED decoder
               [] outcome = "hold" -> UNCHANGED <<executor, decoder, operator>>
               [] OTHER -> Over(outcome) /\ UNCHANGED <<decoder, operator>>
    /\ UNCHANGED queue

\* _execute_operator: the operator is over, or has run too long, pauses apart.
OperatorEnds ==
    /\ executor.at = "wait" /\ OperatorOver
    /\ Over(IF operator.at = "returned" THEN "none" ELSE "operator")
    /\ UNCHANGED <<asked, control, decoder, queue, operator>>

Tick ==
    /\ executor.at = "wait" /\ ~OperatorOver
    /\ LET ran == executor.ran + (IF control.paused THEN 0 ELSE 1)
       IN executor' = [executor EXCEPT !.ran = ran,
                          !.at = IF ran >= Timeout THEN "stop" ELSE "checkpoint",
                          !.error = IF ran >= Timeout THEN "timeout" ELSE @]
    /\ UNCHANGED <<asked, control, decoder, queue, operator>>

\* The checkpoint between two looks at the operator; a pause is waited out in it.
LookAtRun ==
    /\ executor.at = "checkpoint"
    /\ \E outcome \in Outcomes :
          /\ _checkpoint(outcome)
          /\ executor' = CASE outcome = "go" -> [executor EXCEPT !.at = "wait"]
                           [] outcome = "hold" -> executor
                           [] OTHER -> [executor EXCEPT !.at = "stop", !.error = outcome]
    /\ UNCHANGED <<decoder, queue, operator>>

\* stop_operator: the signal, a second of grace, then the task is cancelled where it
\* waits, and awaited.  A get that has begun goes on in its thread.
stop_operator ==
    /\ executor.at = "stop"
    /\ control' = cancel(control)
    /\ executor' = [executor EXCEPT !.at = "grace"]
    /\ UNCHANGED <<asked, decoder, queue, operator>>

CancelTask ==
    /\ executor.at = "grace" /\ ~OperatorOver
    /\ executor' = [executor EXCEPT !.at = "await"]
    /\ \E orphan \in BOOLEAN :
          /\ orphan => operator.at = "get"
          /\ operator' = [operator EXCEPT !.orphan = orphan,
                             !.at = CASE @ \in {"get", "infer"} -> "close"
                                      [] @ = "prelude" -> IF closes THEN "close" ELSE "raised"
                                      [] @ \in {"result", "closing"} -> "raised"
                                      [] OTHER -> @]
    /\ UNCHANGED <<asked, control, decoder, queue>>

Stopped ==
    /\ executor.at \in {"grace", "await"} /\ OperatorOver
    /\ Over(executor.error)
    /\ UNCHANGED <<asked, control, decoder, queue, operator>>

\* The user pauses, resumes and cancels while the run is not over.
Asks ==
    /\ requests < MaxRequests /\ executor.at # "over"
    /\ \/ asked = "running" /\ asked' = "pausing"
       \/ asked = "paused" /\ asked' = "running"
       \/ asked \in {"running", "pausing"} /\ asked' = "cancelling"
       \/ asked \in {"paused", "cancelling"} /\ asked' = "cancelled"
    /\ requests' = requests + 1
    /\ UNCHANGED <<control, decoder, queue, operator, executor>>
------------------------------------------------------------------------------
MediaInit ==
    /\ plan \in {p \in Plans : ValidPlan(p)} /\ closes \in ClosingOperators
    /\ asked = "running" /\ requests = 0
    /\ control = [paused |-> FALSE, cancelled |-> FALSE]
    /\ decoder = [Decoder EXCEPT !.at = "none"] /\ queue = <<>>
    /\ operator = NoOperator /\ executor = Executor

DecoderNext ==
    /\ \/ open_capture \/ ReadFrame \/ ReadFails \/ DecodingCancelled \/ SampleFrame \/ NoFrameTypes
       \/ _emit \/ EndOfMedia \/ _produce
    /\ UNCHANGED <<asked, requests, operator, executor>>

OperatorNext ==
    /\ Prelude \/ Refuse \/ batches \/ Infer \/ TakeResult \/ CloseMedia \/ Closed \/ OrphanGets
    /\ UNCHANGED <<asked, requests, executor>>

ExecutorNext ==
    /\ \/ StartNode \/ OperatorEnds \/ Tick \/ LookAtRun \/ stop_operator \/ CancelTask \/ Stopped
    /\ UNCHANGED requests

MediaNext == (DecoderNext \/ OperatorNext \/ ExecutorNext \/ Asks) /\ UNCHANGED <<plan, closes>>

MediaSpec == MediaInit /\ [][MediaNext]_mediaVars

\* A pipeline that returns a result has analysed every unit the decoder sampled,
\* once and in order, of media the decoder read to the end its reason names: a
\* cancelled decoder makes room for its end mark by dropping a unit, and such a
\* batch never becomes a result.  Units have increasing timestamps, lie in the
\* window, and two units of the interval strategy never share an interval.  When
\* the execution is over the decoder is over too or has been told to stop, but for
\* two cases: an operator that refuses before its first batch without closing the
\* media, and a checkpoint between the two nodes whose save fails.
MediaExact ==
    /\ executor.at = "over" /\ executor.error = "none" =>
          /\ operator.taken = decoder.units
          /\ decoder.at = "returned" /\ decoder.units # <<>>
          /\ decoder.reason = "segment_window_completed" => decoder.wall >= plan.segment
    /\ \A i, j \in DOMAIN decoder.units : i < j =>
          LET a == decoder.units[i]
              b == decoder.units[j]
          IN /\ a.pts < b.pts
             /\ plan.strategy = "interval" =>
                   (a.at - plan.start) \div plan.interval < (b.at - plan.start) \div plan.interval
    /\ \A i \in DOMAIN decoder.units :
          /\ decoder.units[i].at >= plan.start \/ plan.seek
          /\ plan.end > 0 => decoder.units[i].at <= plan.end
    /\ (executor.at = "over" /\ ~DecoderOver /\ ~control.cancelled) =>
          \/ operator.at = "none" /\ executor.error = "conflict"
          \/ operator.at = "raised" /\ operator.taken = <<>> /\ ~closes
==============================================================================
