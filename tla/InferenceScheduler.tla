------------------------- MODULE InferenceScheduler -------------------------
(***************************************************************************)
(* Dynamic batching for one loaded model: callers queue their inputs, a    *)
(* worker task waits for a batch to fill or for the oldest request to be   *)
(* due, takes a batch that is fair to the scopes, runs it and gives every  *)
(* caller its rows, or runs the requests one by one when the batch fails.  *)
(* Callers give up and requests expire at any moment; a step ends where    *)
(* the code may suspend.                                                   *)
(***************************************************************************)
EXTENDS Integers, Sequences, FiniteSets

CONSTANTS Inferences,        \* scope, priority (0 is sync), weight, group and size of each request
          max_batch_size, max_queue_size

\* A weight is clamped to 1..100, the limits to at least 1, and no caller submits an
\* input without rows.
ASSUME BatchAssumption ==
    /\ IsFiniteSet(DOMAIN Inferences)
    /\ \A r \in DOMAIN Inferences : Inferences[r].weight \in Nat \ {0} /\ Inferences[r].size \in Nat \ {0}
    /\ max_batch_size \in Nat \ {0} /\ max_queue_size \in Nat \ {0}

VARIABLES enqueued_at,       \* of each request in _queue its place in the order of arrival, else 0
          batchWorker,       \* what the task does: "none", "run", "wait", "batch" or "singles"
          wake,              \* _wake is set
          last_scope,        \* _last_scope
          flight,            \* the batch being executed, in order
          singles,           \* those of it being executed one by one
          answers,           \* the future of each request: a status and the rows of its result
          due, expired,      \* queued requests whose dispatch time, whose deadline has passed
          passed             \* history: how often a waiting request was the oldest and left out
batchVars == <<enqueued_at, batchWorker, wake, last_scope, flight, singles, answers, due, expired, passed>>

Requests == DOMAIN Inferences
Scopes == {Inferences[r].scope : r \in Requests}
Answer(status) == [status |-> status, rows |-> <<>>]
NotSubmitted == Answer("new")
Pending == Answer("pending")
Row(r, i) == [of |-> r, row |-> i]
input_array(r) == [i \in 1..Inferences[r].size |-> Row(r, i)]
Items(batch) == {batch[i] : i \in DOMAIN batch}

\* The rows of some requests together.
TotalOf(items) == Cardinality(UNION {{Row(r, i) : i \in 1..Inferences[r].size} : r \in items})

concatenate(items) ==
    LET array[n \in 0..Len(items)] == IF n = 0 THEN <<>> ELSE array[n - 1] \o input_array(items[n])
    IN array[Len(items)]

Compatible(r, seed) ==
    /\ Inferences[r].priority = Inferences[seed].priority
    /\ Inferences[r].group = Inferences[seed].group
------------------------------------------------------------------------------
_queue == {r \in Requests : enqueued_at[r] # 0}
Oldest(items) == CHOOSE r \in items : \A q \in items : enqueued_at[r] <= enqueued_at[q]

\* What _discard_finished leaves in the queue.
Active == {r \in _queue : answers[r] = Pending /\ r \notin expired}

\* Mutant.
TimedOut_Silent == answers

\* The callers whose deadline has passed get a timeout.
TimedOut ==
    [r \in Requests |-> IF r \in _queue /\ answers[r] = Pending /\ r \in expired
                        THEN Answer("timeout") ELSE answers[r]]

\* The queue that is left; time is only kept for the requests in it.
Keep(queue) ==
    /\ enqueued_at' = [r \in Requests |-> IF r \in queue THEN enqueued_at[r] ELSE 0]
    /\ due' = due \cap queue /\ expired' = expired \cap queue

\* The oldest request of the most urgent priority.
Seed(queue) ==
    LET urgent == {r \in queue : Inferences[r].priority = 0}
    IN Oldest(IF urgent # {} THEN urgent ELSE queue)

_batch_ready(queue, seed) == TotalOf({r \in queue : Compatible(r, seed)}) >= max_batch_size

\* What a scope still has to offer.
Own(items, batch, scope) == {r \in items \ Items(batch) : Inferences[r].scope = scope}

\* Scopes take turns in the order of their oldest requests, from the one after scope.
NextScope(items, scope) ==
    LET firsts == {r \in items : r = Oldest(Own(items, <<>>, Inferences[r].scope))}
        later == {r \in firsts : \E q \in firsts : /\ Inferences[q].scope = scope
                                                  /\ enqueued_at[q] < enqueued_at[r]}
    IN Inferences[Oldest(IF later # {} THEN later ELSE firsts)].scope

Fits(batch, r) ==
    LET size == TotalOf(Items(batch))
    IN size < max_batch_size /\ (batch = <<>> \/ size + Inferences[r].size <= max_batch_size)

\* In its turn a scope gives as many requests as its first one weighs, while they fit.
TakeOrTurn(items, b) ==
    LET own == Own(items, b.batch, b.scope)
        scope == NextScope(items, b.scope)
        offered == Own(items, b.batch, scope)
    IN IF b.left > 0 /\ own # {} /\ Fits(b.batch, Oldest(own))
       THEN [batch |-> Append(b.batch, Oldest(own)), scope |-> b.scope, left |-> b.left - 1]
       ELSE [batch |-> b.batch, scope |-> scope,
             left |-> IF offered = {} THEN 1 ELSE Inferences[Oldest(offered)].weight]

\* Turns go round until the batch is full or a whole round takes nothing, which this
\* many steps reach: each round but the last takes something.
Steps(items) == (Cardinality(items) + 1) * (Cardinality(Scopes) + 1)

_take_fair_batch(queue, seed) ==
    LET items == {r \in queue : Compatible(r, seed)}
        taking[n \in 0..Steps(items)] ==
            IF n = 0 THEN [batch |-> <<>>, scope |-> last_scope, left |-> 0]
            ELSE TakeOrTurn(items, taking[n - 1])
    IN taking[Steps(items)].batch
------------------------------------------------------------------------------
\* A full queue refuses the request; otherwise the worker is woken or started.
submit(r) ==
    /\ answers[r] = NotSubmitted
    /\ IF Cardinality(Active) >= max_queue_size
       THEN /\ Keep(Active)
            /\ answers' = [TimedOut EXCEPT ![r] = Answer("full")]
            /\ UNCHANGED <<batchWorker, wake>>
       ELSE /\ enqueued_at' = [q \in Requests |->
                                 IF q = r THEN 1 + Cardinality({p \in Requests : answers[p] # NotSubmitted})
                                 ELSE IF q \in Active THEN enqueued_at[q] ELSE 0]
            /\ due' = due \cap Active /\ expired' = expired \cap Active
            /\ answers' = [TimedOut EXCEPT ![r] = Pending]
            /\ wake' = TRUE
            /\ batchWorker' = IF batchWorker = "none" THEN "run" ELSE batchWorker
    /\ UNCHANGED <<last_scope, flight, singles, passed>>

\* The caller is cancelled while it awaits its future.
CancelCaller(r) ==
    /\ answers[r] = Pending
    /\ answers' = [answers EXCEPT ![r] = Answer("cancelled")]
    /\ wake' = TRUE
    /\ UNCHANGED <<enqueued_at, batchWorker, last_scope, flight, singles, due, expired, passed>>

\* Time passes: a request is due after max_wait_ms, and at its deadline at the latest.
TimePasses(r) ==
    /\ answers[r] = Pending
    /\ r \in _queue
    /\ \/ r \notin due /\ due' = due \cup {r} /\ UNCHANGED expired
       \/ r \notin expired /\ expired' = expired \cup {r} /\ due' = due \cup {r}
    /\ UNCHANGED <<enqueued_at, batchWorker, wake, last_scope, flight, singles, answers, passed>>
------------------------------------------------------------------------------
\* One turn of _run up to its next await: leave, wait, or dispatch a batch.
_run ==
    /\ batchWorker = "run"
    /\ answers' = TimedOut
    /\ \/ /\ Active = {}
          /\ batchWorker' = "none"
          /\ Keep({})
          /\ UNCHANGED <<wake, last_scope, flight, singles, passed>>
       \/ /\ Active # {}
          /\ Seed(Active) \notin due /\ ~_batch_ready(Active, Seed(Active))
          /\ batchWorker' = "wait" /\ wake' = FALSE
          /\ Keep(Active)
          /\ UNCHANGED <<last_scope, flight, singles, passed>>
       \/ /\ Active # {}
          /\ Seed(Active) \in due \/ _batch_ready(Active, Seed(Active))
          /\ LET seed == Seed(Active)
                 batch == _take_fair_batch(Active, seed)
             IN /\ Keep(Active \ Items(batch))
                /\ last_scope' = Inferences[batch[Len(batch)]].scope
                /\ flight' = batch
                /\ singles' = IF Len(batch) = 1 THEN Items(batch) ELSE {}
                /\ batchWorker' = IF Len(batch) = 1 THEN "singles" ELSE "batch"
                /\ passed' = IF seed \in Items(batch) THEN passed ELSE [passed EXCEPT ![seed] = @ + 1]
          /\ UNCHANGED wake

\* wait_for ends when the event is set or the oldest request is due.
WaitEnds ==
    /\ batchWorker = "wait"
    /\ wake \/ (_queue # {} /\ Seed(_queue) \in due)
    /\ batchWorker' = "run"
    /\ UNCHANGED <<enqueued_at, wake, last_scope, flight, singles, answers, due, expired, passed>>

\* _split_outputs: the rows from the end of the requests before to its own end.
Slice(outputs, items, i) ==
    SubSeq(outputs, TotalOf({items[j] : j \in 1..(i - 1)}) + 1, TotalOf({items[j] : j \in 1..i}))

\* The combined run answers every caller that still waits.
BatchEnds ==
    /\ batchWorker = "batch"
    /\ LET outputs == concatenate(flight)
       IN answers' = [r \in Requests |->
                        IF answers[r] = Pending /\ r \in Items(flight)
                        THEN [status |-> "result",
                              rows |-> Slice(outputs, flight, CHOOSE i \in DOMAIN flight : flight[i] = r)]
                        ELSE answers[r]]
    /\ batchWorker' = "run" /\ flight' = <<>>
    /\ UNCHANGED <<enqueued_at, wake, last_scope, singles, due, expired, passed>>

\* It failed, or did not keep the batch dimension: each request that is not done alone.
BatchFails ==
    /\ batchWorker = "batch"
    /\ LET left == {r \in Requests : answers[r] = Pending /\ r \in Items(flight)}
       IN /\ singles' = left
          /\ batchWorker' = IF left = {} THEN "run" ELSE "singles"
          /\ flight' = IF left = {} THEN <<>> ELSE flight
    /\ UNCHANGED <<enqueued_at, wake, last_scope, answers, due, expired, passed>>

\* One of them ends, with its rows or with its own error.
_execute_one(r) ==
    /\ batchWorker = "singles" /\ r \in singles
    /\ \E answer \in {[status |-> "result", rows |-> input_array(r)], Answer("error")} :
          answers' = IF answers[r] = Pending THEN [answers EXCEPT ![r] = answer] ELSE answers
    /\ singles' = singles \ {r}
    /\ batchWorker' = IF singles' = {} THEN "run" ELSE batchWorker
    /\ flight' = IF singles' = {} THEN <<>> ELSE flight
    /\ UNCHANGED <<enqueued_at, wake, last_scope, due, expired, passed>>
------------------------------------------------------------------------------
BatchInit ==
    /\ enqueued_at = [r \in Requests |-> 0] /\ flight = <<>>
    /\ batchWorker = "none" /\ wake = FALSE /\ last_scope = "none"
    /\ singles = {} /\ due = {} /\ expired = {}
    /\ answers = [r \in Requests |-> NotSubmitted]
    /\ passed = [r \in Requests |-> 0]

BatchNext ==
    \/ \E r \in Requests : submit(r) \/ CancelCaller(r) \/ TimePasses(r) \/ _execute_one(r)
    \/ _run \/ WaitEnds \/ BatchEnds \/ BatchFails

BatchSpec == BatchInit /\ [][BatchNext]_batchVars

Waiting == {r \in Requests : answers[r] = Pending}
GaveUp == {r \in Requests : answers[r].status \in {"cancelled", "timeout"}}

\* Whatever callers submit, cancel or let expire while a batch runs: a caller that
\* waits is queued or executed, in exactly one of the two and once, and never without
\* a worker that will get to it; a result holds the caller's own rows, although
\* batches are cut by offsets; a batch mixes neither priorities nor input shapes and
\* only a single request may exceed its size; and the oldest urgent request, when any
\* batch has room for it, is passed over at most once for every other scope, and once
\* more for every caller that gives up, whose scope may then have its turn again.
BatchesExact ==
    /\ \A r \in Waiting :
          /\ (r \in _queue) # (r \in Items(flight))
          /\ r \in Items(flight) => (batchWorker = "batch" \/ r \in singles)
          /\ r \in _queue => batchWorker # "none"
          /\ Inferences[r].size = 1 /\ Inferences[r].priority = 0 =>
                passed[r] < Cardinality(Scopes) + Cardinality(GaveUp)
    /\ \A r \in Requests : answers[r].status = "result" => answers[r].rows = input_array(r)
    /\ \A i, j \in DOMAIN flight : Compatible(flight[i], flight[j]) /\ (flight[i] = flight[j] => i = j)
    /\ TotalOf(Items(flight)) > max_batch_size => Len(flight) = 1
    /\ Cardinality(_queue) <= max_queue_size
==============================================================================
