--------------------------- MODULE WebhookOutbox ---------------------------
(***************************************************************************)
(* The webhook outbox: an event inserts one delivery row per subscription, *)
(* in the transaction of the event.  Scheduler processes claim due rows    *)
(* for 60 seconds, post them one after the other and save what came of it. *)
(*                                                                         *)
(* A claim is a lease and nothing more: the row is saved by its id alone,  *)
(* so a scheduler whose batch takes longer than the lease and the next one *)
(* to claim the row both save it.  Deleting a subscription deletes its     *)
(* rows (ON DELETE CASCADE), under the scheduler that holds them.          *)
(*                                                                         *)
(* Left out: the request's body and signature, the back-off's length, and  *)
(* disabled subscriptions (no operation disables one).                     *)
(***************************************************************************)
EXTENDS Naturals, FiniteSets

CONSTANTS
  Endpoints,     \* subscriptions that are ever created
  Deliveries,    \* rows that are ever inserted
  EndpointOf,    \* the subscription of each row
  Schedulers,    \* scheduler processes
  Limit,         \* rows of one claim (100 in the code)
  MaxAttempts,   \* attempts before a row is dead (8 in the code)
  MaxCrashes,    \* bound: scheduler crashes
  NoRow

ASSUME OutboxAssumption ==
  /\ EndpointOf \in [Deliveries -> Endpoints]
  /\ Limit \in Nat \ {0} /\ MaxAttempts \in Nat \ {0} /\ MaxCrashes \in Nat
  /\ NoRow \notin Deliveries

VARIABLES
  sub, secret,              \* subscriptions and their secrets
  stat, att, due,           \* the delivery rows
  pc, held, copy, cur,      \* the schedulers: claimed rows still to do, attempts as claimed
  tried, accepted,          \* the attempts made (counted up to MaxAttempts), and a 2xx
  crashes

subs == <<sub, secret>>
rows == <<stat, att, due>>
procs == <<pc, held, copy, cur>>
seenOut == <<tried, accepted>>
vars == <<subs, rows, procs, seenOut, crashes>>

Active == {"pending", "delivering"}
Exists(d) == stat[d] \in Active \cup {"delivered", "dead_letter"}

\* Every variable has its type; in particular no row counts more attempts than
\* make it dead.
TypeOK ==
  /\ sub \in [Endpoints -> {"none", "put", "stored", "on", "audited", "deleted", "gone"}]
  /\ secret \in [Endpoints -> BOOLEAN]
  /\ stat \in [Deliveries -> Active \cup {"unborn", "delivered", "dead_letter", "removed"}]
  /\ att \in [Deliveries -> 0..MaxAttempts]
  /\ due \in [Deliveries -> BOOLEAN]
  /\ pc \in [Schedulers -> {"idle", "next", "try", "ok", "fail"}]
  /\ held \in [Schedulers -> SUBSET Deliveries]
  /\ copy \in [Schedulers -> [Deliveries -> 0..MaxAttempts]]
  /\ cur \in [Schedulers -> Deliveries \cup {NoRow}]
  /\ tried \in [Deliveries -> 0..MaxAttempts]
  /\ accepted \in [Deliveries -> BOOLEAN]
  /\ crashes \in 0..MaxCrashes

Init ==
  /\ sub = [p \in Endpoints |-> "none"]
  /\ secret = [p \in Endpoints |-> FALSE]
  /\ stat = [d \in Deliveries |-> "unborn"]
  /\ att = [d \in Deliveries |-> 0]
  /\ due = [d \in Deliveries |-> FALSE]
  /\ pc = [s \in Schedulers |-> "idle"]
  /\ held = [s \in Schedulers |-> {}]
  /\ copy = [s \in Schedulers |-> [d \in Deliveries |-> 0]]
  /\ cur = [s \in Schedulers |-> NoRow]
  /\ tried = [d \in Deliveries |-> 0]
  /\ accepted = [d \in Deliveries |-> FALSE]
  /\ crashes = 0

-----------------------------------------------------------------------------
(* Subscriptions.  "stored" and "audited" are subscriptions too: the record   *)
(* is there, the handler has not returned yet.                                *)

Subscribed(p) == sub[p] \in {"stored", "on", "audited"}

PutSecret(p) ==
  /\ sub[p] = "none"
  /\ sub' = [sub EXCEPT ![p] = "put"]
  /\ secret' = [secret EXCEPT ![p] = TRUE]
  /\ UNCHANGED <<rows, procs, seenOut, crashes>>

\* The record is written, or raises: the secret is then deleted, or stays.
Store(p) ==
  /\ sub[p] = "put"
  /\ \/ sub' = [sub EXCEPT ![p] = "stored"] /\ UNCHANGED secret
     \/ /\ sub' = [sub EXCEPT ![p] = "gone"]
        /\ secret' \in {secret, [secret EXCEPT ![p] = FALSE]}
  /\ UNCHANGED <<rows, procs, seenOut, crashes>>

\* The cascade: the subscription's rows go with it.
Cascade(p) ==
  /\ stat' = [d \in Deliveries |-> IF EndpointOf[d] = p /\ Exists(d) THEN "removed" ELSE stat[d]]
  /\ UNCHANGED <<att, due>>

\* The audit record is written, or raises: the handler then deletes what it has
\* made, and suppresses any error of either deletion.
CreateAudited(p) ==
  /\ sub[p] = "stored"
  /\ \/ sub' = [sub EXCEPT ![p] = "on"] /\ UNCHANGED <<secret, rows>>
     \/ /\ \/ sub' = [sub EXCEPT ![p] = "gone"] /\ Cascade(p)
           \/ sub' = [sub EXCEPT ![p] = "on"] /\ UNCHANGED rows
        /\ secret' \in {secret, [secret EXCEPT ![p] = FALSE]}
  /\ UNCHANGED <<procs, seenOut, crashes>>

DeleteAudited(p) ==
  /\ sub[p] = "on"
  /\ sub' = [sub EXCEPT ![p] = "audited"]
  /\ UNCHANGED <<secret, rows, procs, seenOut, crashes>>

DeleteRow(p) ==
  /\ sub[p] = "audited"
  /\ sub' = [sub EXCEPT ![p] = "deleted"]
  /\ Cascade(p)
  /\ UNCHANGED <<secret, procs, seenOut, crashes>>

DeleteSecret(p) ==
  /\ sub[p] = "deleted"
  /\ sub' = [sub EXCEPT ![p] = "gone"]
  /\ secret' = [secret EXCEPT ![p] = FALSE]
  /\ UNCHANGED <<rows, procs, seenOut, crashes>>

\* append_event or enqueue_webhook_event: a row for the subscription.
Emit(d) ==
  /\ stat[d] = "unborn"
  /\ Subscribed(EndpointOf[d])
  /\ stat' = [stat EXCEPT ![d] = "pending"]
  /\ due' = [due EXCEPT ![d] = TRUE]
  /\ UNCHANGED <<subs, att, procs, seenOut, crashes>>

-----------------------------------------------------------------------------
(* Time: next_attempt_at passes, a retry's or a lease's.                      *)

Due(d) ==
  /\ stat[d] \in Active /\ ~due[d]
  /\ due' = [due EXCEPT ![d] = TRUE]
  /\ UNCHANGED <<subs, stat, att, procs, seenOut, crashes>>

-----------------------------------------------------------------------------
(* Schedulers: deliver_due. *)

\* MUTANT of Claimable: rows that another scheduler is delivering are left to it.
ClaimableNew == {d \in Deliveries : stat[d] = "pending" /\ due[d]}

Claimable == {d \in Deliveries : stat[d] \in Active /\ due[d]}

\* SKIP LOCKED leaves out rows that another transaction is writing, so any of
\* the due rows may be missing from the claim.
Claim(s) ==
  /\ pc[s] = "idle"
  /\ \E batch \in SUBSET Claimable :
       /\ batch # {} /\ Cardinality(batch) <= Limit
       /\ stat' = [d \in Deliveries |-> IF d \in batch THEN "delivering" ELSE stat[d]]
       /\ due' = [d \in Deliveries |-> IF d \in batch THEN FALSE ELSE due[d]]
       /\ held' = [held EXCEPT ![s] = batch]
       /\ copy' = [copy EXCEPT ![s] = [d \in Deliveries |-> IF d \in batch THEN att[d] ELSE 0]]
  /\ pc' = [pc EXCEPT ![s] = "next"]
  /\ UNCHANGED <<subs, att, cur, seenOut, crashes>>

\* The process goes back to its loop: the batch is done, or it was restarted.
Leave(s) ==
  /\ pc' = [pc EXCEPT ![s] = "idle"]
  /\ held' = [held EXCEPT ![s] = {}]
  /\ copy' = [copy EXCEPT ![s] = [d \in Deliveries |-> 0]]
  /\ cur' = [cur EXCEPT ![s] = NoRow]

BatchDone(s) ==
  /\ pc[s] = "next" /\ held[s] = {}
  /\ Leave(s)
  /\ UNCHANGED <<subs, rows, seenOut, crashes>>

\* The row is done with: on to the next one.
Advance(s, d) ==
  /\ pc' = [pc EXCEPT ![s] = "next"]
  /\ held' = [held EXCEPT ![s] = @ \ {d}]
  /\ cur' = [cur EXCEPT ![s] = NoRow]
  /\ UNCHANGED copy

\* save_webhook_delivery: by id, whatever the row has become meanwhile.
Write(s, d, status) ==
  /\ stat' = [stat EXCEPT ![d] = status]
  /\ att' = [att EXCEPT ![d] = copy[s][d] + 1]
  /\ due' = [due EXCEPT ![d] = FALSE]

\* MUTANT of Unavailable: an endpoint without a secret is given up at once.
UnavailableSecretless(d) == ~secret[EndpointOf[d]]

Unavailable(d) == ~Subscribed(EndpointOf[d])

\* The subscription is read.  Without one the row is dead, if it still is there.
Lookup(s) ==
  /\ pc[s] = "next"
  /\ \E d \in held[s] :
       \/ /\ Unavailable(d)
          /\ IF Exists(d) THEN Write(s, d, "dead_letter") ELSE UNCHANGED rows
          /\ Advance(s, d)
       \/ /\ ~Unavailable(d)
          /\ pc' = [pc EXCEPT ![s] = "try"]
          /\ cur' = [cur EXCEPT ![s] = d]
          /\ UNCHANGED <<rows, held, copy>>
  /\ UNCHANGED <<subs, seenOut, crashes>>

\* MUTANT of Answers: any answer of the endpoint counts as a delivery.
AnswersAny(d) == IF secret[EndpointOf[d]] THEN {<<TRUE, "ok">>, <<FALSE, "ok">>, <<FALSE, "fail">>}
                 ELSE {<<FALSE, "fail">>}

\* What a post can come to: accepted and answered, accepted with the answer
\* lost, or not accepted.  Without the secret nothing is posted.
Answers(d) == IF secret[EndpointOf[d]] THEN {<<TRUE, "ok">>, <<TRUE, "fail">>, <<FALSE, "fail">>}
              ELSE {<<FALSE, "fail">>}

Send(s) ==
  LET d == cur[s] IN
  /\ pc[s] = "try"
  /\ tried' = [tried EXCEPT ![d] = IF @ < MaxAttempts THEN @ + 1 ELSE @]
  /\ \E answer \in Answers(d) :
       /\ accepted' = [accepted EXCEPT ![d] = @ \/ answer[1]]
       /\ pc' = [pc EXCEPT ![s] = answer[2]]
  /\ UNCHANGED <<subs, rows, held, copy, cur, crashes>>

\* The conflict of a removed row is an error like any other of the attempt.
SaveDelivered(s) ==
  LET d == cur[s] IN
  /\ pc[s] = "ok"
  /\ \/ Exists(d) /\ Write(s, d, "delivered") /\ Advance(s, d)
     \/ ~Exists(d) /\ pc' = [pc EXCEPT ![s] = "fail"] /\ UNCHANGED <<rows, held, copy, cur>>
  /\ UNCHANGED <<subs, seenOut, crashes>>

\* MUTANT of Dead: one attempt too many.
DeadLate(a) == a > MaxAttempts

Dead(a) == a >= MaxAttempts

\* Here it leaves deliver_due, and the process with it.
SaveFailed(s) ==
  LET d == cur[s] IN
  /\ pc[s] = "fail"
  /\ \/ /\ Exists(d)
        /\ Write(s, d, IF Dead(copy[s][d] + 1) THEN "dead_letter" ELSE "pending")
        /\ Advance(s, d)
     \/ ~Exists(d) /\ Leave(s) /\ UNCHANGED rows
  /\ UNCHANGED <<subs, seenOut, crashes>>

Crash(s) ==
  /\ pc[s] # "idle"
  /\ crashes < MaxCrashes
  /\ crashes' = crashes + 1
  /\ Leave(s)
  /\ UNCHANGED <<subs, rows, seenOut>>

-----------------------------------------------------------------------------
Administer(p) == \/ PutSecret(p) \/ Store(p) \/ CreateAudited(p)
                 \/ DeleteAudited(p) \/ DeleteRow(p) \/ DeleteSecret(p)

Deliver(s) == \/ Claim(s) \/ BatchDone(s) \/ Lookup(s) \/ Send(s)
              \/ SaveDelivered(s) \/ SaveFailed(s)

Next ==
  \/ \E p \in Endpoints : Administer(p)
  \/ \E d \in Deliveries : Emit(d) \/ Due(d)
  \/ \E s \in Schedulers : Deliver(s) \/ Crash(s)

\* The schedulers run (and are restarted), posts time out, and time passes.
Fairness ==
  /\ \A s \in Schedulers : WF_vars(Deliver(s))
  /\ \A d \in Deliveries : WF_vars(Due(d))

SafeSpec == Init /\ [][Next]_vars

Spec == SafeSpec /\ Fairness

-----------------------------------------------------------------------------
(* Properties. *)

\* No row is given up early: a dead one was tried MaxAttempts times, although
\* two schedulers that hold the same row overwrite each other's count.
DeadLetterEarned == \A d \in Deliveries : stat[d] = "dead_letter" => tried[d] = MaxAttempts

\* A row that says delivered was accepted by its endpoint, whoever saved it.
DeliveredAccepted == \A d \in Deliveries : stat[d] = "delivered" => accepted[d]

\* Every row is settled, or removed with its subscription, however often leases
\* run out, schedulers crash or take each other's rows.
Settles ==
  \A d \in Deliveries : (stat[d] \in Active) ~> (stat[d] \in {"delivered", "dead_letter", "removed"})

-----------------------------------------------------------------------------
(* The inductive invariant behind the safety properties. *)

RowInv(d) ==
  /\ Exists(d) => Subscribed(EndpointOf[d])
  /\ stat[d] \in Active \cup {"unborn"} => att[d] < MaxAttempts
  /\ att[d] <= tried[d]
  /\ stat[d] = "dead_letter" => tried[d] = MaxAttempts
  /\ stat[d] = "delivered" => accepted[d]

\* The copy of a claimed row is behind what its endpoint saw, and the attempt
\* under way is in it.
SchedulerInv(s) ==
  /\ \A d \in held[s] : copy[s][d] <= tried[d] /\ copy[s][d] < MaxAttempts
  /\ pc[s] \in {"try", "ok", "fail"} => cur[s] \in held[s]
  /\ pc[s] \in {"ok", "fail"} => copy[s][cur[s]] < tried[cur[s]]
  /\ pc[s] = "ok" => accepted[cur[s]]

\* Every scheduler's batch agrees with the rows and with what the endpoints saw.
IInv ==
  /\ TypeOK
  /\ \A d \in Deliveries : RowInv(d)
  /\ \A s \in Schedulers : SchedulerInv(s)
=============================================================================
