------------------------ MODULE WebhookOutboxProofs ------------------------
(***************************************************************************)
(* Proofs about the webhook outbox, for any number of subscriptions, rows  *)
(* and schedulers, any batch size and any number of attempts.              *)
(*                                                                         *)
(* The argument: a scheduler's copy of a row's count is never ahead of the *)
(* posts the endpoint has seen, and once it has posted it is strictly      *)
(* behind.  So whichever scheduler writes last, the count it writes was    *)
(* earned.                                                                 *)
(***************************************************************************)
EXTENDS WebhookOutbox, TLAPS

LEMMA InitInv == Init => IInv
<1>. SUFFICES ASSUME Init PROVE IInv
  OBVIOUS
<1>1. TypeOK
  BY OutboxAssumption DEF Init, TypeOK
<1>2. \A d \in Deliveries : RowInv(d)
  BY OutboxAssumption DEF Init, RowInv, Exists, Active
<1>3. \A s \in Schedulers : SchedulerInv(s)
  BY DEF Init, SchedulerInv
<1>. QED BY <1>1, <1>2, <1>3 DEF IInv

-----------------------------------------------------------------------------
(* Subscriptions and time. *)

LEMMA CascadeRows ==
  ASSUME IInv, NEW p \in Endpoints, Cascade(p), UNCHANGED seenOut,
         sub' = [sub EXCEPT ![p] = "gone"] \/ sub' = [sub EXCEPT ![p] = "deleted"]
  PROVE  stat' \in [Deliveries -> Active \cup {"unborn", "delivered", "dead_letter", "removed"}]
         /\ \A d \in Deliveries : RowInv(d)'
<1>1. stat' \in [Deliveries -> Active \cup {"unborn", "delivered", "dead_letter", "removed"}]
  BY DEF IInv, TypeOK, Cascade, Exists
<1>2. ASSUME NEW d \in Deliveries PROVE RowInv(d)'
  <2>1. EndpointOf[d] \in Endpoints /\ RowInv(d)
    BY OutboxAssumption DEF IInv
  <2>2. CASE EndpointOf[d] = p
    BY <2>1, <2>2 DEF Cascade, RowInv, Exists, Active, seenOut, IInv, TypeOK
  <2>3. CASE EndpointOf[d] # p
    BY <2>1, <2>3 DEF Cascade, RowInv, Exists, Active, Subscribed, seenOut, IInv, TypeOK
  <2>. QED BY <2>2, <2>3
<1>. QED BY <1>1, <1>2

\* What a step that leaves the schedulers and the endpoints alone must keep.
LEMMA SchedulersKept ==
  ASSUME IInv, UNCHANGED <<procs, seenOut>>
  PROVE  \A s \in Schedulers : SchedulerInv(s)'
BY DEF IInv, SchedulerInv, procs, seenOut

LEMMA AdministerInv ==
  ASSUME IInv, NEW p \in Endpoints, Administer(p)
  PROVE  IInv'
<1>0. UNCHANGED <<procs, seenOut, crashes>>
  BY DEF Administer, PutSecret, Store, CreateAudited, DeleteAudited, DeleteRow, DeleteSecret
<1>1. \A s \in Schedulers : SchedulerInv(s)'
  BY <1>0, SchedulersKept
<1>2. /\ sub' \in [Endpoints -> {"none", "put", "stored", "on", "audited", "deleted", "gone"}]
      /\ secret' \in [Endpoints -> BOOLEAN]
  BY DEF IInv, TypeOK, Administer, PutSecret, Store, CreateAudited, DeleteAudited, DeleteRow, DeleteSecret
<1>3. /\ stat' \in [Deliveries -> Active \cup {"unborn", "delivered", "dead_letter", "removed"}]
      /\ att' = att /\ due' = due
      /\ \A d \in Deliveries : RowInv(d)'
  <2>1. CASE /\ Cascade(p)
             /\ sub' = [sub EXCEPT ![p] = "gone"] \/ sub' = [sub EXCEPT ![p] = "deleted"]
    BY <1>0, <2>1, CascadeRows DEF Cascade
  <2>2. CASE /\ UNCHANGED rows
             /\ \/ sub[p] \notin {"stored", "on", "audited"}
                \/ sub' = [sub EXCEPT ![p] = "on"] \/ sub' = [sub EXCEPT ![p] = "audited"]
    <3>1. ASSUME NEW d \in Deliveries PROVE RowInv(d)'
      <4>1. EndpointOf[d] \in Endpoints /\ RowInv(d)
        BY OutboxAssumption DEF IInv
      <4>2. Subscribed(EndpointOf[d]) => sub'[EndpointOf[d]] \in {"stored", "on", "audited"}
        BY <2>2, <4>1 DEF IInv, TypeOK, Administer, PutSecret, Store, CreateAudited, DeleteAudited,
             DeleteRow, DeleteSecret, Subscribed
      <4>. QED BY <1>0, <2>2, <4>1, <4>2 DEF RowInv, Exists, Subscribed, rows, seenOut
    <3>. QED BY <2>2, <3>1 DEF IInv, TypeOK, rows
  <2>. QED
    BY <2>1, <2>2 DEF Administer, PutSecret, Store, CreateAudited, DeleteAudited, DeleteRow, DeleteSecret
<1>4. TypeOK'
  BY <1>0, <1>2, <1>3 DEF IInv, TypeOK, procs, seenOut
<1>. QED BY <1>1, <1>3, <1>4 DEF IInv

LEMMA EmitDueInv ==
  ASSUME IInv, NEW d \in Deliveries, Emit(d) \/ Due(d)
  PROVE  IInv'
<1>1. TypeOK'
  <2>1. due' \in [Deliveries -> BOOLEAN]
    <3>1. due \in [Deliveries -> BOOLEAN] /\ due' = [due EXCEPT ![d] = TRUE]
      BY DEF IInv, TypeOK, Emit, Due
    <3>. QED BY <3>1, Zenon
  <2>2. stat' \in [Deliveries -> Active \cup {"unborn", "delivered", "dead_letter", "removed"}]
    BY DEF IInv, TypeOK, Emit, Due, Active
  <2>3. UNCHANGED <<subs, att, procs, seenOut, crashes>>
    BY DEF Emit, Due
  <2>. QED BY <2>1, <2>2, <2>3 DEF IInv, TypeOK, subs, procs, seenOut
<1>2. \A s \in Schedulers : SchedulerInv(s)'
  BY SchedulersKept DEF Emit, Due
<1>3. ASSUME NEW e \in Deliveries PROVE RowInv(e)'
  <2>0. RowInv(e) /\ EndpointOf[e] \in Endpoints
    BY OutboxAssumption DEF IInv
  <2>1. CASE e = d
    BY <2>0, <2>1 DEF IInv, TypeOK, RowInv, Emit, Due, Exists, Active, Subscribed, subs, seenOut
  <2>2. CASE e # d
    BY <2>0, <2>2 DEF IInv, TypeOK, RowInv, Emit, Due, Exists, Active, Subscribed, subs, seenOut
  <2>. QED BY <2>1, <2>2
<1>. QED BY <1>1, <1>2, <1>3 DEF IInv

-----------------------------------------------------------------------------
(* Schedulers. *)

LEMMA ClaimInv ==
  ASSUME IInv, NEW s \in Schedulers, Claim(s)
  PROVE  IInv'
<1>1. PICK batch \in SUBSET Claimable :
        /\ stat' = [d \in Deliveries |-> IF d \in batch THEN "delivering" ELSE stat[d]]
        /\ due' = [d \in Deliveries |-> IF d \in batch THEN FALSE ELSE due[d]]
        /\ held' = [held EXCEPT ![s] = batch]
        /\ copy' = [copy EXCEPT ![s] = [d \in Deliveries |-> IF d \in batch THEN att[d] ELSE 0]]
  BY DEF Claim
<1>2. \A d \in batch : d \in Deliveries /\ stat[d] \in Active
  BY DEF Claimable
<1>3. pc' = [pc EXCEPT ![s] = "next"] /\ UNCHANGED <<subs, att, cur, seenOut, crashes>>
  BY DEF Claim
<1>4. TypeOK'
  <2>1. due' \in [Deliveries -> BOOLEAN]
    BY <1>1 DEF IInv, TypeOK
  <2>2. stat' \in [Deliveries -> Active \cup {"unborn", "delivered", "dead_letter", "removed"}]
    BY <1>1 DEF IInv, TypeOK, Active
  <2>3. held' \in [Schedulers -> SUBSET Deliveries]
    BY <1>1, <1>2 DEF IInv, TypeOK
  <2>4. copy' \in [Schedulers -> [Deliveries -> 0..MaxAttempts]]
    <3>1. [d \in Deliveries |-> IF d \in batch THEN att[d] ELSE 0] \in [Deliveries -> 0..MaxAttempts]
      BY OutboxAssumption DEF IInv, TypeOK
    <3>. QED BY <1>1, <3>1 DEF IInv, TypeOK
  <2>5. pc' \in [Schedulers -> {"idle", "next", "try", "ok", "fail"}]
    BY <1>3 DEF IInv, TypeOK
  <2>. QED BY <1>3, <2>1, <2>2, <2>3, <2>4, <2>5 DEF IInv, TypeOK, subs, seenOut
<1>5. ASSUME NEW d \in Deliveries PROVE RowInv(d)'
  <2>1. RowInv(d) /\ UNCHANGED <<att, tried, accepted, sub>>
    BY <1>3 DEF IInv, subs, seenOut
  <2>2. CASE d \in batch
    BY <1>1, <1>2, <2>1, <2>2 DEF RowInv, Exists, Active, Subscribed
  <2>3. CASE d \notin batch
    BY <1>1, <2>1, <2>3 DEF RowInv, Exists, Subscribed
  <2>. QED BY <2>2, <2>3
<1>6. ASSUME NEW u \in Schedulers PROVE SchedulerInv(u)'
  <2>1. CASE u = s
    <3>1. pc'[u] = "next" /\ held'[u] = batch
      BY <1>1, <1>3, <2>1 DEF IInv, TypeOK
    <3>2. ASSUME NEW d \in batch PROVE copy'[u][d] <= tried'[d] /\ copy'[u][d] < MaxAttempts
      <4>1. copy'[u][d] = att[d] /\ tried' = tried
        BY <1>1, <1>2, <1>3, <2>1 DEF IInv, TypeOK, seenOut
      <4>. QED BY <1>2, <4>1 DEF IInv, RowInv
    <3>. QED BY <3>1, <3>2 DEF SchedulerInv
  <2>2. CASE u # s
    BY <1>1, <1>3, <2>2 DEF IInv, TypeOK, SchedulerInv, seenOut
  <2>. QED BY <2>1, <2>2
<1>. QED BY <1>4, <1>5, <1>6 DEF IInv

LEMMA LeaveInv ==
  ASSUME IInv, NEW s \in Schedulers, Leave(s), UNCHANGED <<subs, rows, seenOut>>,
         crashes' \in 0..MaxCrashes
  PROVE  IInv'
<1>1. TypeOK'
  BY OutboxAssumption DEF IInv, TypeOK, Leave, subs, rows, seenOut
<1>2. \A d \in Deliveries : RowInv(d)'
  BY DEF IInv, RowInv, Exists, Subscribed, subs, rows, seenOut
<1>3. ASSUME NEW u \in Schedulers PROVE SchedulerInv(u)'
  <2>1. CASE u = s
    BY <2>1 DEF IInv, TypeOK, Leave, SchedulerInv
  <2>2. CASE u # s
    BY <2>2 DEF IInv, TypeOK, Leave, SchedulerInv, seenOut
  <2>. QED BY <2>1, <2>2
<1>. QED BY <1>1, <1>2, <1>3 DEF IInv

\* The row a scheduler has an attempt on, and what it may write.
LEMMA WriteInv ==
  ASSUME IInv, NEW s \in Schedulers, NEW d \in Deliveries, d \in held[s],
         NEW status \in {"delivered", "dead_letter", "pending"},
         Exists(d), Write(s, d, status), Advance(s, d), UNCHANGED <<subs, seenOut, crashes>>,
         copy[s][d] < tried[d],
         status = "delivered" => accepted[d],
         status = "dead_letter" => copy[s][d] + 1 >= MaxAttempts,
         status = "pending" => copy[s][d] + 1 < MaxAttempts
  PROVE  IInv'
<1>0. /\ copy[s][d] \in 0..MaxAttempts /\ tried[d] \in 0..MaxAttempts /\ MaxAttempts \in Nat
      /\ copy[s][d] < MaxAttempts
  BY OutboxAssumption DEF IInv, TypeOK, SchedulerInv
<1>1. TypeOK'
  BY <1>0 DEF IInv, TypeOK, Write, Advance, Active, subs, seenOut
<1>2. ASSUME NEW e \in Deliveries PROVE RowInv(e)'
  <2>1. RowInv(e) /\ UNCHANGED <<sub, tried, accepted>>
    BY DEF IInv, subs, seenOut
  <2>2. CASE e = d
    <3>1. stat'[e] = status /\ att'[e] = copy[s][d] + 1
      BY <2>2 DEF IInv, TypeOK, Write
    <3>. QED BY <1>0, <2>1, <2>2, <3>1 DEF RowInv, Exists, Active, Subscribed
  <2>3. CASE e # d
    BY <2>1, <2>3 DEF IInv, TypeOK, Write, RowInv, Exists, Subscribed
  <2>. QED BY <2>2, <2>3
<1>3. ASSUME NEW u \in Schedulers PROVE SchedulerInv(u)'
  <2>1. CASE u = s
    BY <2>1 DEF IInv, TypeOK, Advance, SchedulerInv, seenOut
  <2>2. CASE u # s
    BY <2>2 DEF IInv, TypeOK, Advance, SchedulerInv, seenOut
  <2>. QED BY <2>1, <2>2
<1>. QED BY <1>1, <1>2, <1>3 DEF IInv

\* A removed row is skipped, and a row whose endpoint is known is tried.
LEMMA LookupInv ==
  ASSUME IInv, NEW s \in Schedulers, Lookup(s)
  PROVE  IInv'
<1>1. PICK d \in held[s] :
        \/ Unavailable(d) /\ (IF Exists(d) THEN Write(s, d, "dead_letter") ELSE UNCHANGED rows) /\ Advance(s, d)
        \/ /\ pc' = [pc EXCEPT ![s] = "try"] /\ cur' = [cur EXCEPT ![s] = d]
           /\ UNCHANGED <<rows, held, copy>>
  BY DEF Lookup
<1>2. d \in Deliveries /\ UNCHANGED <<subs, seenOut, crashes>>
  BY DEF IInv, TypeOK, Lookup
<1>3. UNCHANGED rows
  BY <1>1, <1>2 DEF IInv, RowInv, Unavailable
<1>4. /\ UNCHANGED copy
      /\ \/ /\ pc' = [pc EXCEPT ![s] = "next"] /\ held' = [held EXCEPT ![s] = @ \ {d}]
            /\ cur' = [cur EXCEPT ![s] = NoRow]
         \/ /\ pc' = [pc EXCEPT ![s] = "try"] /\ UNCHANGED held /\ cur' = [cur EXCEPT ![s] = d]
  BY <1>1 DEF Advance
<1>5. TypeOK'
  <2>1. pc' \in [Schedulers -> {"idle", "next", "try", "ok", "fail"}]
    BY <1>4 DEF IInv, TypeOK
  <2>2. held' \in [Schedulers -> SUBSET Deliveries]
    BY <1>4 DEF IInv, TypeOK
  <2>3. cur' \in [Schedulers -> Deliveries \cup {NoRow}]
    BY <1>2, <1>4 DEF IInv, TypeOK
  <2>4. UNCHANGED <<sub, secret, stat, att, due, copy, tried, accepted, crashes>>
    BY <1>2, <1>3, <1>4 DEF subs, rows, seenOut
  <2>. QED BY <2>1, <2>2, <2>3, <2>4 DEF IInv, TypeOK
<1>6. \A e \in Deliveries : RowInv(e)'
  BY <1>2, <1>3 DEF IInv, RowInv, Exists, Subscribed, subs, rows, seenOut
<1>7. ASSUME NEW u \in Schedulers PROVE SchedulerInv(u)'
  <2>1. CASE u = s
    BY <1>1, <1>2, <1>4, <2>1 DEF IInv, TypeOK, SchedulerInv, seenOut
  <2>2. CASE u # s
    BY <1>2, <1>4, <2>2 DEF IInv, TypeOK, SchedulerInv, seenOut
  <2>. QED BY <2>1, <2>2
<1>. QED BY <1>5, <1>6, <1>7 DEF IInv

LEMMA SendInv ==
  ASSUME IInv, NEW s \in Schedulers, Send(s)
  PROVE  IInv'
<1>. DEFINE d == cur[s]
<1>0. /\ d \in held[s] /\ d \in Deliveries
      /\ copy[s][d] <= tried[d] /\ copy[s][d] < MaxAttempts
      /\ copy[s][d] \in Nat /\ tried[d] \in 0..MaxAttempts /\ MaxAttempts \in Nat
  BY OutboxAssumption DEF IInv, TypeOK, SchedulerInv, Send
<1>1. /\ tried' = [tried EXCEPT ![d] = IF @ < MaxAttempts THEN @ + 1 ELSE @]
      /\ UNCHANGED <<subs, rows, held, copy, cur, crashes>>
  BY DEF Send
<1>2. PICK answer \in Answers(d) : /\ accepted' = [accepted EXCEPT ![d] = @ \/ answer[1]]
                                   /\ pc' = [pc EXCEPT ![s] = answer[2]]
  BY DEF Send
<1>3. answer \in {<<TRUE, "ok">>, <<TRUE, "fail">>, <<FALSE, "fail">>}
  BY <1>2 DEF Answers
<1>3a. answer[2] \in {"ok", "fail"} /\ answer[1] \in BOOLEAN /\ (answer[2] = "ok" => answer[1])
  <2>1. CASE answer = <<TRUE, "ok">>
    BY <2>1
  <2>2. CASE answer = <<TRUE, "fail">>
    BY <2>2
  <2>3. CASE answer = <<FALSE, "fail">>
    BY <2>3
  <2>. QED BY <1>3, <2>1, <2>2, <2>3, Zenon
<1>. HIDE DEF d
<1>4. /\ tried' \in [Deliveries -> 0..MaxAttempts]
      /\ \A e \in Deliveries : tried'[e] >= tried[e]
      /\ copy[s][d] < tried'[d]
  BY <1>0, <1>1 DEF IInv, TypeOK
<1>5. /\ accepted' \in [Deliveries -> BOOLEAN]
      /\ \A e \in Deliveries : accepted[e] => accepted'[e]
      /\ answer[2] = "ok" => accepted'[d]
  <2>2. accepted \in [Deliveries -> BOOLEAN] /\ accepted' = [accepted EXCEPT ![d] = accepted[d] \/ answer[1]]
    BY <1>2 DEF IInv, TypeOK
  <2>3. accepted' \in [Deliveries -> BOOLEAN]
    BY <1>3a, <2>2, Zenon
  <2>4. \A e \in Deliveries : accepted'[e] = IF e = d THEN accepted[d] \/ answer[1] ELSE accepted[e]
    BY <2>2, Zenon
  <2>. QED BY <1>0, <1>3a, <2>3, <2>4, Zenon
<1>6. TypeOK'
  <2>1. pc' \in [Schedulers -> {"idle", "next", "try", "ok", "fail"}]
    BY <1>2, <1>3a DEF IInv, TypeOK
  <2>2. UNCHANGED <<sub, secret, stat, att, due, held, copy, cur, crashes>>
    BY <1>1 DEF subs, rows
  <2>. QED BY <1>4, <1>5, <2>1, <2>2 DEF IInv, TypeOK
<1>7. ASSUME NEW e \in Deliveries PROVE RowInv(e)'
  <2>1. RowInv(e) /\ UNCHANGED <<sub, stat, att>> /\ tried'[e] \in 0..MaxAttempts
        /\ tried[e] \in Nat /\ att[e] \in Nat /\ tried'[e] >= tried[e]
    BY <1>1, <1>4 DEF IInv, TypeOK, subs, rows
  <2>. QED BY <1>0, <1>5, <2>1 DEF RowInv, Exists, Subscribed
<1>8. ASSUME NEW u \in Schedulers PROVE SchedulerInv(u)'
  <2>0. SchedulerInv(u) /\ TypeOK /\ UNCHANGED <<held, copy, cur>>
    BY <1>1 DEF IInv
  <2>1. \A e \in held[u] : copy[u][e] <= tried'[e] /\ copy[u][e] < MaxAttempts
    BY <1>4, <2>0 DEF SchedulerInv, TypeOK
  <2>2. CASE u = s
    <3>1. pc'[u] \in {"ok", "fail"} /\ (pc'[u] = "ok" => accepted'[d]) /\ cur[u] = d
      <4>1. pc'[u] = answer[2]
        BY <1>2, <2>0, <2>2 DEF TypeOK
      <4>. QED BY <1>5, <1>3a, <2>2, <4>1, Zenon DEF d
    <3>. QED BY <1>0, <1>4, <2>0, <2>1, <2>2, <3>1 DEF SchedulerInv
  <2>3. CASE u # s
    <3>1. pc'[u] = pc[u]
      BY <1>2, <2>0, <2>3 DEF TypeOK
    <3>2. pc[u] \in {"try", "ok", "fail"} => cur[u] \in held[u] /\ cur[u] \in Deliveries
      BY <2>0 DEF SchedulerInv, TypeOK
    <3>3. pc[u] \in {"ok", "fail"} => copy[u][cur[u]] < tried'[cur[u]]
      BY <1>4, <2>0, <3>2 DEF SchedulerInv, TypeOK
    <3>. QED BY <1>5, <2>0, <2>1, <3>1, <3>2, <3>3 DEF SchedulerInv
  <2>. QED BY <2>2, <2>3
<1>. QED BY <1>6, <1>7, <1>8 DEF IInv

LEMMA SaveInv ==
  ASSUME IInv, NEW s \in Schedulers, SaveDelivered(s) \/ SaveFailed(s)
  PROVE  IInv'
<1>. DEFINE d == cur[s]
<1>0. /\ d \in held[s] /\ d \in Deliveries /\ copy[s][d] < tried[d]
      /\ pc[s] = "ok" => accepted[d]
      /\ copy[s][d] \in Nat /\ MaxAttempts \in Nat
  BY OutboxAssumption DEF IInv, TypeOK, SchedulerInv, SaveDelivered, SaveFailed
<1>1. UNCHANGED <<subs, seenOut, crashes>>
  BY DEF SaveDelivered, SaveFailed
<1>2. CASE Exists(d)
  <2>1. CASE SaveDelivered(s)
    <3>1. Write(s, d, "delivered") /\ Advance(s, d) /\ accepted[d]
      BY <1>0, <1>2, <2>1 DEF SaveDelivered
    <3>. HIDE DEF d
    <3>. QED BY <1>0, <1>1, <1>2, <3>1, WriteInv
  <2>2. CASE SaveFailed(s)
    <3>1. Write(s, d, IF Dead(copy[s][d] + 1) THEN "dead_letter" ELSE "pending") /\ Advance(s, d)
      BY <1>2, <2>2 DEF SaveFailed
    <3>. HIDE DEF d
    <3>. QED BY <1>0, <1>1, <1>2, <3>1, WriteInv DEF Dead
  <2>. QED BY <2>1, <2>2
<1>3. CASE ~Exists(d)
  <2>1. CASE SaveFailed(s)
    <3>1. Leave(s) /\ UNCHANGED rows /\ crashes' \in 0..MaxCrashes
      BY <1>1, <1>3, <2>1 DEF SaveFailed, IInv, TypeOK
    <3>. QED BY <1>1, <3>1, LeaveInv
  <2>2. CASE SaveDelivered(s)
    <3>1. pc' = [pc EXCEPT ![s] = "fail"] /\ UNCHANGED <<rows, held, copy, cur>> /\ pc[s] = "ok"
      BY <1>3, <2>2 DEF SaveDelivered
    <3>2. TypeOK'
      BY <1>1, <3>1 DEF IInv, TypeOK, subs, rows, seenOut
    <3>3. \A e \in Deliveries : RowInv(e)'
      BY <1>1, <3>1 DEF IInv, RowInv, Exists, Subscribed, subs, rows, seenOut
    <3>4. \A u \in Schedulers : SchedulerInv(u)'
      BY <1>1, <3>1 DEF IInv, TypeOK, SchedulerInv, seenOut
    <3>. QED BY <3>2, <3>3, <3>4 DEF IInv
  <2>. QED BY <2>1, <2>2
<1>. QED BY <1>2, <1>3

LEMMA StepInv == IInv /\ [Next]_vars => IInv'
<1>. SUFFICES ASSUME IInv, [Next]_vars PROVE IInv'
  OBVIOUS
<1>1. CASE UNCHANGED vars
  BY <1>1 DEF IInv, TypeOK, RowInv, SchedulerInv, Exists, Subscribed, vars, subs, rows, procs, seenOut
<1>2. CASE \E p \in Endpoints : Administer(p)
  BY <1>2, AdministerInv
<1>3. CASE \E d \in Deliveries : Emit(d) \/ Due(d)
  BY <1>3, EmitDueInv
<1>4. CASE \E s \in Schedulers : Deliver(s)
  <2>1. PICK s \in Schedulers : Deliver(s)
    BY <1>4
  <2>2. CASE BatchDone(s)
    BY <2>2, LeaveInv DEF BatchDone, IInv, TypeOK
  <2>. QED BY <2>1, <2>2, ClaimInv, LookupInv, SendInv, SaveInv DEF Deliver
<1>5. CASE \E s \in Schedulers : Crash(s)
  <2>1. PICK s \in Schedulers : Crash(s)
    BY <1>5
  <2>2. crashes' \in 0..MaxCrashes
    BY <2>1, OutboxAssumption DEF Crash, IInv, TypeOK
  <2>. QED BY <2>1, <2>2, LeaveInv DEF Crash
<1>. QED BY <1>1, <1>2, <1>3, <1>4, <1>5 DEF Next

\* Every scheduler's batch agrees with the rows and with what the endpoints
\* saw: the invariant that the other theorems follow from.
THEOREM Invariant == SafeSpec => []IInv
BY InitInv, StepInv, PTL DEF SafeSpec

\* Every variable keeps its type, so no row counts more than MaxAttempts.
THEOREM TypeCorrect == SafeSpec => []TypeOK
<1>1. IInv => TypeOK
  BY DEF IInv
<1>. QED BY <1>1, Invariant, PTL

\* No row is given up before its endpoint was tried MaxAttempts times, however
\* many schedulers overwrite each other's saves.
THEOREM DeadLettersEarned == SafeSpec => []DeadLetterEarned
<1>1. IInv => DeadLetterEarned
  BY DEF IInv, DeadLetterEarned, RowInv
<1>. QED BY <1>1, Invariant, PTL

\* A row marked delivered was accepted by its endpoint.
THEOREM DeliveriesAccepted == SafeSpec => []DeliveredAccepted
<1>1. IInv => DeliveredAccepted
  BY DEF IInv, DeliveredAccepted, RowInv
<1>. QED BY <1>1, Invariant, PTL
=============================================================================
