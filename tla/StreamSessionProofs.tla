------------------------ MODULE StreamSessionProofs ------------------------
(***************************************************************************)
(* A stream session has one live segment at a time, for any number of      *)
(* segments, workers, clients, crashes, lapsed leases and errors; and      *)
(* while no lease lapses its chain ends where it should.                   *)
(*                                                                         *)
(* The argument: a segment is created only by a worker that has completed  *)
(* the one before (windowed), a completed segment never becomes live       *)
(* again, and the only record that is ever deleted is one its creator is   *)
(* still alone with, so that no part of the chain is cut off.              *)
(***************************************************************************)
EXTENDS StreamSession, TLAPS

LEMMA StatusFacts ==
  /\ Terminal = {"completed", "failed", "cancelled"}
  /\ Live = {"queued", "running", "pausing", "paused", "cancelling"}
  /\ S!RunStatus = Live \cup Terminal
BY DEF Terminal, Live, S!Terminal, S!RunStatus, S!Active

LEMMA InitInv == Init => IInv
<1>. SUFFICES ASSUME Init PROVE IInv
  OBVIOUS
<1>0. MaxSegment \in Nat /\ MaxRequests \in Nat /\ MaxCrashes \in Nat /\ MaxLapses \in Nat /\ MaxErrors \in Nat
  BY SessionAssumption
<1>1. TypeOK
  BY <1>0, StatusFacts DEF Init, TypeOK, Segments
<1>2. ChainInv
  BY <1>0 DEF Init, ChainInv, Segments
<1>3. \A w \in Workers : WorkerInv(w)
  BY DEF Init, WorkerInv, Rolling, Inserting
<1>. QED BY <1>1, <1>2, <1>3 DEF Init, IInv

-----------------------------------------------------------------------------
(* Steps that give one segment i a status s and leave everything else that   *)
(* the invariant speaks of alone.                                            *)

LEMMA ClientStep ==
  ASSUME IInv, NEW i \in Segments, NEW s \in S!RunStatus, status[i] \in Live,
         status' = [status EXCEPT ![i] = s],
         status[i] = "queued" => s = "cancelled",
         UNCHANGED <<windowed, next, entry, worker>>
  PROVE  ChainInv' /\ (\A w \in Workers : WorkerInv(w)')
         /\ status' \in [Segments -> S!RunStatus \cup {"none"}]
<1>0. /\ status \in [Segments -> S!RunStatus \cup {"none"}]
      /\ status[i] # "none" /\ status[i] \notin Terminal /\ s # "none"
  BY StatusFacts DEF IInv, TypeOK
<1>1. /\ status' \in [Segments -> S!RunStatus \cup {"none"}]
      /\ \A k \in Segments : k # i => status'[k] = status[k]
      /\ status'[i] = s
  BY <1>0
<1>2. ChainInv'
  BY <1>0, <1>1 DEF IInv, ChainInv
<1>3. ASSUME NEW w \in Workers PROVE WorkerInv(w)'
  <2>0. WorkerInv(w) /\ at' = at /\ seg' = seg
    BY DEF IInv, worker
  <2>1. CASE at[w] \in Inserting
    <3>1. seg[w] \in Segments /\ seg[w] + 1 \in Segments
      BY <2>0, <2>1, SessionAssumption DEF WorkerInv, Segments, Inserting, Rolling
    <3>2. status'[seg[w] + 1] \in {"queued", "cancelled"}
      BY <1>1, <2>0, <2>1, <3>1, StatusFacts DEF WorkerInv
    <3>. QED BY <2>0, <2>1, <3>2 DEF WorkerInv
  <2>2. CASE at[w] \notin Inserting
    BY <2>0, <2>2 DEF WorkerInv
  <2>. QED BY <2>1, <2>2
<1>. QED BY <1>1, <1>2, <1>3

LEMMA ClientsInv ==
  ASSUME IInv,
         \/ \E i \in Segments : Pause(i) \/ Resume(i)
         \/ \E c \in Clients : FindCurrent(c) \/ CancelCurrent(c)
  PROVE  IInv'
<1>0. requests' \in 0..MaxRequests
  BY SessionAssumption DEF Pause, Resume, FindCurrent, CancelCurrent, IInv, TypeOK, bounds
<1>1. ASSUME NEW i \in Segments, Pause(i) \/ Resume(i) PROVE IInv'
  <2>1. PICK s \in S!RunStatus : /\ status' = [status EXCEPT ![i] = s]
                                 /\ status[i] \in Live /\ status[i] # "queued"
    BY <1>1, StatusFacts DEF Pause, Resume, Set
  <2>2. UNCHANGED <<windowed, next, entry, worker, client, crashes, lapses, errors>>
    BY <1>1 DEF Pause, Resume
  <2>3. /\ ChainInv' /\ (\A w \in Workers : WorkerInv(w)')
        /\ status' \in [Segments -> S!RunStatus \cup {"none"}]
    BY <2>1, <2>2, ClientStep
  <2>. QED BY <1>0, <2>2, <2>3 DEF IInv, TypeOK, worker, client
<1>2. ASSUME NEW c \in Clients, FindCurrent(c) PROVE IInv'
  <2>1. PICK i \in Segments : cseg' = [cseg EXCEPT ![c] = i]
    BY <1>2 DEF FindCurrent
  <2>2. cat' = [cat EXCEPT ![c] = "found"] /\ UNCHANGED <<run, entry, worker, asked, crashes, lapses, errors>>
    BY <1>2 DEF FindCurrent
  <2>3. TypeOK'
    BY <1>0, <2>1, <2>2 DEF IInv, TypeOK, run, worker
  <2>4. ChainInv' /\ \A w \in Workers : WorkerInv(w)'
    BY <2>2 DEF IInv, ChainInv, WorkerInv, run, worker
  <2>5. \A d \in Clients : cat'[d] = "found" => cseg'[d] \in Segments
    BY <2>1, <2>2 DEF IInv, TypeOK
  <2>. QED BY <2>3, <2>4, <2>5 DEF IInv
<1>3. ASSUME NEW c \in Clients, CancelCurrent(c) PROVE IInv'
  <2>. DEFINE i == cseg[c]
  <2>1. i \in Segments /\ UNCHANGED <<windowed, next, entry, worker, bounds>>
    BY <1>3 DEF IInv, CancelCurrent
  <2>2. /\ ChainInv' /\ (\A w \in Workers : WorkerInv(w)')
        /\ status' \in [Segments -> S!RunStatus \cup {"none"}] /\ asked' \subseteq Segments
    <3>1. CASE status[i] \in Live
      <4>1. /\ status' = [status EXCEPT ![i] = Target(status[i])] /\ asked' = asked \cup {i}
            /\ Target(status[i]) \in S!RunStatus
            /\ status[i] = "queued" => Target(status[i]) = "cancelled"
        BY <1>3, <3>1, StatusFacts DEF CancelCurrent, Set, Target
      <4>. HIDE DEF i
      <4>. QED BY <2>1, <3>1, <4>1, ClientStep DEF IInv, TypeOK
    <3>2. CASE status[i] \notin Live
      BY <1>3, <2>1, <3>2 DEF CancelCurrent, IInv, TypeOK, ChainInv, WorkerInv, worker
    <3>. QED BY <3>1, <3>2
  <2>3. cat' = [cat EXCEPT ![c] = "idle"] /\ cseg' = [cseg EXCEPT ![c] = NoSegment]
    BY <1>3 DEF CancelCurrent
  <2>4. TypeOK'
    BY <2>1, <2>2, <2>3 DEF IInv, TypeOK, worker, bounds
  <2>5. \A d \in Clients : cat'[d] = "found" => cseg'[d] \in Segments
    BY <2>3 DEF IInv, TypeOK
  <2>. QED BY <2>2, <2>4, <2>5 DEF IInv
<1>. QED BY <1>1, <1>2, <1>3

-----------------------------------------------------------------------------
(* A step of worker w on the segment i it executes, which may set the        *)
(* segment's status, renew or end its entry, and complete it.                *)

LEMMA ExecStep ==
  ASSUME IInv, NEW w \in Workers, NEW i \in Segments, NEW s \in S!RunStatus,
         NEW e \in {"new", "held", "stale", "acked"}, NEW p, NEW g, NEW done \in BOOLEAN,
         entry[i] # "none",
         status' = [status EXCEPT ![i] = s],
         entry' = [entry EXCEPT ![i] = e],
         windowed' = [windowed EXCEPT ![i] = done], windowed[i] => done, done => s \in Terminal,
         at' = [at EXCEPT ![w] = p], seg' = [seg EXCEPT ![w] = g],
         p \notin {"consume", "enqueue", "link"},
         p # "idle" => g = i,
         p = "roll" => done /\ i < MaxSegment
  PROVE  ChainInv' /\ (\A u \in Workers : WorkerInv(u)')
         /\ status' \in [Segments -> S!RunStatus \cup {"none"}]
         /\ entry' \in [Segments -> {"none", "new", "held", "stale", "acked"}]
         /\ windowed' \in [Segments -> BOOLEAN]
<1>0. /\ status[i] # "none" /\ s # "none"
      /\ status \in [Segments -> S!RunStatus \cup {"none"}]
      /\ entry \in [Segments -> {"none", "new", "held", "stale", "acked"}]
      /\ windowed \in [Segments -> BOOLEAN]
      /\ at \in [Workers -> {"idle", "run", "wait", "stop", "store", "roll", "consume", "enqueue", "link"}]
      /\ seg \in [Workers -> Segments \cup {NoSegment}]
  BY StatusFacts DEF IInv, TypeOK, ChainInv
<1>1. /\ status' \in [Segments -> S!RunStatus \cup {"none"}]
      /\ \A k \in Segments : k # i => status'[k] = status[k]
      /\ status'[i] = s
  BY <1>0
<1>2. /\ entry' \in [Segments -> {"none", "new", "held", "stale", "acked"}]
      /\ \A k \in Segments : k # i => entry'[k] = entry[k]
      /\ entry'[i] # "none"
  BY <1>0
<1>3. /\ windowed' \in [Segments -> BOOLEAN]
      /\ \A k \in Segments : windowed[k] => windowed'[k]
      /\ \A k \in Segments : k # i => windowed'[k] = windowed[k]
      /\ windowed'[i] = done
  BY <1>0, Zenon
<1>4. ChainInv'
  BY <1>0, <1>1, <1>2, <1>3 DEF IInv, ChainInv
<1>5. ASSUME NEW u \in Workers PROVE WorkerInv(u)'
  <2>1. CASE u = w
    <3>1. at'[u] = p /\ seg'[u] = g
      BY <1>0, <2>1
    <3>. QED BY <1>2, <1>3, <3>1 DEF WorkerInv, Rolling, Inserting
  <2>2. CASE u # w
    <3>0. at'[u] = at[u] /\ seg'[u] = seg[u] /\ WorkerInv(u)
      BY <1>0, <2>2 DEF IInv
    <3>1. at[u] # "idle" => seg[u] \in Segments /\ entry'[seg[u]] # "none"
      BY <1>2, <3>0 DEF WorkerInv
    <3>2. at[u] \in Rolling => windowed'[seg[u]] /\ seg[u] < MaxSegment
      BY <1>3, <3>0, <3>1 DEF WorkerInv, Rolling
    <3>3. ASSUME at[u] \in Inserting
          PROVE  /\ status'[seg[u] + 1] \in {"queued", "cancelled"} /\ entry'[seg[u] + 1] = "none"
                 /\ \A v \in Workers \ {u} : at'[v] \in Inserting => seg'[v] # seg'[u]
      <4>1. seg[u] + 1 \in Segments /\ seg[u] + 1 # i
        BY <3>0, <3>1, <3>2, <3>3, SessionAssumption DEF WorkerInv, Segments, Inserting, Rolling
      <4>2. ASSUME NEW v \in Workers \ {u}, at'[v] \in Inserting PROVE seg'[v] # seg'[u]
        <5>1. v # w
          BY <1>0, <4>2 DEF Inserting
        <5>. QED BY <1>0, <3>0, <3>3, <4>2, <5>1 DEF WorkerInv
      <4>. QED BY <1>1, <1>2, <3>0, <3>3, <4>1, <4>2 DEF WorkerInv
    <3>. QED BY <3>0, <3>1, <3>2, <3>3 DEF WorkerInv
  <2>. QED BY <2>1, <2>2
<1>. QED BY <1>1, <1>2, <1>3, <1>4, <1>5

\* What the steps below leave to be shown: the types of the rest.
LEMMA ExecTyped ==
  ASSUME IInv, ChainInv', \A u \in Workers : WorkerInv(u)', UNCHANGED client,
         status' \in [Segments -> S!RunStatus \cup {"none"}],
         entry' \in [Segments -> {"none", "new", "held", "stale", "acked"}],
         windowed' \in [Segments -> BOOLEAN], next' \in [Segments -> BOOLEAN],
         NEW w \in Workers,
         NEW p \in {"idle", "run", "wait", "stop", "store", "roll", "consume", "enqueue", "link"},
         NEW g \in Segments \cup {NoSegment},
         at' = [at EXCEPT ![w] = p], seg' = [seg EXCEPT ![w] = g],
         requests' \in 0..MaxRequests, crashes' \in 0..MaxCrashes,
         lapses' \in 0..MaxLapses, errors' \in 0..MaxErrors
  PROVE  IInv'
<1>1. TypeOK'
  BY DEF IInv, TypeOK, client
<1>. QED BY <1>1 DEF IInv, client

LEMMA ExecuteStep ==
  ASSUME IInv, NEW w \in Workers, NEW i \in Segments, entry[i] # "none",
         status' = [status EXCEPT ![i] = status'[i]], status'[i] \in S!RunStatus,
         entry' = [entry EXCEPT ![i] = entry'[i]], entry'[i] \in {"new", "held", "stale", "acked"},
         windowed' = [windowed EXCEPT ![i] = windowed'[i]], windowed'[i] \in BOOLEAN,
         windowed[i] => windowed'[i], windowed'[i] => status'[i] \in Terminal,
         at' = [at EXCEPT ![w] = at'[w]], at'[w] \in {"idle", "run", "wait", "stop", "store", "roll"},
         seg' = [seg EXCEPT ![w] = seg'[w]], seg'[w] \in Segments \cup {NoSegment},
         at'[w] # "idle" => seg'[w] = i,
         at'[w] = "roll" => windowed'[i] /\ i < MaxSegment,
         next' \in [Segments -> BOOLEAN], UNCHANGED client,
         requests' \in 0..MaxRequests, crashes' \in 0..MaxCrashes,
         lapses' \in 0..MaxLapses, errors' \in 0..MaxErrors
  PROVE  IInv'
<1>. DEFINE s == status'[i]  e == entry'[i]  d == windowed'[i]  p == at'[w]  g == seg'[w]
<1>1. /\ s \in S!RunStatus /\ e \in {"new", "held", "stale", "acked"} /\ d \in BOOLEAN
      /\ status' = [status EXCEPT ![i] = s] /\ entry' = [entry EXCEPT ![i] = e]
      /\ windowed' = [windowed EXCEPT ![i] = d] /\ (windowed[i] => d) /\ (d => s \in Terminal)
      /\ at' = [at EXCEPT ![w] = p] /\ seg' = [seg EXCEPT ![w] = g]
      /\ p \in {"idle", "run", "wait", "stop", "store", "roll"} /\ g \in Segments \cup {NoSegment}
      /\ (p # "idle" => g = i) /\ (p = "roll" => d /\ i < MaxSegment)
  OBVIOUS
<1>. HIDE DEF s, e, d, p, g
<1>2. p \notin {"consume", "enqueue", "link"}
  BY <1>1
<1>3. /\ ChainInv' /\ (\A u \in Workers : WorkerInv(u)')
      /\ status' \in [Segments -> S!RunStatus \cup {"none"}]
      /\ entry' \in [Segments -> {"none", "new", "held", "stale", "acked"}]
      /\ windowed' \in [Segments -> BOOLEAN]
  BY ZenonT(60), <1>1, <1>2, ExecStep
<1>. QED BY <1>1, <1>3, ExecTyped

LEMMA ExecuteInv ==
  ASSUME IInv, NEW w \in Workers,
         \/ \E i \in Segments : Take(w, i)
         \/ Checkpoint(w) \/ Stopped(w) \/ Fault(w) \/ MediaDone(w) \/ Complete(w) \/ Crash(w)
  PROVE  IInv'
<1>0. /\ status \in [Segments -> S!RunStatus \cup {"none"}]
      /\ entry \in [Segments -> {"none", "new", "held", "stale", "acked"}]
      /\ windowed \in [Segments -> BOOLEAN] /\ next \in [Segments -> BOOLEAN]
      /\ at \in [Workers -> {"idle", "run", "wait", "stop", "store", "roll", "consume", "enqueue", "link"}]
      /\ seg \in [Workers -> Segments \cup {NoSegment}]
      /\ requests \in 0..MaxRequests /\ crashes \in 0..MaxCrashes
      /\ lapses \in 0..MaxLapses /\ errors \in 0..MaxErrors
  BY DEF IInv, TypeOK
<1>a. /\ at[w] # "idle" => seg[w] \in Segments /\ entry[seg[w]] # "none"
      /\ \A k \in Segments : windowed[k] => status[k] \in Terminal
      /\ \A k \in Segments : entry[k] # "none" => status[k] # "none"
  BY DEF IInv, ChainInv, WorkerInv
<1>1. ASSUME NEW i \in Segments, Take(w, i) PROVE IInv'
  <2>1. UNCHANGED <<windowed, next, client, bounds>> /\ entry[i] # "none" /\ at[w] = "idle"
    BY <1>1 DEF Take
  <2>2. /\ status' = [status EXCEPT ![i] = status'[i]] /\ status'[i] \in S!RunStatus
        /\ entry' = [entry EXCEPT ![i] = entry'[i]] /\ entry'[i] \in {"held", "acked"}
        /\ status[i] \in Terminal => status'[i] \in Terminal
    BY <1>0, <1>1, StatusFacts DEF Take, Set
  <2>3. /\ at' = [at EXCEPT ![w] = at'[w]] /\ at'[w] \in {"idle", "run"}
        /\ seg' = [seg EXCEPT ![w] = seg'[w]] /\ seg'[w] \in Segments \cup {NoSegment}
        /\ at'[w] # "idle" => seg'[w] = i
    BY <1>0, <1>1, <2>1 DEF Take, Goto, worker
  <2>4. windowed' = [windowed EXCEPT ![i] = windowed'[i]] /\ windowed'[i] \in BOOLEAN
        /\ (windowed[i] => windowed'[i]) /\ (windowed'[i] => status[i] \in Terminal)
    BY <1>0, <1>a, <2>1, Zenon
  <2>. QED BY <1>0, <2>1, <2>2, <2>3, <2>4, ExecuteStep DEF bounds
<1>. DEFINE i == seg[w]
<1>2. ASSUME Checkpoint(w) \/ Stopped(w) \/ Fault(w) \/ MediaDone(w) \/ Crash(w) PROVE IInv'
  <2>1. /\ UNCHANGED <<windowed, next, client, requests, lapses, errors>> /\ crashes' \in 0..MaxCrashes
        /\ i \in Segments /\ entry[i] # "none" /\ at[w] # "idle"
    BY <1>0, <1>2, <1>a, SessionAssumption DEF Checkpoint, Stopped, Fault, MediaDone, Crash, bounds, run
  <2>2. /\ status' = [status EXCEPT ![i] = status'[i]] /\ status'[i] \in S!RunStatus
        /\ status[i] \in Terminal => status'[i] \in Terminal
    BY <1>0, <1>2, <1>a, <2>1, StatusFacts DEF Checkpoint, Stopped, Fault, MediaDone, Crash, Set, run
  <2>3. entry' = [entry EXCEPT ![i] = entry'[i]] /\ entry'[i] \in {"new", "held", "stale", "acked"}
    BY <1>0, <1>2, <2>1 DEF Checkpoint, Stopped, Fault, MediaDone, Crash, Return
  <2>4. /\ at' = [at EXCEPT ![w] = at'[w]] /\ at'[w] \in {"idle", "run", "wait", "stop", "store"}
        /\ seg' = [seg EXCEPT ![w] = seg'[w]] /\ seg'[w] \in Segments \cup {NoSegment}
        /\ at'[w] # "idle" => seg'[w] = i
    BY <1>0, <1>2, <2>1 DEF Checkpoint, Stopped, Fault, MediaDone, Crash, Return, Goto
  <2>5. windowed' = [windowed EXCEPT ![i] = windowed'[i]] /\ windowed'[i] \in BOOLEAN
        /\ (windowed[i] => windowed'[i]) /\ (windowed'[i] => status[i] \in Terminal)
    BY <1>0, <1>a, <2>1, Zenon
  <2>. HIDE DEF i
  <2>. QED BY <1>0, <2>1, <2>2, <2>3, <2>4, <2>5, ExecuteStep
<1>3. ASSUME Complete(w) PROVE IInv'
  <2>1. UNCHANGED <<next, client, bounds>> /\ i \in Segments /\ entry[i] # "none" /\ at[w] = "store"
    BY <1>3, <1>a DEF Complete
  <2>2. /\ status' = [status EXCEPT ![i] = status'[i]] /\ status'[i] \in S!RunStatus
        /\ status'[i] \in Terminal
    BY <1>0, <1>3, <2>1, StatusFacts DEF Complete, Set
  <2>3. /\ entry' = [entry EXCEPT ![i] = entry'[i]] /\ entry'[i] \in {"new", "held", "stale", "acked"}
    BY <1>0, <1>3, <2>1 DEF Complete, Return
  <2>4. /\ at' = [at EXCEPT ![w] = at'[w]] /\ at'[w] \in {"idle", "roll"}
        /\ seg' = [seg EXCEPT ![w] = seg'[w]] /\ seg'[w] \in Segments \cup {NoSegment}
        /\ at'[w] # "idle" => seg'[w] = i
    BY <1>0, <1>3, <2>1 DEF Complete, Return, Goto
  <2>5. \/ windowed' = [windowed EXCEPT ![i] = TRUE] /\ i < MaxSegment
        \/ windowed' = windowed /\ at'[w] = "idle"
    BY <1>0, <1>3 DEF Complete, Return, Goto
  <2>. HIDE DEF i
  <2>6. windowed' = [windowed EXCEPT ![i] = windowed'[i]] /\ windowed'[i] \in BOOLEAN
        /\ (windowed[i] => windowed'[i])
    BY <1>0, <2>1, <2>5, Zenon
  <2>7. at'[w] = "roll" => windowed'[i] /\ i < MaxSegment
    BY <1>0, <2>1, <2>5
  <2>. QED BY <1>0, <2>1, <2>2, <2>3, <2>4, <2>6, <2>7, ExecuteStep DEF bounds
<1>. QED BY <1>1, <1>2, <1>3

-----------------------------------------------------------------------------
(* Rolling over. *)

\* A rolling worker returns, or its lease lapses, and no segment changes.
LEMMA RollReturns ==
  ASSUME IInv, NEW w \in Workers, at[w] \in Rolling, Return(w),
         UNCHANGED <<status, windowed, client, requests, crashes, lapses>>,
         next' \in [Segments -> BOOLEAN], errors' \in 0..MaxErrors
  PROVE  IInv'
<1>. DEFINE i == seg[w]
<1>0. /\ status \in [Segments -> S!RunStatus \cup {"none"}]
      /\ entry \in [Segments -> {"none", "new", "held", "stale", "acked"}]
      /\ windowed \in [Segments -> BOOLEAN]
      /\ at \in [Workers -> {"idle", "run", "wait", "stop", "store", "roll", "consume", "enqueue", "link"}]
      /\ seg \in [Workers -> Segments \cup {NoSegment}]
      /\ requests \in 0..MaxRequests /\ crashes \in 0..MaxCrashes /\ lapses \in 0..MaxLapses
  BY DEF IInv, TypeOK
<1>1. /\ i \in Segments /\ entry[i] # "none" /\ windowed[i] /\ status[i] \in Terminal
  BY DEF IInv, WorkerInv, ChainInv, Rolling
<1>2. status' = [status EXCEPT ![i] = status'[i]] /\ status'[i] \in S!RunStatus /\ status'[i] \in Terminal
  BY <1>0, <1>1, StatusFacts
<1>3. /\ entry' = [entry EXCEPT ![i] = entry'[i]] /\ entry'[i] = "acked"
      /\ at' = [at EXCEPT ![w] = at'[w]] /\ at'[w] = "idle"
      /\ seg' = [seg EXCEPT ![w] = seg'[w]] /\ seg'[w] = NoSegment
  BY <1>0, <1>1 DEF Return, Goto
<1>4. windowed' = [windowed EXCEPT ![i] = windowed'[i]] /\ windowed'[i] \in BOOLEAN /\ windowed'[i]
  BY <1>0, <1>1, Zenon
<1>. HIDE DEF i
<1>. QED BY <1>0, <1>1, <1>2, <1>3, <1>4, ExecuteStep

\* The entry's state alone changes.
LEMMA LapseInv ==
  ASSUME IInv, NEW w \in Workers, Lapse(w)
  PROVE  IInv'
<1>0. /\ seg[w] \in Segments /\ entry' = [entry EXCEPT ![seg[w]] = "stale"] /\ entry[seg[w]] = "held"
      /\ entry \in [Segments -> {"none", "new", "held", "stale", "acked"}]
      /\ UNCHANGED <<run, worker, client, requests, crashes, errors>> /\ lapses' \in 0..MaxLapses
  BY SessionAssumption DEF IInv, TypeOK, WorkerInv, Lapse
<1>1. /\ entry' \in [Segments -> {"none", "new", "held", "stale", "acked"}]
      /\ \A k \in Segments : entry'[k] = "none" <=> entry[k] = "none"
  BY <1>0
<1>2. TypeOK' /\ ChainInv'
  BY <1>0, <1>1 DEF IInv, TypeOK, ChainInv, run, worker, client
<1>3. ASSUME NEW u \in Workers PROVE WorkerInv(u)'
  <2>1. at[u] \in Inserting => seg[u] + 1 \in Segments
    BY SessionAssumption DEF IInv, WorkerInv, Inserting, Rolling, Segments
  <2>. QED BY <1>0, <1>1, <2>1 DEF IInv, WorkerInv, run, worker
<1>. QED BY <1>0, <1>2, <1>3 DEF IInv, client

\* A rolling worker goes on to p; the next segment j gets status s and entry e.
LEMMA RollStep ==
  ASSUME IInv, NEW w \in Workers, at[w] \in Rolling,
         NEW p \in {"idle", "consume", "enqueue", "link"}, NEW g \in Segments \cup {NoSegment},
         NEW s \in S!RunStatus \cup {"none"}, NEW e \in {"none", "new", "held", "stale", "acked"},
         at' = [at EXCEPT ![w] = p], seg' = [seg EXCEPT ![w] = g],
         p = "idle" \/ g = seg[w],
         status' = [status EXCEPT ![seg[w] + 1] = s],
         entry' = [entry EXCEPT ![seg[w] + 1] = e, ![seg[w]] = entry'[seg[w]]],
         entry'[seg[w]] \in {"new", "held", "stale", "acked"},
         UNCHANGED windowed,
         \* the segment is there to stay, or the worker was alone with it
         \/ s = status[seg[w] + 1] /\ e = entry[seg[w] + 1] /\ p \in {"enqueue", "link"}
              /\ (p = "enqueue" => at[w] \in Inserting)
         \/ /\ at[w] \in Inserting \/ status[seg[w] + 1] = "none"
            /\ s = "none" => e = "none"
            /\ p \in {"consume", "enqueue"} => s \in {"queued", "cancelled"} /\ e = "none"
  PROVE  ChainInv' /\ (\A u \in Workers : WorkerInv(u)')
         /\ status' \in [Segments -> S!RunStatus \cup {"none"}]
         /\ entry' \in [Segments -> {"none", "new", "held", "stale", "acked"}]
<1>. DEFINE i == seg[w]  j == seg[w] + 1
<1>0. /\ status \in [Segments -> S!RunStatus \cup {"none"}]
      /\ entry \in [Segments -> {"none", "new", "held", "stale", "acked"}]
      /\ at \in [Workers -> {"idle", "run", "wait", "stop", "store", "roll", "consume", "enqueue", "link"}]
      /\ seg \in [Workers -> Segments \cup {NoSegment}]
  BY DEF IInv, TypeOK
<1>1. /\ i \in Segments /\ j \in Segments /\ j = i + 1 /\ i # j /\ i \in Nat
      /\ entry[i] # "none" /\ windowed[i] /\ i < MaxSegment
  BY SessionAssumption DEF IInv, WorkerInv, Rolling, Segments
<1>2. /\ status' \in [Segments -> S!RunStatus \cup {"none"}]
      /\ \A k \in Segments : k # j => status'[k] = status[k]
      /\ status'[j] = s
  BY <1>0, <1>1
<1>3. /\ entry' \in [Segments -> {"none", "new", "held", "stale", "acked"}]
      /\ \A k \in Segments : k # j /\ k # i => entry'[k] = entry[k]
      /\ entry'[j] = e /\ entry'[i] # "none"
  BY <1>0, <1>1
<1>4. ~(s = status[j] /\ e = entry[j]) => ~windowed[j] /\ entry[j] = "none"
  BY <1>1, StatusFacts DEF IInv, ChainInv, WorkerInv, Inserting, Rolling
<1>5. ChainInv'
  <2>1. \A k \in Segments : windowed[k] => status'[k] \in Terminal /\ entry'[k] # "none"
    BY <1>0, <1>1, <1>2, <1>3, <1>4 DEF IInv, ChainInv
  <2>2. \A k \in Segments : entry'[k] # "none" => status'[k] # "none"
    BY <1>0, <1>1, <1>2, <1>3, <1>4 DEF IInv, ChainInv
  <2>3. ASSUME NEW k \in Segments, NEW l \in Segments, k < l, status'[l] # "none" PROVE windowed[k]
    <3>1. CASE l = j
      <4>1. k = i \/ k < i
        BY <1>1, <2>3, <3>1 DEF Segments
      <4>2. status[i] # "none"
        BY <1>1 DEF IInv, ChainInv
      <4>. QED BY <1>1, <4>1, <4>2 DEF IInv, ChainInv
    <3>2. CASE l # j
      BY <1>2, <2>3, <3>2 DEF IInv, ChainInv
    <3>. QED BY <3>1, <3>2
  <2>. QED BY <2>1, <2>2, <2>3 DEF ChainInv
<1>6. ASSUME NEW u \in Workers, u # w, at[u] \in Inserting
      PROVE  /\ seg[u] + 1 \in Segments /\ seg[u] \in Nat /\ seg[u] + 1 # i
             /\ seg[u] = i => p = "link" \/ p = "idle"
             /\ seg[u] = i => s = status[j] /\ e = entry[j]
  <2>1. /\ seg[u] + 1 \in Segments /\ seg[u] \in Nat
        /\ status[seg[u] + 1] \in {"queued", "cancelled"} /\ entry[seg[u] + 1] = "none"
        /\ at[w] \in Inserting => seg[w] # seg[u]
    BY <1>6, SessionAssumption DEF IInv, WorkerInv, Inserting, Rolling, Segments
  <2>. QED BY <1>1, <2>1 DEF Inserting
<1>7. ASSUME NEW u \in Workers PROVE WorkerInv(u)'
  <2>1. CASE u = w
    <3>1. at'[u] = p /\ seg'[u] = g
      BY <1>0, <2>1
    <3>2. CASE p = "idle"
      BY <3>1, <3>2 DEF WorkerInv, Rolling, Inserting
    <3>3. CASE p # "idle"
      <4>1. seg'[u] = i
        BY <3>1, <3>3
      <4>2. ASSUME p \in Inserting
            PROVE  /\ status'[j] \in {"queued", "cancelled"} /\ entry'[j] = "none"
                   /\ \A v \in Workers \ {w} : at'[v] \in Inserting => seg'[v] # i
        <5>1. s \in {"queued", "cancelled"} /\ e = "none"
          BY <1>1, <4>2 DEF IInv, WorkerInv, Inserting, Rolling
        <5>2. \A v \in Workers \ {w} : at'[v] = at[v] /\ seg'[v] = seg[v]
          BY <1>0
        <5>. QED BY <1>2, <1>3, <1>6, <4>2, <5>1, <5>2 DEF Inserting
      <4>. QED BY <1>1, <1>3, <2>1, <3>1, <4>1, <4>2 DEF WorkerInv
    <3>. QED BY <3>2, <3>3
  <2>2. CASE u # w
    <3>0. at'[u] = at[u] /\ seg'[u] = seg[u] /\ WorkerInv(u)
      BY <1>0, <2>2 DEF IInv
    <3>1. at[u] # "idle" => seg[u] \in Segments /\ entry'[seg[u]] # "none"
      BY <1>1, <1>3, <1>4, <3>0 DEF WorkerInv
    <3>2. at[u] \in Rolling => windowed'[seg[u]] /\ seg[u] < MaxSegment
      BY <3>0 DEF WorkerInv
    <3>3. ASSUME at[u] \in Inserting
          PROVE  /\ status'[seg[u] + 1] \in {"queued", "cancelled"} /\ entry'[seg[u] + 1] = "none"
                 /\ \A v \in Workers \ {u} : at'[v] \in Inserting => seg'[v] # seg[u]
      <4>1. /\ seg[u] + 1 \in Segments /\ seg[u] \in Nat /\ seg[u] + 1 # i
            /\ seg[u] = i => p = "link" \/ p = "idle"
            /\ seg[u] = i => s = status[j] /\ e = entry[j]
        BY <1>6, <2>2, <3>3
      <4>2. status'[seg[u] + 1] = status[seg[u] + 1] /\ entry'[seg[u] + 1] = entry[seg[u] + 1]
        BY <1>1, <1>2, <1>3, <4>1
      <4>3. ASSUME NEW v \in Workers \ {u}, at'[v] \in Inserting PROVE seg'[v] # seg[u]
        <5>1. CASE v = w
          <6>1. at'[v] = p /\ seg'[v] = i
            BY <1>0, <4>3, <5>1 DEF Inserting
          <6>. QED BY <4>1, <4>3, <6>1 DEF Inserting
        <5>2. CASE v # w
          BY <1>0, <3>0, <3>3, <4>3, <5>2 DEF WorkerInv
        <5>. QED BY <5>1, <5>2
      <4>. QED BY <3>0, <3>3, <4>2, <4>3 DEF WorkerInv
    <3>. QED BY <3>0, <3>1, <3>2, <3>3 DEF WorkerInv
  <2>. QED BY <2>1, <2>2
<1>. QED BY <1>2, <1>3, <1>5, <1>7

LEMMA RollInv ==
  ASSUME IInv, NEW w \in Workers,
         RollCreate(w) \/ RollConsume(w) \/ RollEnqueue(w) \/ RollError(w) \/ RollLink(w)
  PROVE  IInv'
<1>. DEFINE i == seg[w]  j == seg[w] + 1
<1>0. /\ status \in [Segments -> S!RunStatus \cup {"none"}]
      /\ entry \in [Segments -> {"none", "new", "held", "stale", "acked"}]
      /\ windowed \in [Segments -> BOOLEAN] /\ next \in [Segments -> BOOLEAN]
      /\ at \in [Workers -> {"idle", "run", "wait", "stop", "store", "roll", "consume", "enqueue", "link"}]
      /\ seg \in [Workers -> Segments \cup {NoSegment}]
      /\ requests \in 0..MaxRequests /\ crashes \in 0..MaxCrashes
      /\ lapses \in 0..MaxLapses /\ errors \in 0..MaxErrors
  BY DEF IInv, TypeOK
<1>1. /\ at[w] \in Rolling /\ i \in Segments /\ j \in Segments /\ j # i
      /\ entry[i] # "none" /\ entry[i] \in {"new", "held", "stale", "acked"}
      /\ at[w] \in Inserting => status[j] \in {"queued", "cancelled"} /\ entry[j] = "none"
  BY <1>0, SessionAssumption DEF IInv, WorkerInv, Rolling, Inserting, Segments,
       RollCreate, RollConsume, RollEnqueue, RollError, RollLink
<1>2. /\ UNCHANGED <<windowed, client, requests, crashes, lapses>> /\ errors' \in 0..MaxErrors
      /\ next' \in [Segments -> BOOLEAN]
  <2>1. UNCHANGED <<windowed, client, requests, crashes, lapses>> /\ errors' \in 0..MaxErrors
    BY <1>0, SessionAssumption DEF RollCreate, RollConsume, RollEnqueue, RollError, RollLink, bounds, run
  <2>2. next' = next \/ next' = [next EXCEPT ![i] = TRUE]
    BY DEF RollCreate, RollConsume, RollEnqueue, RollError, RollLink, run
  <2>. QED BY <1>0, <1>1, <2>1, <2>2, Zenon
<1>3. CASE Return(w) /\ status' = status
  BY <1>1, <1>2, <1>3, RollReturns
<1>4. ASSUME NEW p \in {"idle", "consume", "enqueue", "link"}, NEW g \in Segments \cup {NoSegment},
             NEW s \in S!RunStatus \cup {"none"}, NEW e \in {"none", "new", "held", "stale", "acked"},
             at' = [at EXCEPT ![w] = p], seg' = [seg EXCEPT ![w] = g],
             p = "idle" \/ g = i,
             status' = [status EXCEPT ![j] = s],
             entry' = [entry EXCEPT ![j] = e, ![i] = entry'[i]],
             entry'[i] \in {"new", "held", "stale", "acked"},
             \/ s = status[j] /\ e = entry[j] /\ p \in {"enqueue", "link"}
                  /\ (p = "enqueue" => at[w] \in Inserting)
             \/ /\ at[w] \in Inserting \/ status[j] = "none"
                /\ s = "none" => e = "none"
                /\ p \in {"consume", "enqueue"} => s \in {"queued", "cancelled"} /\ e = "none"
      PROVE  IInv'
  <2>1. /\ ChainInv' /\ (\A u \in Workers : WorkerInv(u)')
        /\ status' \in [Segments -> S!RunStatus \cup {"none"}]
        /\ entry' \in [Segments -> {"none", "new", "held", "stale", "acked"}]
    BY <1>1, <1>2, <1>4, RollStep
  <2>. QED BY <1>0, <1>2, <1>4, <2>1, ExecTyped
<1>5. seg = [seg EXCEPT ![w] = i] /\ entry = [entry EXCEPT ![j] = entry[j], ![i] = entry[i]]
      /\ status = [status EXCEPT ![j] = status[j]] /\ status[j] \in S!RunStatus \cup {"none"}
      /\ entry[j] \in {"none", "new", "held", "stale", "acked"}
  BY <1>0, <1>1
<1>6. CASE RollCreate(w)
  <2>1. CASE status[j] = "none"
    <3>1. entry[j] = "none"
      BY <1>1, <2>1 DEF IInv, ChainInv
    <3>2. /\ at' = [at EXCEPT ![w] = "consume"] /\ seg' = [seg EXCEPT ![w] = i]
          /\ status' = [status EXCEPT ![j] = "queued"] /\ "queued" \in S!RunStatus \cup {"none"}
          /\ entry' = [entry EXCEPT ![j] = "none", ![i] = entry'[i]]
          /\ entry'[i] \in {"new", "held", "stale", "acked"}
      BY <1>1, <1>5, <1>6, <2>1, <3>1, StatusFacts DEF RollCreate, Set, Goto
    <3>. QED BY <1>1, <1>4, <2>1, <3>2
  <2>2. CASE status[j] # "none"
    <3>1. /\ at' = [at EXCEPT ![w] = "link"] /\ seg' = [seg EXCEPT ![w] = i]
          /\ status' = [status EXCEPT ![j] = status[j]]
          /\ entry' = [entry EXCEPT ![j] = entry[j], ![i] = entry'[i]]
          /\ entry'[i] \in {"new", "held", "stale", "acked"}
      BY <1>1, <1>5, <1>6, <2>2 DEF RollCreate, Goto
    <3>. QED BY <1>1, <1>4, <1>5, <3>1
  <2>. QED BY <2>1, <2>2
<1>7. CASE RollConsume(w)
  <2>1. /\ at' = [at EXCEPT ![w] = "enqueue"] /\ seg' = [seg EXCEPT ![w] = i]
        /\ status' = [status EXCEPT ![j] = status[j]]
        /\ entry' = [entry EXCEPT ![j] = entry[j], ![i] = entry'[i]]
        /\ entry'[i] \in {"new", "held", "stale", "acked"} /\ at[w] \in Inserting
    BY <1>1, <1>5, <1>7 DEF RollConsume, Goto, run, Inserting
  <2>. QED BY <1>1, <1>4, <1>5, <2>1
<1>8. CASE RollEnqueue(w)
  <2>0. at[w] \in Inserting
    BY <1>8 DEF RollEnqueue, Inserting
  <2>1. CASE entry' = [entry EXCEPT ![j] = "new"] /\ Goto(w, "link") /\ UNCHANGED <<status, seg>>
    <3>1. /\ at' = [at EXCEPT ![w] = "link"] /\ seg' = [seg EXCEPT ![w] = i]
          /\ status' = [status EXCEPT ![j] = status[j]]
          /\ entry' = [entry EXCEPT ![j] = "new", ![i] = entry'[i]]
          /\ entry'[i] \in {"new", "held", "stale", "acked"} /\ status[j] # "none"
      <4>1. entry' = [entry EXCEPT ![j] = "new", ![i] = entry'[i]] /\ entry'[i] = entry[i]
        <5>. DEFINE f == [entry EXCEPT ![j] = "new"]
        <5>1. f \in [Segments -> {"none", "new", "held", "stale", "acked"}] /\ f[i] = entry[i] /\ entry' = f
          BY <1>0, <1>1, <2>1
        <5>2. f = [f EXCEPT ![i] = f[i]]
          <6>. HIDE DEF f
          <6>. QED BY <1>1, <5>1
        <5>. QED BY <5>1, <5>2, Zenon
      <4>. QED BY <1>1, <1>5, <2>0, <2>1, <4>1 DEF Goto
    <3>. QED BY <1>1, <1>4, <1>5, <2>0, <3>1
  <2>2. CASE status[j] = "queued" /\ Set(j, "failed") /\ Goto(w, "link") /\ UNCHANGED <<entry, seg>>
    <3>1. /\ at' = [at EXCEPT ![w] = "link"] /\ seg' = [seg EXCEPT ![w] = i]
          /\ status' = [status EXCEPT ![j] = "failed"] /\ "failed" \in S!RunStatus \cup {"none"}
          /\ entry' = [entry EXCEPT ![j] = entry[j], ![i] = entry'[i]]
          /\ entry'[i] \in {"new", "held", "stale", "acked"}
      BY <1>1, <1>5, <2>2, StatusFacts DEF Goto, Set
    <3>. QED BY <1>1, <1>4, <1>5, <2>0, <3>1
  <2>3. CASE Return(w) /\ UNCHANGED status
    BY <1>3, <2>3
  <2>. QED BY <1>8, <2>1, <2>2, <2>3 DEF RollEnqueue
<1>9. CASE RollError(w)
  <2>1. CASE at[w] = "consume" /\ Set(j, "none")
    <3>1. /\ at' = [at EXCEPT ![w] = "idle"] /\ seg' = [seg EXCEPT ![w] = NoSegment]
          /\ status' = [status EXCEPT ![j] = "none"]
          /\ entry' = [entry EXCEPT ![j] = entry[j], ![i] = entry'[i]]
          /\ entry'[i] \in {"new", "held", "stale", "acked"} /\ at[w] \in Inserting /\ entry[j] = "none"
      <4>1. at[w] \in Inserting /\ entry[j] = "none" /\ entry' = [entry EXCEPT ![i] = "acked"]
        BY <1>1, <1>9, <2>1 DEF RollError, Return, Inserting
      <4>2. entry' = [entry EXCEPT ![j] = entry[j], ![i] = entry'[i]] /\ entry'[i] = "acked"
        BY <1>0, <1>1, <4>1
      <4>. QED BY <1>9, <2>1, <4>1, <4>2 DEF RollError, Return, Goto, Set
    <3>. QED BY <1>1, <1>4, <1>5, <3>1
  <2>2. CASE UNCHANGED status
    BY <1>3, <1>9, <2>2 DEF RollError
  <2>. QED BY <1>9, <2>1, <2>2 DEF RollError
<1>10. CASE RollLink(w)
  BY <1>3, <1>10 DEF RollLink
<1>. QED BY <1>6, <1>7, <1>8, <1>9, <1>10

-----------------------------------------------------------------------------
LEMMA StepInv == IInv /\ [Next]_vars => IInv'
<1>. SUFFICES ASSUME IInv, [Next]_vars PROVE IInv'
  OBVIOUS
<1>1. CASE UNCHANGED vars
  BY <1>1 DEF IInv, TypeOK, ChainInv, WorkerInv, vars, run, worker, client, bounds
<1>2. CASE \/ \E i \in Segments : Pause(i) \/ Resume(i)
           \/ \E c \in Clients : FindCurrent(c) \/ CancelCurrent(c)
  BY <1>2, ClientsInv
<1>3. ASSUME NEW w \in Workers, Execute(w) \/ Fault(w) \/ RollError(w) \/ Crash(w) \/ Lapse(w)
      PROVE  IInv'
  BY <1>3, ExecuteInv, RollInv, LapseInv DEF Execute
<1>. QED BY <1>1, <1>2, <1>3 DEF Next

\* The chain of segments, the place of every worker in it and the segment of
\* every request agree: the invariant that the other theorems follow from.
THEOREM Invariant == SafeSpec => []IInv
BY InitInv, StepInv, PTL DEF SafeSpec

\* Every variable keeps its type.
THEOREM TypeCorrect == SafeSpec => []TypeOK
<1>1. IInv => TypeOK
  BY DEF IInv
<1>. QED BY <1>1, Invariant, PTL

\* One segment of a session is live at a time, even when leases lapse and two
\* workers execute, complete and roll over the same segment.
THEOREM SessionSerial == SafeSpec => []OneLiveSegment
<1>1. IInv => OneLiveSegment
  <2>. SUFFICES ASSUME IInv, NEW i \in Segments, NEW j \in Segments,
                       status[i] \in Live, status[j] \in Live
                PROVE  i = j
    BY DEF OneLiveSegment
  <2>1. status[i] # "none" /\ status[j] # "none" /\ ~windowed[i] /\ ~windowed[j]
    BY StatusFacts DEF IInv, ChainInv
  <2>2. ~(i < j) /\ ~(j < i)
    BY <2>1 DEF IInv, ChainInv
  <2>. QED BY <2>2, SessionAssumption DEF Segments
<1>. QED BY <1>1, Invariant, PTL

-----------------------------------------------------------------------------
(* The chain while no lease lapses.  A worker then holds the entry of its    *)
(* segment alone, so a segment that was continued stays completed, and the   *)
(* record a failing create_run deletes is one that nobody has linked.        *)

Running == {"run", "wait", "stop", "store"}

\* Who executes or rolls over a segment holds its entry, and is the only one.
Held ==
  /\ \A w \in Workers : at[w] # "idle" => entry[seg[w]] = "held"
  /\ \A w, u \in Workers : at[w] # "idle" /\ at[u] # "idle" /\ seg[w] = seg[u] => w = u

\* A segment whose window was over is completed, and not executed again.
Windows ==
  /\ \A i \in Segments : windowed[i] => status[i] = "completed"
  /\ \A w \in Workers : at[w] \in Running => ~windowed[seg[w]]

\* A segment is linked, or about to be, to a record that is there; a linked one
\* was acknowledged with the link.
Links ==
  /\ \A i \in Segments : next[i] => i < MaxSegment /\ status[i + 1] # "none" /\ entry[i] = "acked"
  /\ \A w \in Workers : at[w] = "link" => status[seg[w] + 1] # "none"

Solo == lapses = 0 => Held /\ Windows /\ Links

LEMMA InitSolo == Init => Solo
BY SessionAssumption DEF Init, Solo, Held, Windows, Links, Running, Segments

\* A step of worker w on a segment i that no other worker has.
LEMMA OwnSolo ==
  ASSUME IInv, Held, Windows, Links, NEW w \in Workers, NEW i \in Segments, ~next[i],
         \A u \in Workers \ {w} : at[u] # "idle" => seg[u] # i,
         NEW s, NEW e, NEW d \in BOOLEAN, NEW p, NEW g,
         status' = [status EXCEPT ![i] = s], s # "none",
         entry' = [entry EXCEPT ![i] = e],
         windowed' = [windowed EXCEPT ![i] = d], d => s = "completed",
         at' = [at EXCEPT ![w] = p], seg' = [seg EXCEPT ![w] = g],
         p # "idle" => g = i /\ e = "held",
         p \in Running => ~d,
         p = "link" => i < MaxSegment /\ status[i + 1] # "none",
         next' = next
  PROVE  Held' /\ Windows' /\ Links'
<1>0. /\ \A u \in Workers \ {w} : at'[u] = at[u] /\ seg'[u] = seg[u]
      /\ at'[w] = p /\ seg'[w] = g
      /\ \A u \in Workers : at[u] # "idle" => seg[u] \in Segments
      /\ \A u \in Workers : at[u] = "link" => seg[u] < MaxSegment
  BY DEF IInv, TypeOK, WorkerInv, Rolling
<1>1. /\ \A k \in Segments : k # i => status'[k] = status[k] /\ entry'[k] = entry[k]
      /\ status'[i] = s /\ entry'[i] = e
  BY DEF IInv, TypeOK
<1>2. (\A k \in Segments : k # i => windowed'[k] = windowed[k]) /\ windowed'[i] = d
  BY DEF IInv, TypeOK
<1>3. Held'
  BY <1>0, <1>1 DEF Held
<1>4. Windows'
  BY <1>0, <1>1, <1>2 DEF Windows, Running
<1>5. \A k \in Segments : k < MaxSegment => k + 1 \in Segments /\ k + 1 # k
  BY SessionAssumption DEF Segments
<1>6. Links'
  BY <1>0, <1>1, <1>5 DEF Links
<1>. QED BY <1>3, <1>4, <1>6

\* A step of the rolling worker w on the next segment, which has no entry yet.
LEMMA NextSolo ==
  ASSUME IInv, Held, Windows, Links, NEW w \in Workers, at[w] \in Rolling,
         NEW s, NEW e, NEW h, NEW p \in {"idle", "consume", "link"}, NEW g,
         entry[seg[w] + 1] = "none",
         status' = [status EXCEPT ![seg[w] + 1] = s],
         \A k \in Segments : k # seg[w] /\ k # seg[w] + 1 => entry'[k] = entry[k],
         entry'[seg[w]] = h, entry'[seg[w] + 1] = e,
         at' = [at EXCEPT ![w] = p], seg' = [seg EXCEPT ![w] = g],
         p # "idle" => g = seg[w] /\ h = "held",
         p = "link" => s # "none",
         UNCHANGED <<windowed, next>>
  PROVE  Held' /\ Windows' /\ Links'
<1>. PICK i : i = seg[w]
  OBVIOUS
<1>0. /\ \A u \in Workers \ {w} : at'[u] = at[u] /\ seg'[u] = seg[u]
      /\ at'[w] = p /\ seg'[w] = g
      /\ \A u \in Workers : at[u] # "idle" => seg[u] \in Segments
      /\ \A u \in Workers : at[u] = "link" => seg[u] < MaxSegment
      /\ at[w] # "idle" /\ i \in Segments /\ i < MaxSegment
  BY DEF IInv, TypeOK, WorkerInv, Rolling
<1>1. /\ i + 1 \in Segments /\ i + 1 # i
      /\ \A k \in Segments : k < MaxSegment => k + 1 \in Segments /\ (k + 1 = i + 1 => k = i)
  BY <1>0, SessionAssumption DEF Segments
<1>2. /\ \A k \in Segments : k # i + 1 => status'[k] = status[k]
      /\ status'[i + 1] = s
  BY <1>1 DEF IInv, TypeOK
<1>3. \A u \in Workers \ {w} : at[u] # "idle" => seg[u] # i /\ seg[u] # i + 1
  BY <1>0 DEF Held
<1>4. ~windowed[i + 1] /\ ~next[i + 1] /\ ~next[i] /\ entry[i] = "held"
  BY <1>0, <1>1 DEF IInv, ChainInv, Links, Held
<1>5. Held'
  BY <1>0, <1>3 DEF Held
<1>6. Windows'
  BY <1>0, <1>2, <1>3, <1>4 DEF Windows, Running
<1>7. Links'
  BY <1>0, <1>1, <1>2, <1>3, <1>4 DEF Links
<1>. QED BY <1>5, <1>6, <1>7

LEMMA ClientsSolo ==
  ASSUME IInv, Held, Windows, Links,
         \/ \E i \in Segments : Pause(i) \/ Resume(i)
         \/ \E c \in Clients : FindCurrent(c) \/ CancelCurrent(c)
  PROVE  Held' /\ Windows' /\ Links'
<1>1. UNCHANGED <<windowed, next, entry, at, seg>>
  BY DEF Pause, Resume, FindCurrent, CancelCurrent, worker, run
<1>2. \A k \in Segments : status'[k] = status[k] \/ (status[k] \in Live /\ status'[k] # "none")
  BY StatusFacts DEF Pause, Resume, FindCurrent, CancelCurrent, Set, Target, run, IInv, TypeOK
<1>3. ASSUME NEW k \in Segments
      PROVE  /\ windowed[k] => status'[k] = status[k]
             /\ status[k] # "none" => status'[k] # "none"
  BY <1>2, StatusFacts DEF IInv, ChainInv
<1>4. \A k \in Segments : k < MaxSegment => k + 1 \in Segments
  BY SessionAssumption DEF Segments
<1>5. \A u \in Workers : at[u] # "idle" => seg[u] \in Segments /\ (at[u] = "link" => seg[u] < MaxSegment)
  BY DEF IInv, WorkerInv, Rolling
<1>6. Held'
  BY <1>1 DEF Held
<1>7. Windows'
  BY <1>1, <1>3 DEF Windows
<1>8. Links'
  BY <1>1, <1>3, <1>4, <1>5 DEF Links
<1>. QED BY <1>6, <1>7, <1>8

LEMMA TakeSolo ==
  ASSUME IInv, Held, Windows, Links, NEW w \in Workers, NEW i \in Segments, Take(w, i)
  PROVE  Held' /\ Windows' /\ Links'
<1>1. /\ entry[i] \in {"new", "stale"} /\ at[w] = "idle" /\ UNCHANGED <<windowed, next>>
      /\ windowed = [windowed EXCEPT ![i] = windowed[i]] /\ windowed[i] \in BOOLEAN
      /\ status[i] # "none" /\ status = [status EXCEPT ![i] = status[i]]
      /\ at = [at EXCEPT ![w] = "idle"] /\ seg = [seg EXCEPT ![w] = seg[w]]
      /\ windowed[i] => status[i] = "completed"
  BY DEF Take, IInv, TypeOK, ChainInv, Windows
<1>2. ~next[i] /\ \A u \in Workers \ {w} : at[u] # "idle" => seg[u] # i
  BY <1>1 DEF Held, Links
<1>4. PICK s : /\ status' = [status EXCEPT ![i] = s] /\ s # "none"
               /\ status[i] \in Terminal => s = status[i]
  BY <1>1, StatusFacts DEF Take, Set
<1>5. windowed[i] => s = "completed"
  BY <1>1, <1>4, StatusFacts
<1>6. CASE entry' = [entry EXCEPT ![i] = "acked"] /\ UNCHANGED worker
  <2>1. at' = [at EXCEPT ![w] = "idle"] /\ seg' = [seg EXCEPT ![w] = seg[w]]
    BY <1>1, <1>6 DEF worker
  <2>. QED BY <1>1, <1>2, <1>4, <1>5, <1>6, <2>1, OwnSolo DEF Running
<1>7. CASE /\ entry' = [entry EXCEPT ![i] = "held"] /\ status[i] \in {"queued", "running", "pausing", "paused"}
           /\ at' = [at EXCEPT ![w] = "run"] /\ seg' = [seg EXCEPT ![w] = i]
  <2>1. ~windowed[i]
    BY <1>1, <1>7
  <2>. QED BY <1>1, <1>2, <1>4, <1>7, <2>1, OwnSolo DEF Running
<1>. QED BY <1>6, <1>7 DEF Take, Goto

LEMMA ExecuteSolo ==
  ASSUME IInv, Held, Windows, Links, NEW w \in Workers,
         Checkpoint(w) \/ Stopped(w) \/ Fault(w) \/ MediaDone(w) \/ Complete(w) \/ Crash(w)
  PROVE  Held' /\ Windows' /\ Links'
<1>1. PICK i \in Segments :
        /\ i = seg[w] /\ at[w] # "idle" /\ entry[i] = "held" /\ status[i] # "none"
        /\ windowed[i] \in BOOLEAN
        /\ at[w] \in Running => ~windowed[i]
        /\ windowed[i] => status[i] = "completed"
  BY DEF Checkpoint, Stopped, Fault, MediaDone, Complete, Crash, IInv, TypeOK, ChainInv, WorkerInv,
         Held, Windows
<1>2. ~next[i] /\ \A u \in Workers \ {w} : at[u] # "idle" => seg[u] # i
  BY <1>1 DEF Held, Links
<1>3. /\ windowed = [windowed EXCEPT ![i] = windowed[i]] /\ status = [status EXCEPT ![i] = status[i]]
      /\ seg = [seg EXCEPT ![w] = i] /\ entry = [entry EXCEPT ![i] = "held"]
      /\ at = [at EXCEPT ![w] = at[w]]
  BY <1>1 DEF IInv, TypeOK
<1>o. ASSUME NEW r, NEW e, NEW p \in {"idle", "run", "wait", "stop", "store"}, NEW g,
             status' = [status EXCEPT ![i] = r], r # "none",
             entry' = [entry EXCEPT ![i] = e],
             windowed' = windowed, windowed[i] => r = "completed",
             at' = [at EXCEPT ![w] = p], seg' = [seg EXCEPT ![w] = g],
             p # "idle" => g = i /\ e = "held" /\ ~windowed[i],
             next' = next
      PROVE  Held' /\ Windows' /\ Links'
  <2>1. PICK d \in BOOLEAN : d = windowed[i]
    BY <1>1, Zenon
  <2>2. windowed' = [windowed EXCEPT ![i] = d]
    BY <1>3, <1>o, <2>1, Zenon
  <2>3. (p \in Running => ~d) /\ (d => r = "completed") /\ (p # "idle" => g = i /\ e = "held") /\ p # "link"
    BY <1>o, <2>1 DEF Running
  <2>. QED BY <1>1, <1>2, <1>o, <2>2, <2>3, OwnSolo
<1>4. CASE Checkpoint(w)
  <2>1. next' = next /\ ~windowed[i] /\ windowed' = windowed
        /\ entry' = [entry EXCEPT ![i] = "held"] /\ seg' = [seg EXCEPT ![w] = i]
    BY <1>1, <1>3, <1>4 DEF Checkpoint, Running
  <2>2. PICK s, p : /\ status' = [status EXCEPT ![i] = s] /\ s # "none"
                    /\ at' = [at EXCEPT ![w] = p] /\ p \in {"run", "wait", "stop"}
    BY <1>1, <1>3, <1>4 DEF Checkpoint, Set, Goto, Running
  <2>. QED BY <1>o, <2>1, <2>2
<1>5. CASE Stopped(w) \/ Fault(w)
  <2>1. next' = next /\ ~windowed[i] /\ windowed' = windowed
        /\ entry' = [entry EXCEPT ![i] = "acked"] /\ seg' = [seg EXCEPT ![w] = NoSegment]
        /\ at' = [at EXCEPT ![w] = "idle"]
    BY <1>1, <1>3, <1>5 DEF Stopped, Fault, Running, Return, Goto
  <2>2. PICK s : status' = [status EXCEPT ![i] = s] /\ s # "none"
    BY <1>1, <1>3, <1>5 DEF Stopped, Fault, Set
  <2>. QED BY <1>o, <2>1, <2>2
<1>6. CASE MediaDone(w)
  <2>1. next' = next /\ ~windowed[i] /\ windowed' = windowed
        /\ entry' = [entry EXCEPT ![i] = "held"] /\ seg' = [seg EXCEPT ![w] = i]
        /\ at' = [at EXCEPT ![w] = "store"] /\ status' = [status EXCEPT ![i] = status[i]]
    BY <1>1, <1>3, <1>6 DEF MediaDone, Running, Goto, run
  <2>. QED BY <1>o, <1>1, <2>1
<1>7. CASE Complete(w)
  <2>1. status' = [status EXCEPT ![i] = "completed"] /\ next' = next
    BY <1>1, <1>7 DEF Complete, Set
  <2>2. CASE /\ windowed' = [windowed EXCEPT ![i] = TRUE]
             /\ Goto(w, "roll") /\ UNCHANGED <<seg, entry>>
    <3>1. /\ entry' = [entry EXCEPT ![i] = "held"] /\ seg' = [seg EXCEPT ![w] = i]
          /\ at' = [at EXCEPT ![w] = "roll"] /\ "roll" \notin Running
      BY <1>3, <2>2 DEF Goto, Running
    <3>. QED BY <1>1, <1>2, <2>1, <2>2, <3>1, OwnSolo
  <2>3. CASE Return(w) /\ UNCHANGED windowed
    <3>1. /\ entry' = [entry EXCEPT ![i] = "acked"] /\ seg' = [seg EXCEPT ![w] = NoSegment]
          /\ at' = [at EXCEPT ![w] = "idle"]
      BY <1>1, <1>3, <2>3 DEF Return, Goto, Running
    <3>. QED BY <1>o, <2>1, <2>3, <3>1
  <2>. QED BY <1>1, <1>7, <2>2, <2>3 DEF Complete
<1>8. CASE Crash(w)
  <2>1. PICK e : entry' = [entry EXCEPT ![i] = e]
    BY <1>1, <1>8 DEF Crash
  <2>2. /\ next' = next /\ seg' = [seg EXCEPT ![w] = NoSegment]
        /\ at' = [at EXCEPT ![w] = "idle"]
        /\ windowed' = windowed /\ status' = [status EXCEPT ![i] = status[i]]
    BY <1>3, <1>8 DEF Crash, Goto, run, Running
  <2>. QED BY <1>o, <1>1, <2>1, <2>2
<1>. QED BY <1>4, <1>5, <1>6, <1>7, <1>8

LEMMA RollSolo ==
  ASSUME IInv, Held, Windows, Links, NEW w \in Workers,
         RollCreate(w) \/ RollConsume(w) \/ RollEnqueue(w) \/ RollError(w) \/ RollLink(w)
  PROVE  Held' /\ Windows' /\ Links'
<1>1. PICK i \in Segments :
        /\ i = seg[w] /\ at[w] # "idle" /\ entry[i] = "held" /\ status[i] # "none"
        /\ windowed[i] = TRUE /\ status[i] = "completed"
        /\ i < MaxSegment /\ at[w] \in Rolling
  BY DEF RollCreate, RollConsume, RollEnqueue, RollError, RollLink, IInv, TypeOK, ChainInv, WorkerInv,
         Held, Windows, Rolling
<1>2. ~next[i] /\ \A u \in Workers \ {w} : at[u] # "idle" => seg[u] # i
  BY <1>1 DEF Held, Links
<1>3. /\ windowed = [windowed EXCEPT ![i] = TRUE] /\ status = [status EXCEPT ![i] = status[i]]
      /\ seg = [seg EXCEPT ![w] = i] /\ entry = [entry EXCEPT ![i] = "held"]
      /\ i + 1 \in Segments /\ i + 1 # i /\ status = [status EXCEPT ![i + 1] = status[i + 1]]
  BY <1>1, SessionAssumption DEF IInv, TypeOK, Segments
<1>4. at[w] \in Inserting => entry[i + 1] = "none" /\ status[i + 1] # "none"
  BY <1>1 DEF IInv, WorkerInv
<1>o. ASSUME NEW e, NEW p \in {"idle", "enqueue", "link"}, NEW g,
             status' = status, windowed' = windowed, next' = next,
             entry' = [entry EXCEPT ![i] = e],
             at' = [at EXCEPT ![w] = p], seg' = [seg EXCEPT ![w] = g],
             p # "idle" => g = i /\ e = "held",
             p = "link" => status[i + 1] # "none"
      PROVE  Held' /\ Windows' /\ Links'
  <2>1. /\ status' = [status EXCEPT ![i] = "completed"] /\ windowed' = [windowed EXCEPT ![i] = TRUE]
        /\ p \notin Running
    BY <1>1, <1>3, <1>o DEF Running
  <2>. QED BY ZenonT(60), <1>1, <1>2, <1>o, <2>1, OwnSolo
<1>n. ASSUME NEW r, NEW e, NEW h, NEW p \in {"idle", "consume", "link"}, NEW g,
             entry[i + 1] = "none",
             status' = [status EXCEPT ![i + 1] = r],
             \A k \in Segments : k # i /\ k # i + 1 => entry'[k] = entry[k],
             entry'[i] = h, entry'[i + 1] = e,
             at' = [at EXCEPT ![w] = p], seg' = [seg EXCEPT ![w] = g],
             p # "idle" => g = i /\ h = "held",
             p = "link" => r # "none",
             UNCHANGED <<windowed, next>>
      PROVE  Held' /\ Windows' /\ Links'
  BY <1>1, <1>n, NextSolo
<1>5. CASE Return(w) /\ UNCHANGED <<status, windowed, next>>
  <2>1. /\ entry' = [entry EXCEPT ![i] = "acked"] /\ seg' = [seg EXCEPT ![w] = NoSegment]
        /\ at' = [at EXCEPT ![w] = "idle"]
    BY <1>1, <1>5 DEF Return, Goto
  <2>. QED BY <1>o, <1>5, <2>1
<1>6. CASE RollCreate(w)
  <2>1. /\ UNCHANGED <<windowed, next, entry>> /\ seg' = [seg EXCEPT ![w] = i]
        /\ entry' = [entry EXCEPT ![i] = "held"]
    BY <1>3, <1>6 DEF RollCreate
  <2>2. CASE status[i + 1] = "none"
    <3>1. entry[i + 1] = "none"
      BY <1>3, <2>2 DEF IInv, ChainInv
    <3>2. status' = [status EXCEPT ![i + 1] = "queued"] /\ at' = [at EXCEPT ![w] = "consume"]
      BY <1>1, <1>6, <2>2 DEF RollCreate, Set, Goto
    <3>. QED BY <1>1, <1>n, <2>1, <3>1, <3>2
  <2>3. CASE status[i + 1] # "none"
    <3>1. status' = status /\ at' = [at EXCEPT ![w] = "link"]
      BY <1>1, <1>6, <2>3 DEF RollCreate, Goto
    <3>. QED BY <1>o, <2>1, <2>3, <3>1
  <2>. QED BY <2>2, <2>3
<1>7. CASE RollConsume(w)
  <2>1. /\ UNCHANGED <<status, windowed, next>> /\ seg' = [seg EXCEPT ![w] = i]
        /\ entry' = [entry EXCEPT ![i] = "held"] /\ at' = [at EXCEPT ![w] = "enqueue"]
    BY <1>3, <1>7 DEF RollConsume, Goto, run
  <2>. QED BY <1>o, <2>1
<1>8. CASE RollEnqueue(w)
  <2>0. entry[i + 1] = "none" /\ status[i + 1] # "none" /\ UNCHANGED <<windowed, next>>
    BY <1>4, <1>8 DEF RollEnqueue, Inserting
  <2>1. CASE entry' = [entry EXCEPT ![i + 1] = "new"] /\ Goto(w, "link") /\ UNCHANGED <<status, seg>>
    <3>1. /\ \A k \in Segments : k # i /\ k # i + 1 => entry'[k] = entry[k]
          /\ entry'[i] = "held" /\ entry'[i + 1] = "new"
      BY <1>1, <1>3, <2>1 DEF IInv, TypeOK
    <3>2. /\ status' = [status EXCEPT ![i + 1] = status[i + 1]] /\ seg' = [seg EXCEPT ![w] = i]
          /\ at' = [at EXCEPT ![w] = "link"]
      BY <1>3, <2>1 DEF Goto
    <3>. QED BY <1>n, <2>0, <3>1, <3>2
  <2>2. CASE Set(i + 1, "failed") /\ Goto(w, "link") /\ UNCHANGED <<entry, seg>>
    <3>1. /\ status' = [status EXCEPT ![i + 1] = "failed"] /\ seg' = [seg EXCEPT ![w] = i]
          /\ at' = [at EXCEPT ![w] = "link"] /\ entry' = entry
      BY <1>3, <2>2 DEF Goto, Set
    <3>. QED BY <1>1, <1>n, <2>0, <3>1
  <2>3. CASE Return(w) /\ UNCHANGED status
    BY <1>5, <2>0, <2>3
  <2>. QED BY <1>1, <1>8, <2>1, <2>2, <2>3 DEF RollEnqueue
<1>9. CASE RollError(w)
  <2>0. Return(w) /\ UNCHANGED <<windowed, next>>
    BY <1>9 DEF RollError
  <2>1. CASE at[w] = "consume" /\ Set(i + 1, "none")
    <3>1. /\ \A k \in Segments : k # i /\ k # i + 1 => entry'[k] = entry[k]
          /\ entry'[i] = "acked" /\ entry'[i + 1] = "none" /\ entry[i + 1] = "none"
      BY <1>1, <1>3, <1>4, <2>0, <2>1 DEF IInv, TypeOK, Return, Inserting
    <3>. QED BY <1>1, <2>0, <2>1, <3>1, NextSolo DEF Return, Goto, Set
  <2>2. CASE UNCHANGED status
    BY <1>5, <2>0, <2>2
  <2>. QED BY <1>1, <1>9, <2>1, <2>2 DEF RollError
<1>10. CASE RollLink(w)
  <2>1. CASE next' = next
    BY <1>5, <1>10, <2>1 DEF RollLink
  <2>2. CASE next' = [next EXCEPT ![i] = TRUE]
    <3>1. Return(w) /\ UNCHANGED <<status, windowed>> /\ status[i + 1] # "none"
      BY <1>1, <1>10 DEF RollLink, Links
    <3>2. /\ \A u \in Workers \ {w} : at'[u] = at[u] /\ seg'[u] = seg[u]
          /\ at'[w] = "idle"
          /\ \A k \in Segments : k # i => entry'[k] = entry[k]
          /\ entry'[i] = "acked"
          /\ \A u \in Workers : at[u] # "idle" => seg[u] \in Segments
      BY <1>1, <3>1 DEF Return, Goto, IInv, TypeOK, WorkerInv
    <3>3. \A k \in Segments : k # i => next'[k] = next[k]
      BY <1>1, <2>2 DEF IInv, TypeOK
    <3>4. Held'
      BY <1>2, <3>2 DEF Held
    <3>5. Windows'
      BY <3>1, <3>2 DEF Windows, Running
    <3>6. Links'
      BY <1>1, <3>1, <3>2, <3>3 DEF Links
    <3>. QED BY <3>4, <3>5, <3>6
  <2>. QED BY <1>1, <1>10, <2>1, <2>2 DEF RollLink
<1>. QED BY <1>6, <1>7, <1>8, <1>9, <1>10

LEMMA StepSolo == IInv /\ Solo /\ [Next]_vars => Solo'
<1>. SUFFICES ASSUME IInv, Solo, [Next]_vars, lapses' = 0 PROVE Held' /\ Windows' /\ Links'
  BY DEF Solo
<1>0. lapses \in Nat
  BY SessionAssumption DEF IInv, TypeOK
<1>1. CASE UNCHANGED vars
  BY <1>1 DEF Solo, Held, Windows, Links, vars, run, worker, bounds
<1>2. CASE \/ \E i \in Segments : Pause(i) \/ Resume(i)
           \/ \E c \in Clients : FindCurrent(c) \/ CancelCurrent(c)
  <2>1. lapses = 0
    BY <1>2 DEF Pause, Resume, FindCurrent, CancelCurrent, bounds
  <2>. QED BY <1>2, <2>1, ClientsSolo DEF Solo
<1>3. ASSUME NEW w \in Workers, NEW i \in Segments, Take(w, i) PROVE Held' /\ Windows' /\ Links'
  BY <1>3, TakeSolo DEF Solo, Take, bounds
<1>4. ASSUME NEW w \in Workers,
             \/ Checkpoint(w) \/ Stopped(w) \/ Fault(w) \/ MediaDone(w) \/ Complete(w) \/ Crash(w)
             \/ RollCreate(w) \/ RollConsume(w) \/ RollEnqueue(w) \/ RollError(w) \/ RollLink(w)
      PROVE  Held' /\ Windows' /\ Links'
  <2>1. lapses = 0
    BY <1>4 DEF Checkpoint, Stopped, Fault, MediaDone, Complete, Crash, RollCreate, RollConsume,
                RollEnqueue, RollError, RollLink, bounds
  <2>. QED BY <1>4, <2>1, ExecuteSolo, RollSolo DEF Solo
<1>5. ASSUME NEW w \in Workers, Lapse(w) PROVE FALSE
  BY <1>0, <1>5 DEF Lapse
<1>. QED BY <1>1, <1>2, <1>3, <1>4, <1>5 DEF Next, Execute

\* While no lease lapses, a failed or cancelled segment is the last of its session
\* and next_run_id names a Run that exists, whatever workers, crashes, requests
\* and errors of create_run do, its deletion of the record included.
THEOREM ChainIsSound == SafeSpec => []ChainSound
<1>1. SafeSpec => []Solo
  <2>1. Init /\ [][Next]_vars /\ []IInv => []Solo
    BY InitSolo, StepSolo, PTL
  <2>. QED BY <2>1, Invariant, PTL DEF SafeSpec
<1>2. IInv /\ Solo => ChainSound
  <2>. SUFFICES ASSUME IInv, Held, Windows, Links, lapses = 0, NEW i \in Segments
                PROVE  /\ i < MaxSegment /\ status[i] \in {"failed", "cancelled"} => status[i + 1] = "none"
                       /\ next[i] => status[i + 1] # "none"
    BY DEF Solo, ChainSound
  <2>1. ASSUME i < MaxSegment, status[i] \in {"failed", "cancelled"} PROVE status[i + 1] = "none"
    <3>1. i + 1 \in Segments /\ i < i + 1
      BY <2>1, SessionAssumption DEF Segments
    <3>. QED BY <2>1, <3>1 DEF IInv, ChainInv, Windows
  <2>. QED BY <2>1 DEF Links
<1>. QED BY <1>1, <1>2, Invariant, PTL
=============================================================================
