------------------------- MODULE SurveillanceAlerts -------------------------
(***************************************************************************)
(* Alerts of a surveillance task: members of a watchlist, the evaluation   *)
(* of sightings by overlapping workers, the debounce row that suppresses   *)
(* repeated alerts, triage, the numbered alert events and the live stream  *)
(* that reads them by cursor.  PostgreSQL transactions are split where     *)
(* another one can get in between.                                         *)
(***************************************************************************)
EXTENDS Integers, Sequences, FiniteSets

CONSTANTS
    Evaluators,      \* workers evaluating run results
    Triagers,        \* API requests deciding alerts
    Persons,         \* identities: each is one debounce key of the binding
    Sightings,       \* observations: [first, last] times in seconds
    Cooldown,        \* cooldown_seconds of the task
    MaxAlerts,       \* bound on the alerts
    MaxCount         \* bound on the sightings counted by an alert

VARIABLES
    enlisted,        \* person -> "none" or the status of its membership
    alerts,          \* alert rows, in the order of their insertion
    debounce,        \* person -> NoDebounce or [until, alert]
    rowLock,         \* person -> transactions that hold the debounce row
    lastCursor,      \* the sequence behind event_cursor
    alertEvents,     \* committed alert events: [cursor, alert, type]
    ereq,            \* evaluators and triagers at work
    stream,          \* the live stream's cursor and the cursors it sent
    bumps            \* history: sightings counted on each alert

alertVars == <<enlisted, alerts, debounce, rowLock, lastCursor, alertEvents, ereq, stream, bumps>>

ASSUME AlertAssumption ==
    /\ Cooldown \in Nat \ {0}
    /\ \A s \in Sightings : s.first \in Nat /\ s.last \in Nat /\ s.first <= s.last

NoDebounce == [none |-> TRUE]
AtRest == [at |-> "idle"]
Proceed(e, r) == ereq' = [ereq EXCEPT ![e] = r]
------------------------------------------------------------------------------
(* Members *)

create_member(p) ==
    /\ enlisted[p] = "none"
    /\ enlisted' = [enlisted EXCEPT ![p] = "active"]
    /\ UNCHANGED <<alerts, debounce, rowLock, lastCursor, alertEvents, ereq, stream, bumps>>

update_member(p, status) ==
    /\ enlisted[p] # "none" /\ enlisted[p] # status
    /\ enlisted' = [enlisted EXCEPT ![p] = status]
    /\ UNCHANGED <<alerts, debounce, rowLock, lastCursor, alertEvents, ereq, stream, bumps>>

delete_member(p) ==
    /\ enlisted[p] # "none"
    /\ enlisted' = [enlisted EXCEPT ![p] = "none"]
    /\ UNCHANGED <<alerts, debounce, rowLock, lastCursor, alertEvents, ereq, stream, bumps>>
------------------------------------------------------------------------------
(* Evaluation of a sighting *)

active_at(p) == enlisted[p] = "active"

\* The window of the idempotency key: first_seen_at rounded down.
WindowStart(s) == (s.first \div Cooldown) * Cooldown

\* _evaluate_observation: the matcher may find any active member; the candidate
\* carries the key of its person and window.
evaluate_observation(e, p, s) ==
    /\ ereq[e] = AtRest
    /\ active_at(p)
    /\ Proceed(e, [at |-> "select", person |-> p, seen |-> s.last, window |-> WindowStart(s),
                  alert |-> 0, cursor |-> 0])
    /\ UNCHANGED <<enlisted, alerts, debounce, rowLock, lastCursor, alertEvents, stream, bumps>>

\* SELECT ... FOR UPDATE of the debounce row; without a row nothing is locked.
SelectDebounce(e) ==
    LET p == ereq[e].person IN
    /\ ereq[e].at = "select" /\ rowLock[p] = {}
    /\ rowLock' = [rowLock EXCEPT ![p] = IF debounce[p] = NoDebounce THEN {} ELSE {e}]
    /\ Proceed(e, [ereq[e] EXCEPT !.at = "decide"])
    /\ UNCHANGED <<enlisted, alerts, debounce, lastCursor, alertEvents, stream, bumps>>

Cooling(e) ==
    LET row == debounce[ereq[e].person] IN
    /\ row # NoDebounce /\ rowLock[ereq[e].person] = {e}
    /\ row.until > ereq[e].seen

\* Within the cooldown the alert is counted up under its row lock, whatever its
\* status: the transaction reads and writes alert and debounce row together.
SuppressAlert(e) ==
    LET p == ereq[e].person
        a == debounce[p].alert IN
    /\ ereq[e].at = "decide" /\ Cooling(e)
    /\ alerts[a].count < MaxCount
    /\ alerts' = [alerts EXCEPT ![a].count = @ + 1, ![a].revision = @ + 1]
    /\ bumps' = [bumps EXCEPT ![a] = @ + 1]
    /\ rowLock' = [rowLock EXCEPT ![p] = {}]
    /\ Proceed(e, AtRest)
    /\ UNCHANGED <<enlisted, debounce, lastCursor, alertEvents, stream>>

\* Mutant.
SameKey_NoUnique(e) == {}

\* Alerts, committed or not, under the idempotency key of the candidate.
SameKey(e) == {a \in DOMAIN alerts :
                  alerts[a].person = ereq[e].person /\ alerts[a].window = ereq[e].window}

\* The key is stored: the alert is returned, or the INSERT that waited for
\* another transaction raises; nothing is written either way.
DuplicateAlert(e) ==
    /\ ereq[e].at = "decide" /\ ~ Cooling(e)
    /\ \E a \in SameKey(e) : alerts[a].committed
    /\ rowLock' = [rowLock EXCEPT ![ereq[e].person] = @ \ {e}]
    /\ Proceed(e, AtRest)
    /\ UNCHANGED <<enlisted, alerts, debounce, lastCursor, alertEvents, stream, bumps>>

\* INSERT of the alert, uncommitted.
InsertAlert(e) ==
    /\ ereq[e].at = "decide" /\ ~ Cooling(e)
    /\ SameKey(e) = {} /\ Len(alerts) < MaxAlerts
    /\ alerts' = Append(alerts, [person |-> ereq[e].person, window |-> ereq[e].window,
                                 status |-> "pending", count |-> 1, revision |-> 1,
                                 committed |-> FALSE])
    /\ bumps' = Append(bumps, 0)
    /\ Proceed(e, [ereq[e] EXCEPT !.at = "upsert", !.alert = Len(alerts) + 1])
    /\ UNCHANGED <<enlisted, debounce, rowLock, lastCursor, alertEvents, stream>>

\* INSERT ... ON CONFLICT of the debounce row, which waits for its lock, then the
\* event takes the next number of the sequence.
insert_event(e) ==
    LET p == ereq[e].person IN
    /\ ereq[e].at = "upsert" /\ rowLock[p] \subseteq {e}
    /\ rowLock' = [rowLock EXCEPT ![p] = {e}]
    /\ lastCursor' = lastCursor + 1
    /\ Proceed(e, [ereq[e] EXCEPT !.at = "commit", !.cursor = lastCursor + 1])
    /\ UNCHANGED <<enlisted, alerts, debounce, alertEvents, stream, bumps>>

CommitAlert(e) ==
    LET r == ereq[e] IN
    /\ r.at = "commit"
    /\ alerts' = [alerts EXCEPT ![r.alert].committed = TRUE]
    /\ debounce' = [debounce EXCEPT ![r.person] =
                        [until |-> r.seen + Cooldown, alert |-> r.alert]]
    /\ rowLock' = [rowLock EXCEPT ![r.person] = {}]
    /\ alertEvents' = alertEvents \cup
           {[cursor |-> r.cursor, alert |-> r.alert, type |-> "alert.triggered"]}
    /\ Proceed(e, AtRest)
    /\ UNCHANGED <<enlisted, lastCursor, stream, bumps>>
------------------------------------------------------------------------------
(* Triage: read the alert, then UPDATE ... WHERE revision and status match *)

triage_alert(t, a, status) ==
    /\ ereq[t] = AtRest
    /\ alerts[a].committed /\ alerts[a].status = "pending"
    /\ Proceed(t, [at |-> "triage", alert |-> a, read |-> alerts[a], status |-> status])
    /\ UNCHANGED <<enlisted, alerts, debounce, rowLock, lastCursor, alertEvents, stream, bumps>>

TriageMatches(t) ==
    /\ alerts[ereq[t].alert].revision = ereq[t].read.revision
    /\ alerts[ereq[t].alert].status = "pending"

\* The document read is written back with the decision; its event takes a number
\* in the same transaction, which is short enough to be one step.
SaveTriage(t) ==
    LET r == ereq[t] IN
    /\ r.at = "triage"
    /\ IF TriageMatches(t)
       THEN /\ alerts' = [alerts EXCEPT ![r.alert] =
                             [r.read EXCEPT !.status = r.status, !.revision = @ + 1]]
            /\ lastCursor' = lastCursor + 1
            /\ alertEvents' = alertEvents \cup
                   {[cursor |-> lastCursor + 1, alert |-> r.alert, type |-> "alert.triaged"]}
       ELSE UNCHANGED <<alerts, lastCursor, alertEvents>>
    /\ Proceed(t, AtRest)
    /\ UNCHANGED <<enlisted, debounce, rowLock, stream, bumps>>
------------------------------------------------------------------------------
(* The live stream polls the events after its cursor *)

events_after == {ev \in alertEvents : ev.cursor > stream.cursor}

surveillance_alert_live_stream ==
    /\ events_after # {}
    /\ stream' = [cursor |-> CHOOSE n \in {ev.cursor : ev \in events_after} :
                                 \A ev \in events_after : ev.cursor <= n,
                  sent |-> stream.sent \cup {ev.cursor : ev \in events_after}]
    /\ UNCHANGED <<enlisted, alerts, debounce, rowLock, lastCursor, alertEvents, ereq, bumps>>

AlertInit ==
    /\ enlisted = [p \in Persons |-> "none"]
    /\ alerts = << >> /\ alertEvents = {} /\ lastCursor = 0 /\ bumps = << >>
    /\ debounce = [p \in Persons |-> NoDebounce]
    /\ rowLock = [p \in Persons |-> {}]
    /\ ereq = [e \in Evaluators \cup Triagers |-> AtRest]
    /\ stream = [cursor |-> 0, sent |-> {}]

AlertNext ==
    \/ \E p \in Persons :
        \/ create_member(p)
        \/ \E s \in {"active", "removed"} : update_member(p, s)
        \/ delete_member(p)
    \/ \E e \in Evaluators :
        \/ \E p \in Persons, s \in Sightings : evaluate_observation(e, p, s)
        \/ SelectDebounce(e)
        \/ SuppressAlert(e)
        \/ DuplicateAlert(e)
        \/ InsertAlert(e)
        \/ insert_event(e)
        \/ CommitAlert(e)
    \/ \E t \in Triagers :
        \/ \E a \in DOMAIN alerts, s \in {"confirmed", "false_positive"} : triage_alert(t, a, s)
        \/ SaveTriage(t)
    \/ surveillance_alert_live_stream

AlertSpec == AlertInit /\ [][AlertNext]_alertVars
------------------------------------------------------------------------------
(* Types *)

WatchlistMember == {"none", "active", "removed"}
AlertRecord == [person : Persons, window : Nat, status : {"pending", "confirmed", "false_positive"},
                count : Nat, revision : Nat, committed : BOOLEAN]
AlertEvent == [cursor : 1..lastCursor, alert : DOMAIN alerts,
               type : {"alert.triggered", "alert.triaged"}]
DebounceState == [until : Nat, alert : DOMAIN alerts]

\* Every record keeps its type.
AlertTypeOK ==
    /\ enlisted \in [Persons -> WatchlistMember]
    /\ alerts \in Seq(AlertRecord)
    /\ alertEvents \subseteq AlertEvent
    /\ \A p \in Persons : debounce[p] = NoDebounce \/ debounce[p] \in DebounceState
------------------------------------------------------------------------------
(* Properties *)

\* Workers that evaluate the same sighting, or two of one window, leave one alert,
\* though the first of them find no debounce row to lock: the unique idempotency
\* key decides.  An alert counts itself and every sighting that was suppressed in
\* its favour: a triage that read the alert earlier writes no older count back.
AlertsExact ==
    /\ AlertTypeOK
    /\ \A a, b \in DOMAIN alerts :
          a # b /\ alerts[a].person = alerts[b].person => alerts[a].window # alerts[b].window
    /\ \A a \in DOMAIN alerts : alerts[a].count = 1 + bumps[a]
==============================================================================
