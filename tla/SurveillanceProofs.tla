------------------------- MODULE SurveillanceProofs -------------------------
(***************************************************************************)
(* Surveillance alerts and tasks, for any number of workers, requests,     *)
(* persons, sightings, watchlists and bindings; and the gallery of the     *)
(* persons they look for, for any number of identities, enrolment          *)
(* requests, feature spaces and restarts.                                  *)
(***************************************************************************)
EXTENDS SurveillanceAlerts, SurveillanceTasks, PortraitGallery, SequenceTheorems, TLAPS

-----------------------------------------------------------------------------
(* Alerts.  A triage holds the document it read while workers count the      *)
(* alert up: equal revisions must mean equal documents.                      *)

AlertStatus == {"pending", "confirmed", "false_positive"}

AlertRequest ==
    {AtRest}
    \cup [at : {"select", "decide", "upsert", "commit"}, person : Persons, seen : Nat,
          window : Nat, alert : Nat, cursor : Nat]
    \cup [at : {"triage"}, alert : Nat, read : AlertRecord, status : AlertStatus]

\* What became of an alert: a committed one does not change within a revision.
Later(old, new) ==
    /\ old.revision <= new.revision
    /\ old.committed /\ old.revision = new.revision => new = old

AlertRequestOK(r) ==
    /\ r.at \in {"upsert", "commit"} => r.alert \in DOMAIN alerts
    /\ r.at = "commit" => r.cursor \in 1 .. lastCursor
    /\ r.at = "triage" => /\ r.alert \in DOMAIN alerts
                          /\ r.read.committed
                          /\ Later(r.read, alerts[r.alert])

AlertRequestsOK ==
    /\ ereq \in [Evaluators \cup Triagers -> AlertRequest]
    /\ \A e \in Evaluators \cup Triagers : AlertRequestOK(ereq[e])

AlertStateOK ==
    /\ AlertTypeOK
    /\ debounce \in [Persons -> DebounceState \cup {NoDebounce}]
    /\ lastCursor \in Nat
    /\ bumps \in Seq(Nat) /\ Len(bumps) = Len(alerts)

OneAlertPerKey ==
    \A a, b \in DOMAIN alerts :
        a # b /\ alerts[a].person = alerts[b].person => alerts[a].window # alerts[b].window

CountsExact == \A a \in DOMAIN alerts : alerts[a].count = 1 + bumps[a]

AlertInv == AlertStateOK /\ AlertRequestsOK /\ OneAlertPerKey /\ CountsExact

\* The window of a sighting is a time.
LEMMA WindowStartNat ==
    ASSUME NEW s \in Sightings PROVE WindowStart(s) \in Nat
<1>1. s.first \in Nat /\ Cooldown \in Nat /\ Cooldown > 0
  BY AlertAssumption
<1>2. s.first \div Cooldown \in Nat
  BY <1>1
<1>3. \A m, n \in Nat : m * n \in Nat
  OBVIOUS
<1> QED BY <1>1, <1>2, <1>3 DEF WindowStart

\* What the requests in flight hold outlives a step of another one: no alert is
\* removed, no number is taken back and a revision stands for one document.
LEMMA AlertRequestsAdvanced ==
    ASSUME AlertRequestsOK, AlertStateOK, AlertStateOK',
           NEW e \in Evaluators \cup Triagers, NEW r \in AlertRequest,
           Proceed(e, r), AlertRequestOK(r)',
           DOMAIN alerts \subseteq DOMAIN alerts', lastCursor <= lastCursor',
           \A a \in DOMAIN alerts : Later(alerts[a], alerts'[a])
    PROVE  AlertRequestsOK'
<1>1. ereq' = [ereq EXCEPT ![e] = r] /\ ereq \in [Evaluators \cup Triagers -> AlertRequest]
  BY DEF Proceed, AlertRequestsOK
<1>2. ereq' \in [Evaluators \cup Triagers -> AlertRequest]
  BY <1>1
<1>3. ASSUME NEW d \in Evaluators \cup Triagers PROVE AlertRequestOK(ereq[d])'
  <2>1. CASE d = e
    BY <1>1, <2>1 DEF AlertRequestOK
  <2>2. CASE d # e
    <3> PICK s : s = ereq[d]
      OBVIOUS
    <3>1. s \in AlertRequest /\ AlertRequestOK(s) /\ ereq'[d] = s
      BY <1>1, <2>2 DEF AlertRequestsOK
    <3>2. s.at = "triage" => Later(s.read, alerts'[s.alert])
      <4> SUFFICES ASSUME s.at = "triage" PROVE Later(s.read, alerts'[s.alert])
        OBVIOUS
      <4>1. s.read \in AlertRecord /\ s.alert \in DOMAIN alerts /\ s.read.committed
        BY <3>1 DEF AlertRequest, AtRest, AlertRequestOK
      <4>2. alerts[s.alert] \in AlertRecord /\ alerts'[s.alert] \in AlertRecord
        <5>1. alerts \in Seq(AlertRecord) /\ alerts' \in Seq(AlertRecord)
          BY DEF AlertStateOK, AlertTypeOK, AlertRecord
        <5> QED BY <4>1, <5>1
      <4>3. Later(s.read, alerts[s.alert]) /\ Later(alerts[s.alert], alerts'[s.alert])
        BY <3>1, <4>1 DEF AlertRequestOK
      <4>4. s.read.revision \in Nat /\ alerts[s.alert].revision \in Nat /\ alerts'[s.alert].revision \in Nat
        BY <4>1, <4>2 DEF AlertRecord
      <4> QED BY <4>1, <4>3, <4>4 DEF Later
    <3>3. AlertRequestOK(s)'
      BY <3>1, <3>2 DEF AlertRequestOK, AlertRequest, AtRest, AlertStateOK
    <3> QED BY <3>1, <3>3 DEF AlertRequestOK
  <2> QED BY <2>1, <2>2
<1> QED BY <1>2, <1>3 DEF AlertRequestsOK

\* A step that leaves the alerts, their events and their counts alone.
LEMMA AlertRequestOnly ==
    ASSUME AlertInv, NEW e \in Evaluators \cup Triagers, NEW r \in AlertRequest,
           Proceed(e, r), AlertRequestOK(r),
           UNCHANGED <<enlisted, alerts, debounce, lastCursor, alertEvents, bumps>>
    PROVE  AlertInv'
<1>1. AlertStateOK'
  BY DEF AlertInv, AlertStateOK, AlertTypeOK, AlertEvent, DebounceState
<1>2. AlertRequestOK(r)'
  BY DEF AlertRequestOK
<1>3. \A a \in DOMAIN alerts : Later(alerts[a], alerts'[a])
  <2> SUFFICES ASSUME NEW a \in DOMAIN alerts PROVE Later(alerts[a], alerts'[a])
    OBVIOUS
  <2>1. alerts[a] \in AlertRecord
    BY DEF AlertInv, AlertStateOK, AlertTypeOK
  <2> QED BY <2>1 DEF Later, AlertRecord
<1>4. lastCursor \in Nat
  BY DEF AlertInv, AlertStateOK
<1>5. AlertRequestsOK'
  BY <1>1, <1>2, <1>3, <1>4, AlertRequestsAdvanced DEF AlertInv
<1> QED BY <1>1, <1>5 DEF AlertInv, OneAlertPerKey, CountsExact

LEMMA AlertInitOK == AlertInit => AlertInv
<1> SUFFICES ASSUME AlertInit PROVE AlertInv
  OBVIOUS
<1>1. AlertStateOK
  BY DEF AlertInit, AlertStateOK, AlertTypeOK, WatchlistMember
<1>2. AlertRequestsOK
  BY DEF AlertInit, AlertRequestsOK, AlertRequest, AlertRequestOK, AtRest
<1> QED BY <1>1, <1>2 DEF AlertInit, AlertInv, OneAlertPerKey, CountsExact

\* A write of one alert that keeps its key.
LEMMA AlertWritten ==
    ASSUME AlertInv, NEW a \in DOMAIN alerts, NEW x \in AlertRecord,
           x.person = alerts[a].person, x.window = alerts[a].window,
           alerts' = [alerts EXCEPT ![a] = x]
    PROVE  /\ alerts' \in Seq(AlertRecord) /\ DOMAIN alerts' = DOMAIN alerts
           /\ Len(alerts') = Len(alerts)
           /\ alerts'[a] = x /\ \A b \in DOMAIN alerts \ {a} : alerts'[b] = alerts[b]
           /\ OneAlertPerKey'
           /\ Later(alerts[a], x) => \A b \in DOMAIN alerts : Later(alerts[b], alerts'[b])
<1>1. alerts \in Seq(AlertRecord)
  BY DEF AlertInv, AlertStateOK, AlertTypeOK
<1>2. alerts' \in Seq(AlertRecord) /\ DOMAIN alerts' = DOMAIN alerts /\ Len(alerts') = Len(alerts)
  BY <1>1
<1>3. alerts'[a] = x /\ \A b \in DOMAIN alerts \ {a} : alerts'[b] = alerts[b]
  BY <1>1
<1>4. OneAlertPerKey'
  BY <1>2, <1>3 DEF AlertInv, OneAlertPerKey
<1>5. \A b \in DOMAIN alerts : alerts[b].revision \in Nat
  <2>1. \A b \in DOMAIN alerts : alerts[b] \in AlertRecord
    BY <1>1
  <2> QED BY <2>1 DEF AlertRecord
<1>6. ASSUME Later(alerts[a], x), NEW b \in DOMAIN alerts PROVE Later(alerts[b], alerts'[b])
  <2>1. CASE b = a
    BY <1>3, <1>6, <2>1
  <2>2. CASE b # a
    BY <1>3, <1>5, <2>2 DEF Later
  <2> QED BY <2>1, <2>2
<1> QED BY <1>2, <1>3, <1>4, <1>6

\* The document a worker writes back.
LEMMA CountedUp ==
    ASSUME NEW y \in AlertRecord
    PROVE  LET x == [y EXCEPT !.count = y.count + 1, !.revision = y.revision + 1] IN
           /\ x \in AlertRecord /\ x.person = y.person /\ x.window = y.window
           /\ x.count = y.count + 1 /\ Later(y, x)
<1>1. y.count \in Nat /\ y.revision \in Nat
  BY DEF AlertRecord
<1> DEFINE x == [y EXCEPT !.count = y.count + 1, !.revision = y.revision + 1]
<1>2. x \in AlertRecord
  <2>1. PICK m \in Nat, n \in Nat : m = y.count + 1 /\ n = y.revision + 1
    BY <1>1
  <2>2. [y EXCEPT !.count = m, !.revision = n] \in AlertRecord
    BY DEF AlertRecord
  <2> QED BY <2>1, <2>2
<1>3. x.person = y.person /\ x.window = y.window /\ x.count = y.count + 1
      /\ x.revision = y.revision + 1
  BY DEF AlertRecord
<1>4. Later(y, x)
  <2> HIDE DEF x
  <2> QED BY <1>1, <1>3 DEF Later
<1> QED BY <1>2, <1>3, <1>4

\* A worker counts the alert up.
LEMMA SuppressStep ==
    ASSUME AlertInv, NEW e \in Evaluators, SuppressAlert(e)
    PROVE  AlertInv'
<1> PICK p : p = ereq[e].person
  OBVIOUS
<1> PICK a : a = debounce[p].alert
  OBVIOUS
<1>1. p \in Persons
  BY DEF AlertInv, AlertRequestsOK, AlertRequest, AtRest, SuppressAlert
<1>2. a \in DOMAIN alerts
  <2>1. debounce[p] \in DebounceState
    BY <1>1 DEF SuppressAlert, Cooling, AlertInv, AlertStateOK
  <2> QED BY <2>1 DEF DebounceState
<1>3. alerts[a] \in AlertRecord /\ alerts \in Seq(AlertRecord) /\ bumps \in Seq(Nat)
      /\ DOMAIN bumps = DOMAIN alerts
  BY <1>2 DEF AlertInv, AlertStateOK, AlertTypeOK
<1> DEFINE x == [alerts[a] EXCEPT !.count = alerts[a].count + 1, !.revision = alerts[a].revision + 1]
<1>4. /\ x \in AlertRecord /\ x.person = alerts[a].person /\ x.window = alerts[a].window
      /\ x.count = alerts[a].count + 1 /\ Later(alerts[a], x)
  BY <1>3, CountedUp
<1>6. alerts' = [alerts EXCEPT ![a] = x] /\ bumps' = [bumps EXCEPT ![a] = @ + 1]
  BY DEF SuppressAlert
<1>7. UNCHANGED <<enlisted, debounce, lastCursor, alertEvents, stream>> /\ Proceed(e, AtRest)
  BY DEF SuppressAlert
<1> HIDE DEF x
<1>8. PICK z : z = x
  OBVIOUS
<1>9. /\ alerts' \in Seq(AlertRecord) /\ DOMAIN alerts' = DOMAIN alerts
      /\ Len(alerts') = Len(alerts) /\ OneAlertPerKey'
      /\ alerts'[a] = x /\ \A b \in DOMAIN alerts \ {a} : alerts'[b] = alerts[b]
      /\ \A b \in DOMAIN alerts : Later(alerts[b], alerts'[b])
  <2>1. z \in AlertRecord /\ z.person = alerts[a].person /\ z.window = alerts[a].window
        /\ Later(alerts[a], z) /\ alerts' = [alerts EXCEPT ![a] = z]
    BY <1>4, <1>6, <1>8
  <2> QED BY <1>2, <1>8, <2>1, AlertWritten
<1>10. bumps' \in Seq(Nat) /\ Len(bumps') = Len(bumps)
  BY <1>2, <1>3, <1>6
<1>11. AlertStateOK'
  BY <1>7, <1>9, <1>10
     DEF AlertInv, AlertStateOK, AlertTypeOK, AlertEvent, DebounceState, AlertRecord
<1>12. CountsExact'
  <2> SUFFICES ASSUME NEW b \in DOMAIN alerts PROVE alerts'[b].count = 1 + bumps'[b]
    BY <1>9 DEF CountsExact
  <2>1. CASE b = a
    <3>1. bumps[a] \in Nat /\ bumps'[a] = bumps[a] + 1 /\ alerts[a].count = 1 + bumps[a]
      BY <1>2, <1>3, <1>6 DEF AlertInv, CountsExact
    <3> QED BY <1>4, <1>9, <2>1, <3>1
  <2>2. CASE b # a
    BY <1>2, <1>3, <1>6, <1>9, <2>2 DEF AlertInv, CountsExact
  <2> QED BY <2>1, <2>2
<1>13. AlertRequestsOK'
  <2>1. AtRest \in AlertRequest /\ AlertRequestOK(AtRest)'
    BY DEF AlertRequest, AlertRequestOK, AtRest
  <2>2. lastCursor <= lastCursor'
    BY <1>7 DEF AlertInv, AlertStateOK
  <2> QED BY <1>7, <1>9, <1>11, <2>1, <2>2, AlertRequestsAdvanced DEF AlertInv
<1> QED BY <1>9, <1>11, <1>12, <1>13 DEF AlertInv

\* A new alert: no alert, committed or not, has its key.
LEMMA InsertStep ==
    ASSUME AlertInv, NEW e \in Evaluators, InsertAlert(e)
    PROVE  AlertInv'
<1> PICK r : r = ereq[e]
  OBVIOUS
<1> PICK x : x = [person |-> r.person, window |-> r.window, status |-> "pending", count |-> 1,
                  revision |-> 1, committed |-> FALSE]
  OBVIOUS
<1> PICK s : s = [r EXCEPT !.at = "upsert", !.alert = Len(alerts) + 1]
  OBVIOUS
<1>1. r \in [at : {"select", "decide", "upsert", "commit"}, person : Persons, seen : Nat,
             window : Nat, alert : Nat, cursor : Nat]
  BY DEF AlertInv, AlertRequestsOK, AlertRequest, AtRest, InsertAlert
<1>2. x \in AlertRecord /\ x.person = r.person /\ x.window = r.window /\ x.count = 1
  BY <1>1 DEF AlertRecord
<1>3. alerts' = Append(alerts, x) /\ bumps' = Append(bumps, 0) /\ Proceed(e, s)
  BY DEF InsertAlert
<1>4. UNCHANGED <<enlisted, debounce, rowLock, lastCursor, alertEvents, stream>>
  BY DEF InsertAlert
<1>5. alerts \in Seq(AlertRecord) /\ bumps \in Seq(Nat) /\ Len(bumps) = Len(alerts)
  BY DEF AlertInv, AlertStateOK, AlertTypeOK
<1>6. /\ alerts' \in Seq(AlertRecord) /\ Len(alerts') = Len(alerts) + 1
      /\ DOMAIN alerts' = DOMAIN alerts \cup {Len(alerts) + 1}
      /\ alerts'[Len(alerts) + 1] = x /\ \A a \in DOMAIN alerts : alerts'[a] = alerts[a]
  BY <1>2, <1>3, <1>5
<1>7. /\ bumps' \in Seq(Nat) /\ Len(bumps') = Len(bumps) + 1
      /\ bumps'[Len(alerts) + 1] = 0 /\ \A a \in DOMAIN alerts : bumps'[a] = bumps[a]
  BY <1>3, <1>5
<1>8. AlertStateOK'
  <2>1. AlertEvent \subseteq AlertEvent'
    BY <1>4, <1>6 DEF AlertEvent
  <2>2. DebounceState \subseteq DebounceState'
    BY <1>4, <1>6 DEF DebounceState
  <2>3. alertEvents' \subseteq AlertEvent'
    BY <1>4, <2>1 DEF AlertInv, AlertStateOK, AlertTypeOK
  <2>4. debounce' \in [Persons -> DebounceState' \cup {NoDebounce}]
    BY <1>4, <2>2 DEF AlertInv, AlertStateOK
  <2>5. \A p \in Persons : debounce'[p] = NoDebounce \/ debounce'[p] \in DebounceState'
    BY <2>4
  <2>6. enlisted' \in [Persons -> WatchlistMember] /\ lastCursor' \in Nat
    BY <1>4 DEF AlertInv, AlertStateOK, AlertTypeOK
  <2> HIDE DEF DebounceState, AlertEvent
  <2> QED BY <1>5, <1>6, <1>7, <2>3, <2>4, <2>5, <2>6
          DEF AlertStateOK, AlertTypeOK, NoDebounce, WatchlistMember, AlertRecord
<1>9. OneAlertPerKey'
  <2>1. \A a \in DOMAIN alerts : ~ (alerts[a].person = x.person /\ alerts[a].window = x.window)
    BY <1>2 DEF InsertAlert, SameKey
  <2>2. DOMAIN alerts = 1 .. Len(alerts) /\ Len(alerts) \in Nat
    BY <1>5
  <2> QED BY <1>6, <2>1, <2>2 DEF AlertInv, OneAlertPerKey
<1>10. CountsExact'
  <2> SUFFICES ASSUME NEW b \in DOMAIN alerts' PROVE alerts'[b].count = 1 + bumps'[b]
    BY DEF CountsExact
  <2>1. CASE b \in DOMAIN alerts
    BY <1>6, <1>7, <2>1 DEF AlertInv, CountsExact
  <2>2. CASE b = Len(alerts) + 1
    BY <1>2, <1>6, <1>7, <2>2
  <2> QED BY <1>6, <2>1, <2>2
<1>11. AlertRequestsOK'
  <2>1. s \in AlertRequest /\ s.at = "upsert" /\ s.alert \in DOMAIN alerts'
    <3>1. Len(alerts) + 1 \in Nat
      BY <1>5
    <3> QED BY <1>1, <1>6, <3>1 DEF AlertRequest
  <2>2. AlertRequestOK(s)'
    BY <2>1 DEF AlertRequestOK
  <2>3. lastCursor <= lastCursor'
    BY <1>4 DEF AlertInv, AlertStateOK
  <2>4. \A a \in DOMAIN alerts : Later(alerts[a], alerts'[a])
    <3>1. \A a \in DOMAIN alerts : alerts[a].revision \in Nat
      <4>1. \A a \in DOMAIN alerts : alerts[a] \in AlertRecord
        BY <1>5
      <4> QED BY <4>1 DEF AlertRecord
    <3> QED BY <1>6, <3>1 DEF Later
  <2> QED BY <1>3, <1>6, <1>8, <2>1, <2>2, <2>3, <2>4, AlertRequestsAdvanced DEF AlertInv
<1> QED BY <1>8, <1>9, <1>10, <1>11 DEF AlertInv

\* The debounce row is taken and the event takes its number.
LEMMA InsertEventStep ==
    ASSUME AlertInv, NEW e \in Evaluators, insert_event(e)
    PROVE  AlertInv'
<1> PICK r : r = ereq[e]
  OBVIOUS
<1> PICK s : s = [r EXCEPT !.at = "commit", !.cursor = lastCursor + 1]
  OBVIOUS
<1>1. r \in [at : {"select", "decide", "upsert", "commit"}, person : Persons, seen : Nat,
             window : Nat, alert : Nat, cursor : Nat] /\ r.alert \in DOMAIN alerts
  BY DEF AlertInv, AlertRequestsOK, AlertRequestOK, AlertRequest, AtRest, insert_event
<1>2. lastCursor' = lastCursor + 1 /\ Proceed(e, s) /\ lastCursor \in Nat
      /\ UNCHANGED <<enlisted, alerts, debounce, alertEvents, stream, bumps>>
  BY DEF insert_event, AlertInv, AlertStateOK
<1>3. AlertStateOK'
  <2>1. AlertEvent \subseteq AlertEvent'
    BY <1>2 DEF AlertEvent
  <2>2. alertEvents' \subseteq AlertEvent'
    BY <1>2, <2>1 DEF AlertInv, AlertStateOK, AlertTypeOK
  <2> QED BY <1>2, <2>2 DEF AlertInv, AlertStateOK, AlertTypeOK, DebounceState
<1>4. s \in AlertRequest /\ s.at = "commit" /\ s.alert = r.alert /\ s.cursor = lastCursor + 1
  <2>1. PICK n \in Nat : n = lastCursor + 1
    BY <1>2
  <2>2. s = [r EXCEPT !.at = "commit", !.cursor = n]
    BY <2>1
  <2> QED BY <1>1, <2>1, <2>2 DEF AlertRequest
<1>5. AlertRequestOK(s)'
  BY <1>1, <1>2, <1>4 DEF AlertRequestOK
<1>6. \A a \in DOMAIN alerts : Later(alerts[a], alerts'[a])
  <2>1. \A a \in DOMAIN alerts : alerts[a] \in AlertRecord
    BY DEF AlertInv, AlertStateOK, AlertTypeOK
  <2>2. \A a \in DOMAIN alerts : alerts[a].revision \in Nat
    BY <2>1 DEF AlertRecord
  <2> QED BY <1>2, <2>2 DEF Later
<1>7. AlertRequestsOK'
  BY <1>2, <1>3, <1>4, <1>5, <1>6, AlertRequestsAdvanced DEF AlertInv
<1> QED BY <1>2, <1>3, <1>7 DEF AlertInv, OneAlertPerKey, CountsExact

\* A committed alert keeps its document.
LEMMA Committed ==
    ASSUME NEW y \in AlertRecord
    PROVE  LET x == [y EXCEPT !.committed = TRUE] IN
           /\ x \in AlertRecord /\ x.person = y.person /\ x.window = y.window
           /\ x.count = y.count /\ Later(y, x)
<1> DEFINE x == [y EXCEPT !.committed = TRUE]
<1>1. x \in AlertRecord /\ x.person = y.person /\ x.window = y.window /\ x.count = y.count
      /\ x.revision = y.revision
  BY DEF AlertRecord
<1>2. y.revision \in Nat
  BY DEF AlertRecord
<1>3. y.committed => x = y
  <2> SUFFICES ASSUME y.committed PROVE x = y
    OBVIOUS
  <2>1. y.committed = TRUE
    BY DEF AlertRecord
  <2> QED BY <2>1 DEF AlertRecord
<1>4. Later(y, x)
  <2> HIDE DEF x
  <2> QED BY <1>1, <1>2, <1>3 DEF Later
<1> QED BY <1>1, <1>4

LEMMA CommitAlertStep ==
    ASSUME AlertInv, NEW e \in Evaluators, CommitAlert(e)
    PROVE  AlertInv'
<1> PICK r : r = ereq[e]
  OBVIOUS
<1>1. r \in [at : {"select", "decide", "upsert", "commit"}, person : Persons, seen : Nat,
             window : Nat, alert : Nat, cursor : Nat]
      /\ r.alert \in DOMAIN alerts /\ r.cursor \in 1 .. lastCursor
  BY DEF AlertInv, AlertRequestsOK, AlertRequestOK, AlertRequest, AtRest, CommitAlert
<1> PICK a : a = r.alert
  OBVIOUS
<1>2. alerts[a] \in AlertRecord /\ a \in DOMAIN alerts
  BY <1>1 DEF AlertInv, AlertStateOK, AlertTypeOK
<1> DEFINE y == [alerts[a] EXCEPT !.committed = TRUE]
<1>3. /\ y \in AlertRecord /\ y.person = alerts[a].person /\ y.window = alerts[a].window
      /\ y.count = alerts[a].count /\ Later(alerts[a], y)
  BY <1>2, Committed
<1>4. /\ alerts' = [alerts EXCEPT ![a] = y]
      /\ debounce' = [debounce EXCEPT ![r.person] = [until |-> r.seen + Cooldown, alert |-> a]]
      /\ alertEvents' = alertEvents \cup
             {[cursor |-> r.cursor, alert |-> a, type |-> "alert.triggered"]}
      /\ Proceed(e, AtRest)
      /\ UNCHANGED <<enlisted, lastCursor, stream, bumps>>
  BY DEF CommitAlert
<1> HIDE DEF y
<1> PICK z : z = y
  OBVIOUS
<1>5. /\ alerts' \in Seq(AlertRecord) /\ DOMAIN alerts' = DOMAIN alerts
      /\ Len(alerts') = Len(alerts) /\ OneAlertPerKey'
      /\ alerts'[a] = z /\ \A b \in DOMAIN alerts \ {a} : alerts'[b] = alerts[b]
      /\ \A b \in DOMAIN alerts : Later(alerts[b], alerts'[b])
  <2>1. /\ z \in AlertRecord /\ z.person = alerts[a].person /\ z.window = alerts[a].window
        /\ Later(alerts[a], z) /\ alerts' = [alerts EXCEPT ![a] = z]
    BY <1>3, <1>4
  <2> QED BY <1>2, <2>1, AlertWritten
<1>6. AlertStateOK'
  <2>1. r.seen + Cooldown \in Nat
    BY <1>1, AlertAssumption
  <2>2. debounce' \in [Persons -> DebounceState' \cup {NoDebounce}]
    <3>1. DebounceState' = DebounceState
      BY <1>5 DEF DebounceState
    <3>2. [until |-> r.seen + Cooldown, alert |-> a] \in DebounceState
      BY <1>2, <2>1 DEF DebounceState
    <3> QED BY <1>1, <1>4, <3>1, <3>2 DEF AlertInv, AlertStateOK
  <2>3. alertEvents' \subseteq AlertEvent'
    <3>1. AlertEvent' = AlertEvent
      BY <1>4, <1>5 DEF AlertEvent
    <3>2. [cursor |-> r.cursor, alert |-> a, type |-> "alert.triggered"] \in AlertEvent
      BY <1>1, <1>2 DEF AlertEvent
    <3> QED BY <1>4, <3>1, <3>2 DEF AlertInv, AlertStateOK, AlertTypeOK
  <2>4. \A p \in Persons : debounce'[p] = NoDebounce \/ debounce'[p] \in DebounceState'
    BY <2>2
  <2> QED BY <1>4, <1>5, <2>2, <2>3, <2>4
          DEF AlertInv, AlertStateOK, AlertTypeOK, AlertRecord, NoDebounce, WatchlistMember
<1>7. CountsExact'
  BY <1>3, <1>4, <1>5 DEF AlertInv, CountsExact
<1>8. AlertRequestsOK'
  <2>1. AtRest \in AlertRequest /\ AlertRequestOK(AtRest)'
    BY DEF AlertRequest, AlertRequestOK, AtRest
  <2>2. lastCursor <= lastCursor'
    BY <1>4 DEF AlertInv, AlertStateOK
  <2> QED BY <1>4, <1>5, <1>6, <2>1, <2>2, AlertRequestsAdvanced DEF AlertInv
<1> QED BY <1>5, <1>6, <1>7, <1>8 DEF AlertInv

\* The document a triage writes back.
LEMMA Decided ==
    ASSUME NEW y \in AlertRecord, NEW status \in AlertStatus
    PROVE  LET x == [y EXCEPT !.status = status, !.revision = y.revision + 1] IN
           /\ x \in AlertRecord /\ x.person = y.person /\ x.window = y.window
           /\ x.count = y.count /\ Later(y, x)
<1>1. y.revision \in Nat
  BY DEF AlertRecord
<1> DEFINE x == [y EXCEPT !.status = status, !.revision = y.revision + 1]
<1>2. x \in AlertRecord
  <2>1. PICK n \in Nat : n = y.revision + 1
    BY <1>1
  <2>2. [y EXCEPT !.status = status, !.revision = n] \in AlertRecord
    BY DEF AlertRecord, AlertStatus
  <2> QED BY <2>1, <2>2
<1>3. x.person = y.person /\ x.window = y.window /\ x.count = y.count
      /\ x.revision = y.revision + 1
  BY DEF AlertRecord
<1>4. Later(y, x)
  <2> HIDE DEF x
  <2> QED BY <1>1, <1>3 DEF Later
<1> QED BY <1>2, <1>3, <1>4

\* The decision is written over the document that was read, when its revision is
\* still the stored one: then it is the stored document.
LEMMA SaveTriageStep ==
    ASSUME AlertInv, NEW t \in Triagers, SaveTriage(t)
    PROVE  AlertInv'
<1> PICK r : r = ereq[t]
  OBVIOUS
<1>1. r \in [at : {"triage"}, alert : Nat, read : AlertRecord, status : AlertStatus]
      /\ r.alert \in DOMAIN alerts /\ r.read.committed /\ Later(r.read, alerts[r.alert])
  BY DEF AlertInv, AlertRequestsOK, AlertRequestOK, AlertRequest, AtRest, SaveTriage
<1>2. AtRest \in AlertRequest /\ AlertRequestOK(AtRest) /\ AlertRequestOK(AtRest)'
  BY DEF AlertRequest, AlertRequestOK, AtRest
<1>3. CASE ~ TriageMatches(t)
  <2>1. Proceed(t, AtRest) /\ UNCHANGED <<enlisted, alerts, debounce, lastCursor, alertEvents, bumps>>
    BY <1>3 DEF SaveTriage
  <2> QED BY <1>2, <2>1, AlertRequestOnly
<1>4. CASE TriageMatches(t)
  <2> PICK a : a = r.alert
    OBVIOUS
  <2>1. a \in DOMAIN alerts /\ alerts[a] = r.read /\ alerts[a] \in AlertRecord
    BY <1>1, <1>4 DEF TriageMatches, Later
  <2> DEFINE y == [alerts[a] EXCEPT !.status = r.status, !.revision = alerts[a].revision + 1]
  <2>2. /\ y \in AlertRecord /\ y.person = alerts[a].person /\ y.window = alerts[a].window
        /\ y.count = alerts[a].count /\ Later(alerts[a], y)
    BY <1>1, <2>1, Decided
  <2>3. /\ alerts' = [alerts EXCEPT ![a] = y]
        /\ lastCursor' = lastCursor + 1
        /\ alertEvents' = alertEvents \cup
               {[cursor |-> lastCursor + 1, alert |-> a, type |-> "alert.triaged"]}
        /\ Proceed(t, AtRest)
        /\ UNCHANGED <<enlisted, debounce, rowLock, stream, bumps>>
    BY <1>4, <2>1 DEF SaveTriage
  <2> HIDE DEF y
  <2> PICK z : z = y
    OBVIOUS
  <2>4. /\ alerts' \in Seq(AlertRecord) /\ DOMAIN alerts' = DOMAIN alerts
        /\ Len(alerts') = Len(alerts) /\ OneAlertPerKey'
        /\ alerts'[a] = z /\ \A b \in DOMAIN alerts \ {a} : alerts'[b] = alerts[b]
        /\ \A b \in DOMAIN alerts : Later(alerts[b], alerts'[b])
    <3>1. /\ z \in AlertRecord /\ z.person = alerts[a].person /\ z.window = alerts[a].window
          /\ Later(alerts[a], z) /\ alerts' = [alerts EXCEPT ![a] = z]
      BY <2>2, <2>3
    <3> QED BY <2>1, <3>1, AlertWritten
  <2>5. lastCursor \in Nat
    BY DEF AlertInv, AlertStateOK
  <2>6. AlertStateOK'
    <3>1. alertEvents' \subseteq AlertEvent'
      <4>1. AlertEvent \subseteq AlertEvent'
        BY <2>3, <2>4, <2>5 DEF AlertEvent
      <4>2. [cursor |-> lastCursor + 1, alert |-> a, type |-> "alert.triaged"] \in AlertEvent'
        BY <2>1, <2>3, <2>4, <2>5 DEF AlertEvent
      <4> QED BY <2>3, <4>1, <4>2 DEF AlertInv, AlertStateOK, AlertTypeOK
    <3>2. debounce' \in [Persons -> DebounceState' \cup {NoDebounce}]
      BY <2>3, <2>4 DEF AlertInv, AlertStateOK, DebounceState
    <3>3. \A p \in Persons : debounce'[p] = NoDebounce \/ debounce'[p] \in DebounceState'
      BY <3>2
    <3>4. lastCursor' \in Nat
      BY <2>3, <2>5
    <3> QED BY <2>3, <2>4, <3>1, <3>2, <3>3, <3>4
            DEF AlertInv, AlertStateOK, AlertTypeOK, AlertRecord, NoDebounce, WatchlistMember
  <2>7. CountsExact'
    BY <2>2, <2>3, <2>4 DEF AlertInv, CountsExact
  <2>8. AlertRequestsOK'
    BY <1>2, <2>3, <2>4, <2>5, <2>6, AlertRequestsAdvanced DEF AlertInv
  <2> QED BY <2>4, <2>6, <2>7, <2>8 DEF AlertInv
<1> QED BY <1>3, <1>4

LEMMA AlertStep == AlertInv /\ [AlertNext]_alertVars => AlertInv'
<1> SUFFICES ASSUME AlertInv, [AlertNext]_alertVars PROVE AlertInv'
  OBVIOUS
<1>1. ASSUME UNCHANGED <<alerts, debounce, lastCursor, alertEvents, ereq, bumps>>,
             enlisted' \in [Persons -> WatchlistMember]
      PROVE  AlertInv'
  <2>1. AlertStateOK'
    BY <1>1 DEF AlertInv, AlertStateOK, AlertTypeOK, AlertEvent, DebounceState
  <2>2. AlertRequestsOK'
    BY <1>1 DEF AlertInv, AlertRequestsOK, AlertRequestOK, AlertRequest, AlertRecord
  <2> QED BY <1>1, <2>1, <2>2 DEF AlertInv, OneAlertPerKey, CountsExact
<1>2. ASSUME NEW p \in Persons,
             create_member(p) \/ (\E s \in {"active", "removed"} : update_member(p, s)) \/ delete_member(p)
      PROVE  AlertInv'
  <2>1. enlisted' \in [Persons -> WatchlistMember]
    BY <1>2 DEF create_member, update_member, delete_member, AlertInv, AlertStateOK, AlertTypeOK,
                WatchlistMember
  <2> QED BY <1>1, <1>2, <2>1 DEF create_member, update_member, delete_member
<1>3. CASE surveillance_alert_live_stream \/ UNCHANGED alertVars
  BY <1>1, <1>3 DEF surveillance_alert_live_stream, alertVars, AlertInv, AlertStateOK, AlertTypeOK
<1>4. ASSUME NEW e \in Evaluators, NEW p \in Persons, NEW s \in Sightings, evaluate_observation(e, p, s)
      PROVE  AlertInv'
  <2> PICK r : r = [at |-> "select", person |-> p, seen |-> s.last, window |-> WindowStart(s),
                    alert |-> 0, cursor |-> 0]
    OBVIOUS
  <2>1. r \in AlertRequest /\ r.at = "select"
    BY WindowStartNat, AlertAssumption DEF AlertRequest
  <2>2. AlertRequestOK(r)
    BY <2>1 DEF AlertRequestOK
  <2>3. Proceed(e, r)
    BY <1>4 DEF evaluate_observation
  <2> QED BY <1>4, <2>1, <2>2, <2>3, AlertRequestOnly DEF evaluate_observation
<1>5. ASSUME NEW e \in Evaluators, SelectDebounce(e)
      PROVE  AlertInv'
  <2> PICK r : r = [ereq[e] EXCEPT !.at = "decide"]
    OBVIOUS
  <2>1. ereq[e] \in [at : {"select", "decide", "upsert", "commit"}, person : Persons, seen : Nat,
             window : Nat, alert : Nat, cursor : Nat]
    BY <1>5 DEF AlertInv, AlertRequestsOK, AlertRequest, AtRest, SelectDebounce
  <2>2. r \in AlertRequest /\ r.at = "decide"
    BY <2>1 DEF AlertRequest
  <2>3. AlertRequestOK(r)
    BY <2>2 DEF AlertRequestOK
  <2> QED BY <1>5, <2>2, <2>3, AlertRequestOnly DEF SelectDebounce
<1>6. ASSUME NEW e \in Evaluators, DuplicateAlert(e)
      PROVE  AlertInv'
  <2>1. AtRest \in AlertRequest /\ AlertRequestOK(AtRest)
    BY DEF AlertRequest, AlertRequestOK, AtRest
  <2> QED BY <1>6, <2>1, AlertRequestOnly DEF DuplicateAlert
<1>7. ASSUME NEW t \in Triagers, NEW a \in DOMAIN alerts, NEW s \in {"confirmed", "false_positive"},
             triage_alert(t, a, s)
      PROVE  AlertInv'
  <2> PICK y : y = alerts[a]
    OBVIOUS
  <2> PICK r : r = [at |-> "triage", alert |-> a, read |-> y, status |-> s]
    OBVIOUS
  <2>1. y \in AlertRecord /\ y.committed /\ a \in Nat
    BY <1>7 DEF triage_alert, AlertInv, AlertStateOK, AlertTypeOK
  <2>2. r \in AlertRequest /\ r.at = "triage" /\ r.alert = a /\ r.read = y
    BY <2>1 DEF AlertRequest, AlertStatus
  <2>3. Later(y, alerts[a])
    BY <2>1 DEF Later, AlertRecord
  <2>4. AlertRequestOK(r)
    BY <2>1, <2>2, <2>3 DEF AlertRequestOK
  <2>5. Proceed(t, r)
    BY <1>7 DEF triage_alert
  <2> QED BY <1>7, <2>2, <2>4, <2>5, AlertRequestOnly DEF triage_alert
<1> QED
  BY <1>2, <1>3, <1>4, <1>5, <1>6, <1>7, SuppressStep, InsertStep, InsertEventStep,
     CommitAlertStep, SaveTriageStep DEF AlertNext

\* However workers, triage requests and the debounce row interleave, a person has
\* one alert per window, and its count is exactly the sightings it stands for.
THEOREM AlertsAreExact == AlertSpec => []AlertsExact
<1>1. AlertInv => AlertsExact
  BY DEF AlertInv, AlertStateOK, OneAlertPerKey, CountsExact, AlertsExact
<1> QED BY <1>1, AlertInitOK, AlertStep, PTL DEF AlertSpec

-----------------------------------------------------------------------------
(* Tasks.  A request holds the task it read through the sessions it starts   *)
(* or cancels, so a session named by a paused task is accounted for by the   *)
(* sessions, by the failed cancels or by a request that is still to reach    *)
(* it.                                                                       *)

USE DEF cancelVars, historyVars

TaskTypes ==
    /\ watchlists \in [Watchlists -> Watchlist \cup {NoRecord}]
    /\ task = NoRecord \/ task \in SurveillanceTask
    /\ streams \in Seq(StreamSessionOfTask)
    /\ unstopped \cup overtaken \subseteq DOMAIN streams

\* A task whose bindings name the first n sessions.
TaskDocument(n) ==
    [status : {"draft", "active", "paused", "completed"}, lists : SUBSET Watchlists,
     names : [Bindings -> 0 .. n], revision : 1 .. MaxRevision]

TaskCall(n) ==
    {NoCall}
    \cup [at : {"insert"}, lists : SUBSET Watchlists]
    \cup [at : {"update"}, read : TaskDocument(n), lists : SUBSET Watchlists]
    \cup [at : {"start", "pause", "reconcile"}, read : TaskDocument(n)]
    \cup [at : {"stop"}, read : TaskDocument(n), left : SUBSET Bindings]
    \cup [at : {"bind"}, read : TaskDocument(n), left : SUBSET Bindings,
          names : [Bindings -> 0 .. n]]

\* A revision stands for one document.
ReadOf(read) ==
    /\ task # NoRecord
    /\ read.revision <= task.revision
    /\ read.revision = task.revision => task = read

CallOK(r) ==
    /\ r.at \in {"update", "start", "pause", "reconcile", "stop", "bind"} => ReadOf(r.read)
    /\ r.at \in {"reconcile", "bind"} => r.read.status = "active"
    /\ r.at = "stop" => \A b \in r.left : r.read.names[b] # NoName

CallsOK ==
    /\ sreq \in [Supervisors -> TaskCall(Len(streams))]
    /\ \A c \in Supervisors : CallOK(sreq[c])

OneSessionPerKey ==
    \A i, j \in DOMAIN streams :
        i # j /\ streams[i].binding = streams[j].binding => streams[i].rev # streams[j].rev

\* Asked to end or over, given up, overtaken, or still to be cancelled by a request.
Settled(s) ==
    \/ streams[s].st \in {"cancelling", "over"}
    \/ s \in unstopped \cup overtaken
    \/ \E c \in Supervisors : sreq[c].at = "stop" /\ \E b \in sreq[c].left : sreq[c].read.names[b] = s

PausedSettled ==
    task # NoRecord /\ task.status = "paused" =>
        \A b \in Bindings : task.names[b] # NoName => Settled(task.names[b])

TaskInv == TaskTypes /\ CallsOK /\ OneSessionPerKey /\ PausedSettled

LEMMA TaskDocuments ==
    /\ SurveillanceTask = TaskDocument(Len(streams))
    /\ \A n : NoRecord \notin TaskDocument(n)
BY DEF SurveillanceTask, TaskDocument, NoRecord

\* Sessions are only added.
LEMMA TaskCallGrows ==
    ASSUME NEW m \in Nat, NEW n \in Nat, m <= n
    PROVE  TaskDocument(m) \subseteq TaskDocument(n) /\ TaskCall(m) \subseteq TaskCall(n)
<1>1. 0 .. m \subseteq 0 .. n
  OBVIOUS
<1>2. [Bindings -> 0 .. m] \subseteq [Bindings -> 0 .. n]
  BY <1>1
<1>3. TaskDocument(m) \subseteq TaskDocument(n)
  BY <1>2 DEF TaskDocument
<1> QED BY <1>2, <1>3 DEF TaskCall

\* The requests in flight outlive a step of another one.
LEMMA CallsAdvanced ==
    ASSUME CallsOK, NEW c \in Supervisors, NEW r \in TaskCall(Len(streams')), Step(c, r), CallOK(r)',
           Len(streams) \in Nat, Len(streams') \in Nat, Len(streams) <= Len(streams'),
           \A read \in TaskDocument(Len(streams)) : ReadOf(read) => ReadOf(read)'
    PROVE  CallsOK'
<1>1. sreq' = [sreq EXCEPT ![c] = r] /\ sreq \in [Supervisors -> TaskCall(Len(streams))]
  BY DEF Step, CallsOK
<1>2. TaskCall(Len(streams)) \subseteq TaskCall(Len(streams'))
  BY TaskCallGrows
<1>3. sreq' \in [Supervisors -> TaskCall(Len(streams'))]
  BY <1>1, <1>2
<1>4. ASSUME NEW d \in Supervisors PROVE CallOK(sreq[d])'
  <2>1. CASE d = c
    BY <1>1, <2>1 DEF CallOK
  <2>2. CASE d # c
    <3> PICK s : s = sreq[d]
      OBVIOUS
    <3>1. s \in TaskCall(Len(streams)) /\ CallOK(s) /\ sreq'[d] = s
      BY <1>1, <2>2 DEF CallsOK
    <3>2. s.at \in {"update", "start", "pause", "reconcile", "stop", "bind"} =>
              ReadOf(s.read) /\ s.read \in TaskDocument(Len(streams))
      BY <3>1 DEF CallOK, TaskCall, NoCall
    <3>3. CallOK(s)'
      BY <3>1, <3>2 DEF CallOK
    <3> QED BY <3>1, <3>3 DEF CallOK
  <2> QED BY <2>1, <2>2
<1> QED BY <1>3, <1>4 DEF CallsOK

\* A session that is accounted for stays so when a request with nothing left to
\* cancel goes on.
LEMMA SettledKept ==
    ASSUME CallsOK, NEW c \in Supervisors, NEW r, Step(c, r),
           ~ (sreq[c].at = "stop" /\ sreq[c].left # {}),
           UNCHANGED <<streams, cancelVars>>, NEW s, Settled(s)
    PROVE  Settled(s)'
<1>1. sreq' = [sreq EXCEPT ![c] = r] /\ DOMAIN sreq = Supervisors
  BY DEF Step, CallsOK
<1>2. CASE \E d \in Supervisors : sreq[d].at = "stop" /\ \E b \in sreq[d].left : sreq[d].read.names[b] = s
  <2> PICK d \in Supervisors : sreq[d].at = "stop" /\ \E b \in sreq[d].left : sreq[d].read.names[b] = s
    BY <1>2
  <2>1. d # c
    OBVIOUS
  <2>2. sreq'[d] = sreq[d]
    BY <1>1, <2>1
  <2> QED BY <2>2 DEF Settled
<1> QED BY <1>2 DEF Settled

\* A step of a request that writes nothing.
LEMMA CallOnly ==
    ASSUME TaskInv, NEW c \in Supervisors, NEW r \in TaskCall(Len(streams)), Step(c, r), CallOK(r),
           ~ (sreq[c].at = "stop" /\ sreq[c].left # {}),
           UNCHANGED <<watchlists, task, streams, cancelVars>>
    PROVE  TaskInv'
<1>1. TaskTypes'
  BY DEF TaskInv, TaskTypes, SurveillanceTask
<1>2. Len(streams) \in Nat /\ streams' = streams /\ task' = task
  BY DEF TaskInv, TaskTypes
<1>3. CallOK(r)' /\ \A read \in TaskDocument(Len(streams)) : ReadOf(read) => ReadOf(read)'
  BY <1>2 DEF CallOK, ReadOf
<1>4. CallsOK'
  BY <1>2, <1>3, CallsAdvanced DEF TaskInv
<1>5. PausedSettled'
  <2> SUFFICES ASSUME task # NoRecord, task.status = "paused", NEW b \in Bindings,
                      task.names[b] # NoName
               PROVE  Settled(task.names[b])'
    BY <1>2 DEF PausedSettled
  <2> PICK s : s = task.names[b]
    OBVIOUS
  <2>1. Settled(s)
    BY DEF TaskInv, PausedSettled
  <2>2. Settled(s)'
    BY <2>1, SettledKept DEF TaskInv
  <2> QED BY <1>2, <2>2 DEF Settled
<1> QED BY <1>1, <1>2, <1>4, <1>5 DEF TaskInv, OneSessionPerKey

\* The compare-and-set meets the revision that was read: the task is the one
\* that was read, and the next request to read it sees a new revision.
LEMMA TaskSaved ==
    ASSUME TaskInv, NEW c \in Supervisors, NEW r \in TaskCall(Len(streams)), Step(c, r),
           NEW read \in TaskDocument(Len(streams)), ReadOf(read), read.revision = task.revision,
           NEW next \in TaskDocument(Len(streams)), next.revision = read.revision + 1,
           task' = next, CallOK(r)', UNCHANGED <<watchlists, streams, cancelVars>>,
           next.status = "paused" =>
               \A b \in Bindings : next.names[b] # NoName => Settled(next.names[b])'
    PROVE  TaskInv'
<1>1. task = read
  BY DEF ReadOf
<1>2. Len(streams) \in Nat /\ streams' = streams
  BY DEF TaskInv, TaskTypes
<1>3. TaskTypes'
  <2>1. task' \in SurveillanceTask'
    BY <1>2, TaskDocuments DEF TaskDocument, SurveillanceTask
  <2> QED BY <2>1 DEF TaskInv, TaskTypes
<1>4. ASSUME NEW old \in TaskDocument(Len(streams)), ReadOf(old) PROVE ReadOf(old)'
  <2>1. old.revision \in Nat /\ task.revision \in Nat /\ next.revision = task.revision + 1
    BY <1>1, TaskAssumption DEF TaskDocument
  <2>2. old.revision <= task.revision
    BY <1>4 DEF ReadOf
  <2>3. task' # NoRecord
    BY TaskDocuments
  <2> QED BY <2>1, <2>2, <2>3 DEF ReadOf
<1>5. CallsOK'
  BY <1>2, <1>4, CallsAdvanced DEF TaskInv
<1>6. PausedSettled'
  BY DEF PausedSettled, Settled
<1> QED BY <1>2, <1>3, <1>5, <1>6 DEF TaskInv, OneSessionPerKey

LEMMA TaskInitOK == TaskInit => TaskInv
<1> SUFFICES ASSUME TaskInit PROVE TaskInv
  OBVIOUS
<1>1. TaskTypes
  BY DEF TaskInit, TaskTypes
<1>2. CallsOK
  BY DEF TaskInit, CallsOK, TaskCall, CallOK, NoCall
<1> QED BY <1>1, <1>2 DEF TaskInit, TaskInv, OneSessionPerKey, PausedSettled

\* Watchlists and the schedule do not touch the task.
LEMMA WatchlistStep ==
    ASSUME TaskInv, UNCHANGED <<task, streams, sreq, cancelVars>>,
           \/ \E w \in Watchlists :
                 \/ create_watchlist(w) \/ delete_watchlist(w)
                 \/ \E r \in 1 .. MaxListRevision, s \in {"active", "archived"} : update_watchlist(w, r, s)
           \/ UNCHANGED watchlists
    PROVE  TaskInv'
<1>1. watchlists' \in [Watchlists -> Watchlist \cup {NoRecord}]
  <2>0. watchlists \in [Watchlists -> Watchlist \cup {NoRecord}]
    BY DEF TaskInv, TaskTypes
  <2>1. ASSUME NEW w \in Watchlists, create_watchlist(w)
        PROVE  watchlists' \in [Watchlists -> Watchlist \cup {NoRecord}]
    <3>1. [status |-> "active", revision |-> 1] \in Watchlist
      BY TaskAssumption DEF Watchlist
    <3> QED BY <2>0, <2>1, <3>1 DEF create_watchlist
  <2>2. ASSUME NEW w \in Watchlists, delete_watchlist(w)
        PROVE  watchlists' \in [Watchlists -> Watchlist \cup {NoRecord}]
    BY <2>0, <2>2 DEF delete_watchlist
  <2>3. ASSUME NEW w \in Watchlists, NEW r \in 1 .. MaxListRevision, NEW s \in {"active", "archived"},
               update_watchlist(w, r, s)
        PROVE  watchlists' \in [Watchlists -> Watchlist \cup {NoRecord}]
    <3> PICK row : row = watchlists[w]
      OBVIOUS
    <3>1. row \in Watchlist /\ row.revision = r /\ r < MaxListRevision
      BY <2>0, <2>3 DEF update_watchlist
    <3>2. PICK n \in 1 .. MaxListRevision : n = row.revision + 1
      BY <3>1, TaskAssumption
    <3>3. Saved(row, s) = [row EXCEPT !.status = s, !.revision = n]
      BY <3>2 DEF Saved
    <3>4. Saved(row, s) \in Watchlist
      BY <3>1, <3>2, <3>3 DEF Watchlist
    <3>5. watchlists' = [watchlists EXCEPT ![w] = Saved(row, s)]
      BY <2>3 DEF update_watchlist
    <3> QED BY <2>0, <3>4, <3>5
  <2> QED BY <2>0, <2>1, <2>2, <2>3
<1>2. TaskTypes'
  BY <1>1 DEF TaskInv, TaskTypes, SurveillanceTask, Watchlist, NoRecord
<1>3. CallsOK'
  BY DEF TaskInv, CallsOK, CallOK, ReadOf
<1>4. PausedSettled'
  BY DEF TaskInv, PausedSettled, Settled
<1> QED BY <1>2, <1>3, <1>4 DEF TaskInv, OneSessionPerKey

\* Nothing is left to do: the request returns.
LEMMA ReturnOK == \A n : NoCall \in TaskCall(n)
BY DEF TaskCall

LEMMA ReturnsOnly ==
    ASSUME TaskInv, NEW c \in Supervisors, Return(c),
           ~ (sreq[c].at = "stop" /\ sreq[c].left # {}),
           UNCHANGED <<watchlists, task, streams, cancelVars>>
    PROVE  TaskInv'
<1>1. CallOK(NoCall)
  BY DEF CallOK, NoCall
<1> QED BY <1>1, ReturnOK, CallOnly DEF Return

\* Requests that read the task and hold it.
LEMMA ReadStep ==
    ASSUME TaskInv, NEW c \in Supervisors,
           \/ \E l \in (SUBSET Watchlists) \ {{}} : create_task(c, l) \/ update_task(c, l)
           \/ start_task(c) \/ pause_task(c) \/ reconcile(c)
    PROVE  TaskInv'
<1>1. task # NoRecord => task \in TaskDocument(Len(streams)) /\ ReadOf(task)
  <2>1. task # NoRecord => task \in TaskDocument(Len(streams))
    BY TaskDocuments DEF TaskInv, TaskTypes
  <2>2. task \in TaskDocument(Len(streams)) => task.revision <= task.revision
    BY TaskAssumption DEF TaskDocument
  <2> QED BY <2>1, <2>2 DEF ReadOf
<1>2. ASSUME sreq[c] = NoCall, NEW r \in TaskCall(Len(streams)), Step(c, r), CallOK(r),
             UNCHANGED <<watchlists, task, streams, cancelVars>>
      PROVE  TaskInv'
  BY <1>2, CallOnly DEF NoCall
<1>3. ASSUME NEW l \in (SUBSET Watchlists) \ {{}}, create_task(c, l)
      PROVE  TaskInv'
  <2> PICK r : r = [at |-> "insert", lists |-> l]
    OBVIOUS
  <2>1. r \in TaskCall(Len(streams)) /\ CallOK(r)
    BY DEF TaskCall, CallOK
  <2> QED BY <1>2, <1>3, <2>1 DEF create_task
<1>4. ASSUME NEW l \in (SUBSET Watchlists) \ {{}}, update_task(c, l)
      PROVE  TaskInv'
  <2> PICK r : r = [at |-> "update", read |-> task, lists |-> l]
    OBVIOUS
  <2>1. r \in TaskCall(Len(streams)) /\ CallOK(r)
    BY <1>1, <1>4 DEF TaskCall, CallOK, update_task
  <2> QED BY <1>2, <1>4, <2>1 DEF update_task
<1>5. CASE start_task(c)
  <2> PICK r : r = [at |-> "start", read |-> task]
    OBVIOUS
  <2>1. r \in TaskCall(Len(streams)) /\ CallOK(r)
    BY <1>1, <1>5 DEF TaskCall, CallOK, start_task
  <2> QED BY <1>2, <1>5, <2>1 DEF start_task
<1>6. CASE pause_task(c)
  <2> PICK r : r = [at |-> "pause", read |-> task]
    OBVIOUS
  <2>1. r \in TaskCall(Len(streams)) /\ CallOK(r)
    BY <1>1, <1>6 DEF TaskCall, CallOK, pause_task
  <2> QED BY <1>2, <1>6, <2>1 DEF pause_task
<1>7. CASE reconcile(c)
  <2> PICK r : r = [at |-> "reconcile", read |-> task]
    OBVIOUS
  <2>1. r \in TaskCall(Len(streams)) /\ CallOK(r)
    BY <1>1, <1>7 DEF TaskCall, CallOK, reconcile
  <2> QED BY <1>2, <1>7, <2>1 DEF reconcile
<1> QED BY <1>3, <1>4, <1>5, <1>6, <1>7

LEMMA InsertTaskStep ==
    ASSUME TaskInv, NEW c \in Supervisors, InsertTask(c)
    PROVE  TaskInv'
<1> PICK doc : doc = [status |-> "draft", lists |-> sreq[c].lists,
                      names |-> [b \in Bindings |-> NoName], revision |-> 1]
  OBVIOUS
<1>1. sreq[c].lists \in SUBSET Watchlists /\ sreq[c].at = "insert" /\ task = NoRecord
  BY DEF TaskInv, CallsOK, TaskCall, NoCall, InsertTask
<1>2. Len(streams) \in Nat
  BY DEF TaskInv, TaskTypes
<1>3. doc \in TaskDocument(Len(streams)) /\ doc.status = "draft"
  BY <1>1, <1>2, TaskAssumption DEF TaskDocument, NoName
<1>4. task' = doc /\ streams' = streams /\ Step(c, NoCall) /\ UNCHANGED <<watchlists, cancelVars>>
  BY DEF InsertTask, Return
<1>5. TaskTypes'
  BY <1>3, <1>4, TaskDocuments DEF TaskInv, TaskTypes, SurveillanceTask, TaskDocument
<1>6. CallsOK'
  <2>1. CallOK(NoCall)' /\ \A read \in TaskDocument(Len(streams)) : ReadOf(read) => ReadOf(read)'
    BY <1>1 DEF CallOK, NoCall, ReadOf
  <2>2. NoCall \in TaskCall(Len(streams'))
    BY ReturnOK
  <2> QED BY <1>2, <1>4, <2>1, <2>2, CallsAdvanced DEF TaskInv
<1>7. PausedSettled'
  BY <1>3, <1>4 DEF PausedSettled
<1> QED BY <1>4, <1>5, <1>6, <1>7 DEF TaskInv, OneSessionPerKey

\* What a request saves: the document it read with another status.
NextDoc(read, status) == [read EXCEPT !.status = status, !.revision = @ + 1]

LEMMA NextDocument ==
    ASSUME NEW n, NEW read \in TaskDocument(n), read.revision < MaxRevision,
           NEW status \in {"draft", "active", "paused", "completed"}, NEW next,
           next = NextDoc(read, status)
    PROVE  /\ next \in TaskDocument(n) /\ next.status = status /\ next.names = read.names
           /\ next.revision = read.revision + 1
           /\ [next EXCEPT !.revision = read.revision + 1] = next
           /\ next.revision <= next.revision /\ next # NoRecord
<1>1. PICK m \in 1 .. MaxRevision : m = read.revision + 1
  BY TaskAssumption DEF TaskDocument
<1>2. [read EXCEPT !.status = status, !.revision = m] \in TaskDocument(n)
  BY DEF TaskDocument
<1>3. next \in TaskDocument(n)
  BY <1>1, <1>2 DEF NextDoc
<1>4. next.status = status /\ next.names = read.names /\ next.revision = read.revision + 1
  BY DEF TaskDocument, NextDoc
<1>5. [next EXCEPT !.revision = m] = next
  BY <1>1, <1>3, <1>4 DEF TaskDocument
<1>6. m <= m
  BY <1>1, TaskAssumption
<1> QED BY <1>1, <1>3, <1>4, <1>5, <1>6, TaskDocuments

LEMMA SaveUpdateStep ==
    ASSUME TaskInv, NEW c \in Supervisors, NEW keep \in BOOLEAN, SaveUpdate(c, keep)
    PROVE  TaskInv'
<1> PICK r : r = sreq[c]
  OBVIOUS
<1> PICK read : read = r.read
  OBVIOUS
<1>1. read \in TaskDocument(Len(streams)) /\ r.lists \in SUBSET Watchlists /\ r.at = "update" /\ ReadOf(read)
  BY DEF TaskInv, CallsOK, TaskCall, CallOK, NoCall, SaveUpdate
<1>2. Return(c) /\ UNCHANGED <<watchlists, streams, cancelVars>> /\ task.revision < MaxRevision
  BY DEF SaveUpdate, SaveTask
<1>3. CASE read.revision # task.revision
  <2>1. UNCHANGED task
    BY <1>3 DEF SaveUpdate, SaveTask, Current
  <2> QED BY <1>1, <1>2, <2>1, ReturnsOnly
<1>4. CASE read.revision = task.revision
  <2>1. Len(streams) \in Nat
    BY DEF TaskInv, TaskTypes
  <2> PICK names : names = IF keep THEN read.names ELSE [b \in Bindings |-> NoName]
    OBVIOUS
  <2>2. names \in [Bindings -> 0 .. Len(streams)]
    BY <1>1, <2>1 DEF TaskDocument, NoName
  <2>3. PICK m \in 1 .. MaxRevision : m = read.revision + 1
    BY <1>1, <1>2, <1>4, TaskAssumption DEF TaskDocument
  <2> PICK next : next = [[read EXCEPT !.lists = r.lists, !.names = names] EXCEPT !.revision = m]
    OBVIOUS
  <2>4. next \in TaskDocument(Len(streams)) /\ next.revision = m /\ next.names = names
        /\ next.status = read.status
    BY <1>1, <2>2 DEF TaskDocument
  <2>5. task' = next
    BY <1>4, <2>3 DEF SaveUpdate, SaveTask, Current
  <2>6. next.status = "paused" =>
            \A b \in Bindings : next.names[b] # NoName => Settled(next.names[b])'
    <3> SUFFICES ASSUME read.status = "paused", NEW b \in Bindings, names[b] # NoName
                 PROVE  Settled(next.names[b])'
      BY <2>4
    <3>1. names[b] = task.names[b] /\ task = read
      BY <1>1, <1>4 DEF ReadOf
    <3> PICK s : s = names[b]
      OBVIOUS
    <3>2. Settled(s)
      BY <1>1, <3>1 DEF TaskInv, PausedSettled, ReadOf
    <3>3. Settled(s)'
      BY <1>1, <1>2, <3>2, SettledKept DEF TaskInv, Return
    <3> QED BY <2>4, <3>3
  <2>7. CallOK(NoCall)'
    BY DEF CallOK, NoCall
  <2>8. next.revision = read.revision + 1 /\ Step(c, NoCall)
    BY <1>2, <2>3, <2>4 DEF Return
  <2> QED BY <1>1, <1>2, <1>4, <2>4, <2>5, <2>6, <2>7, <2>8, ReturnOK, TaskSaved
<1> QED BY <1>3, <1>4

LEMMA SaveStartStep ==
    ASSUME TaskInv, NEW c \in Supervisors, SaveStart(c)
    PROVE  TaskInv'
<1> PICK read : read = sreq[c].read
  OBVIOUS
<1> PICK next : next = NextDoc(read, "active")
  OBVIOUS
<1>1. read \in TaskDocument(Len(streams)) /\ sreq[c].at = "start" /\ ReadOf(read)
  BY DEF TaskInv, CallsOK, TaskCall, CallOK, NoCall, SaveStart
<1>2. UNCHANGED <<watchlists, streams, cancelVars>> /\ task.revision < MaxRevision
  BY DEF SaveStart, SaveTask
<1>3. CASE read.revision # task.revision
  <2>1. UNCHANGED task /\ Return(c)
    BY <1>3 DEF SaveStart, SaveTask, Current
  <2> QED BY <1>1, <1>2, <2>1, ReturnsOnly
<1>4. CASE read.revision = task.revision
  <2>1. /\ next \in TaskDocument(Len(streams)) /\ next.status = "active"
        /\ next.revision = read.revision + 1 /\ [next EXCEPT !.revision = read.revision + 1] = next
        /\ next.revision <= next.revision /\ next # NoRecord
    <3>1. read.revision < MaxRevision
      BY <1>2, <1>4
    <3> QED BY <1>1, <3>1, NextDocument
  <2> PICK r : r = [at |-> "reconcile", read |-> next]
    OBVIOUS
  <2>2. task' = next /\ Step(c, r)
    <3>1. task' = [next EXCEPT !.revision = read.revision + 1] /\ Step(c, r)
      BY <1>4 DEF SaveStart, SaveTask, Current, NextDoc
    <3> QED BY <2>1, <3>1
  <2>3. r \in TaskCall(Len(streams)) /\ r.at = "reconcile" /\ r.read = next
    BY <2>1 DEF TaskCall
  <2>4. CallOK(r)'
    BY <2>1, <2>2, <2>3 DEF CallOK, ReadOf
  <2> QED BY <1>1, <1>2, <1>4, <2>1, <2>2, <2>3, <2>4, TaskSaved
<1> QED BY <1>3, <1>4

\* The pause is saved before the first cancel: every session the task names is
\* on the list of the request.
LEMMA SavePauseStep ==
    ASSUME TaskInv, NEW c \in Supervisors, SavePause(c)
    PROVE  TaskInv'
<1> PICK read : read = sreq[c].read
  OBVIOUS
<1> PICK next : next = NextDoc(read, "paused")
  OBVIOUS
<1>1. read \in TaskDocument(Len(streams)) /\ sreq[c].at = "pause" /\ ReadOf(read)
  BY DEF TaskInv, CallsOK, TaskCall, CallOK, NoCall, SavePause
<1>2. UNCHANGED <<watchlists, streams, cancelVars>> /\ task.revision < MaxRevision
  BY DEF SavePause, SaveTask
<1>3. CASE read.revision # task.revision
  <2>1. UNCHANGED task /\ Return(c)
    BY <1>3 DEF SavePause, SaveTask, Current
  <2> QED BY <1>1, <1>2, <2>1, ReturnsOnly
<1>4. CASE read.revision = task.revision
  <2>1. /\ next \in TaskDocument(Len(streams)) /\ next.status = "paused"
        /\ next.revision = read.revision + 1 /\ [next EXCEPT !.revision = read.revision + 1] = next
        /\ next.revision <= next.revision /\ next # NoRecord
    <3>1. read.revision < MaxRevision
      BY <1>2, <1>4
    <3> QED BY <1>1, <3>1, NextDocument
  <2> PICK r : r = [at |-> "stop", read |-> next, left |-> StopList(next)]
    OBVIOUS
  <2>2. task' = next /\ Step(c, r)
    <3>1. task' = [next EXCEPT !.revision = read.revision + 1] /\ Step(c, r)
      BY <1>4 DEF SavePause, SaveTask, Current, NextDoc
    <3> QED BY <2>1, <3>1
  <2>3. r \in TaskCall(Len(streams)) /\ r.at = "stop" /\ r.read = next /\ r.left = StopList(next)
    BY <2>1 DEF TaskCall, StopList
  <2>4. CallOK(r)'
    BY <2>1, <2>2, <2>3 DEF CallOK, ReadOf, StopList
  <2>5. ASSUME NEW b \in Bindings, next.names[b] # NoName PROVE Settled(next.names[b])'
    <3>1. sreq'[c] = r
      BY <2>2 DEF Step, TaskInv, CallsOK
    <3>2. b \in r.left
      BY <2>3, <2>5 DEF StopList
    <3> QED BY <2>3, <3>1, <3>2 DEF Settled
  <2> QED BY <1>1, <1>2, <1>4, <2>1, <2>2, <2>3, <2>4, <2>5, TaskSaved
<1> QED BY <1>3, <1>4

\* A reconcile that read the task before the pause meets another revision.
LEMMA SaveNamesStep ==
    ASSUME TaskInv, NEW c \in Supervisors, SaveNames(c)
    PROVE  TaskInv'
<1> PICK r : r = sreq[c]
  OBVIOUS
<1> PICK read : read = r.read
  OBVIOUS
<1>1. /\ read \in TaskDocument(Len(streams)) /\ r.at = "bind" /\ ReadOf(read)
      /\ r.names \in [Bindings -> 0 .. Len(streams)] /\ read.status = "active"
  BY DEF TaskInv, CallsOK, TaskCall, CallOK, NoCall, SaveNames
<1>2. Return(c) /\ UNCHANGED <<watchlists, streams, cancelVars>> /\ task.revision < MaxRevision
  BY DEF SaveNames, SaveTask
<1>3. CASE read.revision # task.revision
  <2>1. UNCHANGED task
    BY <1>3 DEF SaveNames, SaveTask, Current
  <2> QED BY <1>1, <1>2, <2>1, ReturnsOnly
<1>4. CASE read.revision = task.revision
  <2>1. PICK m \in 1 .. MaxRevision : m = read.revision + 1
    BY <1>1, <1>2, <1>4, TaskAssumption DEF TaskDocument
  <2> PICK next : next = [[read EXCEPT !.names = r.names] EXCEPT !.revision = m]
    OBVIOUS
  <2>2. next \in TaskDocument(Len(streams)) /\ next.revision = m /\ next.status = "active"
    BY <1>1 DEF TaskDocument
  <2>3. task' = next
    BY <1>4, <2>1 DEF SaveNames, SaveTask, Current
  <2>4. CallOK(NoCall)'
    BY DEF CallOK, NoCall
  <2>5. next.revision = read.revision + 1 /\ Step(c, NoCall)
    BY <1>2, <2>1, <2>2 DEF Return
  <2> QED BY <1>1, <1>2, <1>4, <2>2, <2>3, <2>4, <2>5, ReturnOK, TaskSaved
<1> QED BY <1>3, <1>4

LEMMA ReconcileBeginsStep ==
    ASSUME TaskInv, NEW c \in Supervisors, ReconcileBegins(c)
    PROVE  TaskInv'
<1> PICK r : r = sreq[c]
  OBVIOUS
<1> PICK read : read = r.read
  OBVIOUS
<1> PICK left : left = {b \in Bindings : read.names[b] = NoName}
  OBVIOUS
<1>1. /\ read \in TaskDocument(Len(streams)) /\ r.at = "reconcile" /\ ReadOf(read)
      /\ read.status = "active"
  BY DEF TaskInv, CallsOK, TaskCall, CallOK, NoCall, ReconcileBegins
<1>2. UNCHANGED <<watchlists, task, streams, cancelVars>>
  BY DEF ReconcileBegins
<1>3. CASE ~ open
  <2> PICK s : s = [at |-> "stop", read |-> read, left |-> StopList(read)]
    OBVIOUS
  <2>1. s \in TaskCall(Len(streams)) /\ CallOK(s)
    BY <1>1 DEF TaskCall, CallOK, StopList
  <2>2. Step(c, s)
    BY <1>3 DEF ReconcileBegins
  <2> QED BY <1>1, <1>2, <2>1, <2>2, CallOnly
<1>4. CASE open /\ left = {}
  <2>1. Return(c)
    BY <1>4 DEF ReconcileBegins
  <2> QED BY <1>1, <1>2, <2>1, ReturnsOnly
<1>5. CASE open /\ left # {}
  <2> PICK s : s = [at |-> "bind", read |-> read, left |-> left, names |-> read.names]
    OBVIOUS
  <2>1. s \in TaskCall(Len(streams))
    BY <1>1 DEF TaskCall, TaskDocument
  <2>2. CallOK(s)
    BY <1>1 DEF CallOK
  <2>3. Step(c, s)
    BY <1>5 DEF ReconcileBegins
  <2> QED BY <1>1, <1>2, <2>1, <2>2, <2>3, CallOnly
<1> QED BY <1>3, <1>4, <1>5

LEMMA StartBindingFailsStep ==
    ASSUME TaskInv, NEW c \in Supervisors, StartBindingFails(c)
    PROVE  TaskInv'
<1> PICK r : r = sreq[c]
  OBVIOUS
<1> PICK b : b = CHOOSE y \in r.left : TRUE
  OBVIOUS
<1> PICK s : s = [r EXCEPT !.left = r.left \ {b}]
  OBVIOUS
<1>1. r \in [at : {"bind"}, read : TaskDocument(Len(streams)), left : SUBSET Bindings,
             names : [Bindings -> 0 .. Len(streams)]] /\ CallOK(r)
  BY DEF TaskInv, CallsOK, TaskCall, NoCall, StartBindingFails
<1>2. s \in TaskCall(Len(streams)) /\ s.at = "bind" /\ s.read = r.read
  BY <1>1 DEF TaskCall
<1>3. CallOK(s)
  BY <1>1, <1>2 DEF CallOK
<1>4. Step(c, s) /\ UNCHANGED <<watchlists, task, streams, cancelVars>> /\ sreq[c].at = "bind"
  BY DEF StartBindingFails
<1> QED BY <1>2, <1>3, <1>4, CallOnly

\* One session is rewritten.
LEMMA SessionRewritten ==
    ASSUME streams \in Seq(StreamSessionOfTask), NEW s \in DOMAIN streams,
           NEW y \in StreamSessionOfTask, streams' = [streams EXCEPT ![s] = y]
    PROVE  /\ streams' \in Seq(StreamSessionOfTask) /\ Len(streams') = Len(streams)
           /\ DOMAIN streams' = DOMAIN streams /\ streams'[s] = y
           /\ \A x \in DOMAIN streams : x # s => streams'[x] = streams[x]
OBVIOUS

\* The cancel of one session, or its failure.
LEMMA StopBindingStep ==
    ASSUME TaskInv, NEW c \in Supervisors, NEW ok \in BOOLEAN, NEW queued \in BOOLEAN,
           StopBinding(c, ok, queued)
    PROVE  TaskInv'
<1> PICK r : r = sreq[c]
  OBVIOUS
<1> PICK b : b = CHOOSE y \in r.left : TRUE
  OBVIOUS
<1> PICK s : s = r.read.names[b]
  OBVIOUS
<1> PICK q : q = [r EXCEPT !.left = r.left \ {b}]
  OBVIOUS
<1>1. r \in [at : {"stop"}, read : TaskDocument(Len(streams)), left : SUBSET Bindings] /\ CallOK(r)
  BY DEF TaskInv, CallsOK, TaskCall, NoCall, StopBinding, cancel_stream_session
<1>2. b \in r.left /\ b \in Bindings
  BY <1>1 DEF StopBinding, cancel_stream_session
<1>3. streams \in Seq(StreamSessionOfTask) /\ Len(streams) \in Nat /\ DOMAIN streams = 1 .. Len(streams)
  BY DEF TaskInv, TaskTypes
<1>4. s \in DOMAIN streams
  BY <1>1, <1>2, <1>3 DEF CallOK, TaskDocument, NoName
<1>5. Step(c, q) /\ UNCHANGED <<watchlists, task, open, crashes>>
  BY DEF StopBinding, cancel_stream_session
<1>6. /\ streams' \in Seq(StreamSessionOfTask) /\ Len(streams') = Len(streams)
      /\ DOMAIN streams' = DOMAIN streams
      /\ \A x \in DOMAIN streams : /\ streams'[x].binding = streams[x].binding
                                   /\ streams'[x].rev = streams[x].rev
      /\ \A x \in DOMAIN streams : x # s => /\ streams'[x].st = streams[x].st
                                            /\ x \in unstopped' <=> x \in unstopped
                                            /\ x \in overtaken' <=> x \in overtaken
      /\ unstopped' \cup overtaken' \subseteq DOMAIN streams
      /\ streams'[s].st \in {"cancelling", "over"} \/ s \in unstopped' \cup overtaken'
  <2>0. streams[s] \in StreamSessionOfTask /\ unstopped \cup overtaken \subseteq DOMAIN streams
    BY <1>3, <1>4, ElementOfSeq DEF TaskInv, TaskTypes
  <2>1. CASE ok /\ streams[s].st = "running"
    <3>1. PICK st \in {"cancelling", "over"} : st = IF queued THEN "over" ELSE "cancelling"
      OBVIOUS
    <3>2. \E y \in StreamSessionOfTask :
              /\ y.binding = streams[s].binding /\ y.rev = streams[s].rev /\ y.st = st
              /\ streams' = [streams EXCEPT ![s] = y]
      <4> DEFINE y == [streams[s] EXCEPT !.st = st]
      <4>1. y \in StreamSessionOfTask /\ y.binding = streams[s].binding /\ y.rev = streams[s].rev /\ y.st = st
        BY <2>0 DEF StreamSessionOfTask
      <4>2. streams' = [streams EXCEPT ![s] = y]
        BY <2>1, <3>1 DEF StopBinding, cancel_stream_session
      <4> HIDE DEF y
      <4> QED BY <4>1, <4>2
    <3> PICK y \in StreamSessionOfTask :
              /\ y.binding = streams[s].binding /\ y.rev = streams[s].rev /\ y.st = st
              /\ streams' = [streams EXCEPT ![s] = y]
      BY <3>2
    <3>3. unstopped' = unstopped \ {s} /\ overtaken' = overtaken \ {s}
      BY <2>1 DEF StopBinding, cancel_stream_session
    <3>4. /\ streams' \in Seq(StreamSessionOfTask) /\ Len(streams') = Len(streams)
          /\ DOMAIN streams' = DOMAIN streams /\ streams'[s] = y
          /\ \A x \in DOMAIN streams : x # s => streams'[x] = streams[x]
      BY <1>3, <1>4, SessionRewritten
    <3> QED BY <2>0, <3>3, <3>4
  <2>2. CASE ~ ok
    <3>1. unstopped' = unstopped \cup {s} /\ streams' = streams /\ overtaken' = overtaken
      BY <2>2 DEF StopBinding, cancel_stream_session
    <3>2. /\ streams' \in Seq(StreamSessionOfTask) /\ Len(streams') = Len(streams)
          /\ DOMAIN streams' = DOMAIN streams
          /\ \A x \in DOMAIN streams : streams'[x] = streams[x]
      BY <1>3, <3>1
    <3>3. /\ \A x \in DOMAIN streams : x # s => (x \in unstopped' <=> x \in unstopped)
          /\ s \in unstopped'
      BY <3>1
    <3>4. unstopped' \cup overtaken' \subseteq DOMAIN streams
      BY <1>4, <2>0, <3>1
    <3> QED BY <3>1, <3>2, <3>3, <3>4
  <2>3. CASE ok /\ streams[s].st # "running"
    <3>1. /\ unstopped' = unstopped \ {s} /\ streams' = streams
          /\ overtaken' = IF streams[s].st = "between" THEN overtaken \cup {s} ELSE overtaken \ {s}
      BY <2>3 DEF StopBinding, cancel_stream_session
    <3>2. streams[s].st \in {"running", "cancelling", "between", "over"}
      BY <2>0 DEF StreamSessionOfTask
    <3>3. /\ streams' \in Seq(StreamSessionOfTask) /\ Len(streams') = Len(streams)
          /\ DOMAIN streams' = DOMAIN streams
          /\ \A x \in DOMAIN streams : streams'[x] = streams[x]
      BY <1>3, <3>1
    <3>4. \A x \in DOMAIN streams : x # s => /\ x \in unstopped' <=> x \in unstopped
                                             /\ x \in overtaken' <=> x \in overtaken
      BY <3>1
    <3>5. unstopped' \cup overtaken' \subseteq DOMAIN streams
      BY <1>4, <2>0, <3>1
    <3>6. streams'[s].st \in {"cancelling", "over"} \/ s \in overtaken'
      <4>1. CASE streams[s].st = "between"
        <5>1. overtaken' = overtaken \cup {s}
          BY <3>1, <4>1
        <5> QED BY <5>1
      <4>2. CASE streams[s].st \in {"cancelling", "over"}
        BY <3>1, <4>2
      <4> QED BY <2>3, <3>2, <4>1, <4>2
    <3> QED BY <3>3, <3>4, <3>5, <3>6
  <2> QED BY <2>1, <2>2, <2>3
<1>7. TaskTypes'
  BY <1>5, <1>6 DEF TaskInv, TaskTypes, SurveillanceTask, StreamSessionOfTask
<1>8. q \in TaskCall(Len(streams')) /\ q.at = "stop" /\ q.read = r.read /\ q.left = r.left \ {b}
  BY <1>1, <1>6 DEF TaskCall
<1>9. CallsOK'
  <2>1. CallOK(q)'
    BY <1>1, <1>5, <1>8 DEF CallOK, ReadOf
  <2>2. \A read \in TaskDocument(Len(streams)) : ReadOf(read) => ReadOf(read)'
    BY <1>5 DEF ReadOf
  <2>3. CallsOK
    BY DEF TaskInv
  <2>4. Step(c, q) /\ q \in TaskCall(Len(streams'))
    BY <1>5, <1>8
  <2>5. Len(streams) \in Nat /\ Len(streams') \in Nat /\ Len(streams) <= Len(streams')
    <3>1. Len(streams') = Len(streams)
      BY ZenonT(60), <1>6
    <3> QED BY <1>3, <3>1
  <2> QED BY ZenonT(60), <2>1, <2>2, <2>3, <2>4, <2>5, CallsAdvanced
<1>10. OneSessionPerKey'
  <2>1. OneSessionPerKey
    BY DEF TaskInv
  <2> QED BY ZenonT(60), <1>6, <2>1 DEF OneSessionPerKey
<1>11. ASSUME NEW x \in DOMAIN streams, Settled(x) PROVE Settled(x)'
  <2>0. CASE x = s
    BY <1>6, <2>0 DEF Settled
  <2>1. CASE x # s /\ (streams[x].st \in {"cancelling", "over"} \/ x \in unstopped \cup overtaken)
    BY <1>6, <2>1 DEF Settled
  <2>2. CASE x # s /\ \E d \in Supervisors : sreq[d].at = "stop" /\ \E a \in sreq[d].left : sreq[d].read.names[a] = x
    <3> PICK d \in Supervisors : sreq[d].at = "stop" /\ \E a \in sreq[d].left : sreq[d].read.names[a] = x
      BY <2>2
    <3> PICK a \in sreq[d].left : sreq[d].read.names[a] = x
      OBVIOUS
    <3>1. sreq' = [sreq EXCEPT ![c] = q] /\ sreq \in [Supervisors -> TaskCall(Len(streams))]
      BY <1>5 DEF Step, TaskInv, CallsOK
    <3>2. CASE d # c
      <4>1. sreq'[d] = sreq[d]
        BY <3>1, <3>2
      <4> QED BY <4>1 DEF Settled
    <3>3. CASE d = c
      <4>1. a # b
        BY <2>2, <3>3
      <4>2. sreq'[c] = q /\ a \in q.left
        BY <1>8, <3>1, <3>3, <4>1
      <4> QED BY <1>8, <3>3, <4>2 DEF Settled
    <3> QED BY <3>2, <3>3
  <2> QED BY <1>11, <2>0, <2>1, <2>2 DEF Settled
<1>12. PausedSettled'
  <2> SUFFICES ASSUME task # NoRecord, task.status = "paused", NEW a \in Bindings,
                      task.names[a] # NoName
               PROVE  Settled(task.names[a])'
    BY <1>5 DEF PausedSettled
  <2> PICK x : x = task.names[a]
    OBVIOUS
  <2>1. x \in DOMAIN streams
    BY <1>3, TaskDocuments DEF TaskInv, TaskTypes, TaskDocument, NoName
  <2>2. Settled(x)'
    BY <1>11, <2>1 DEF TaskInv, PausedSettled
  <2> QED BY <1>5, <2>2 DEF Settled
<1> QED BY <1>7, <1>9, <1>10, <1>12 DEF TaskInv

\* create_run under the idempotency key of the binding and the revision.
LEMMA StartBindingStep ==
    ASSUME TaskInv, NEW c \in Supervisors, StartBinding(c)
    PROVE  TaskInv'
<1> PICK r : r = sreq[c]
  OBVIOUS
<1> PICK b : b = CHOOSE y \in r.left : TRUE
  OBVIOUS
<1> PICK known : known = SessionOfKey(b, r.read.revision)
  OBVIOUS
<1> PICK s : s = IF known # {} THEN CHOOSE y \in known : TRUE ELSE Len(streams) + 1
  OBVIOUS
<1> PICK y : y = [binding |-> b, rev |-> r.read.revision, st |-> "running"]
  OBVIOUS
<1>1. r \in [at : {"bind"}, read : TaskDocument(Len(streams)), left : SUBSET Bindings,
             names : [Bindings -> 0 .. Len(streams)]] /\ CallOK(r)
  BY DEF TaskInv, CallsOK, TaskCall, NoCall, StartBinding
<1>2. b \in Bindings
  BY <1>1 DEF StartBinding
<1>3. streams \in Seq(StreamSessionOfTask) /\ Len(streams) \in Nat /\ DOMAIN streams = 1 .. Len(streams)
  BY DEF TaskInv, TaskTypes
<1>4. y \in StreamSessionOfTask /\ y.binding = b /\ y.rev = r.read.revision
  BY <1>1, <1>2 DEF StreamSessionOfTask, TaskDocument
<1>5. /\ streams' = IF known # {} THEN streams ELSE Append(streams, y)
      /\ Step(c, [r EXCEPT !.left = r.left \ {b}, !.names = [r.names EXCEPT ![b] = s]])
      /\ UNCHANGED <<watchlists, task, open, crashes, cancelVars>>
  BY DEF StartBinding
<1>6. /\ streams' \in Seq(StreamSessionOfTask) /\ Len(streams') \in Nat
      /\ Len(streams) <= Len(streams') /\ DOMAIN streams' = 1 .. Len(streams')
      /\ \A i \in DOMAIN streams : i \in DOMAIN streams' /\ streams'[i] = streams[i]
      /\ s \in 0 .. Len(streams')
  <2>1. CASE known # {}
    <3>1. s \in known /\ known \subseteq DOMAIN streams
      BY <2>1 DEF SessionOfKey
    <3> QED BY <1>3, <1>5, <2>1, <3>1
  <2>2. CASE known = {}
    BY <1>3, <1>4, <1>5, <2>2
  <2> QED BY <2>1, <2>2
<1>7. OneSessionPerKey'
  <2>1. CASE known # {}
    BY <1>5, <2>1 DEF TaskInv, OneSessionPerKey
  <2>2. CASE known = {}
    <3>1. \A i \in DOMAIN streams : ~ (streams[i].binding = y.binding /\ streams[i].rev = y.rev)
      BY <1>4, <2>2 DEF SessionOfKey
    <3>2. DOMAIN streams' = DOMAIN streams \cup {Len(streams) + 1} /\ streams'[Len(streams) + 1] = y
      BY <1>3, <1>4, <1>5, <2>2
    <3> QED BY <1>3, <1>6, <3>1, <3>2 DEF TaskInv, OneSessionPerKey
  <2> QED BY <2>1, <2>2
<1>8. TaskDocument(Len(streams)) \subseteq TaskDocument(Len(streams'))
  BY <1>3, <1>6, TaskCallGrows
<1>9. TaskTypes'
  <2>1. task = NoRecord \/ task \in TaskDocument(Len(streams'))
    BY <1>8, TaskDocuments DEF TaskInv, TaskTypes
  <2>2. SurveillanceTask' = TaskDocument(Len(streams'))
    BY DEF SurveillanceTask, TaskDocument
  <2>3. task' = NoRecord \/ task' \in SurveillanceTask'
    BY <1>5, <2>1, <2>2
  <2>4. unstopped' \cup overtaken' \subseteq DOMAIN streams'
    BY <1>5, <1>6 DEF TaskInv, TaskTypes
  <2> QED BY <1>5, <1>6, <2>3, <2>4 DEF TaskInv, TaskTypes, StreamSessionOfTask, Watchlist, NoRecord
<1>10. PICK q \in TaskCall(Len(streams')) : q.at = "bind" /\ q.read = r.read /\ Step(c, q)
  <2>1. r.names \in [Bindings -> 0 .. Len(streams')]
    BY <1>1, <1>3, <1>6
  <2>2. PICK names \in [Bindings -> 0 .. Len(streams')] : names = [r.names EXCEPT ![b] = s]
    BY <1>6, <2>1
  <2>3. r \in [at : {"bind"}, read : TaskDocument(Len(streams')), left : SUBSET Bindings,
               names : [Bindings -> 0 .. Len(streams')]] /\ r.left \ {b} \in SUBSET Bindings
    BY <1>1, <1>8, <2>1
  <2> PICK q : q = [r EXCEPT !.left = r.left \ {b}, !.names = names]
    OBVIOUS
  <2>4. q \in [at : {"bind"}, read : TaskDocument(Len(streams')), left : SUBSET Bindings,
               names : [Bindings -> 0 .. Len(streams')]] /\ q.at = "bind" /\ q.read = r.read
    BY <2>3
  <2>5. Step(c, q)
    BY <1>5, <2>2
  <2> QED BY <2>4, <2>5 DEF TaskCall
<1>11. CallsOK'
  <2>1. CallOK(q)'
    BY <1>1, <1>5, <1>10 DEF CallOK, ReadOf
  <2>2. \A read \in TaskDocument(Len(streams)) : ReadOf(read) => ReadOf(read)'
    BY <1>5 DEF ReadOf
  <2> QED BY <1>3, <1>5, <1>6, <1>10, <2>1, <2>2, CallsAdvanced DEF TaskInv
<1>12. ASSUME NEW x \in DOMAIN streams, Settled(x) PROVE Settled(x)'
  <2>1. CASE streams[x].st \in {"cancelling", "over"} \/ x \in unstopped \cup overtaken
    BY <1>5, <1>6, <2>1 DEF Settled
  <2>2. CASE \E d \in Supervisors : sreq[d].at = "stop" /\ \E a \in sreq[d].left : sreq[d].read.names[a] = x
    <3> PICK d \in Supervisors : sreq[d].at = "stop" /\ \E a \in sreq[d].left : sreq[d].read.names[a] = x
      BY <2>2
    <3>1. d # c
      BY <1>1
    <3>2. sreq'[d] = sreq[d]
      BY <1>10, <3>1 DEF Step, TaskInv, CallsOK
    <3> QED BY <3>2 DEF Settled
  <2> QED BY <1>12, <2>1, <2>2 DEF Settled
<1>13. PausedSettled'
  <2> SUFFICES ASSUME task # NoRecord, task.status = "paused", NEW a \in Bindings,
                      task.names[a] # NoName
               PROVE  Settled(task.names[a])'
    BY <1>5 DEF PausedSettled
  <2> PICK x : x = task.names[a]
    OBVIOUS
  <2>1. x \in DOMAIN streams
    BY <1>3, TaskDocuments DEF TaskInv, TaskTypes, TaskDocument, NoName
  <2>2. Settled(x)'
    BY <1>12, <2>1 DEF TaskInv, PausedSettled
  <2> QED BY <1>5, <2>2 DEF Settled
<1> QED BY <1>7, <1>9, <1>11, <1>13 DEF TaskInv

\* The process dies: what the request was still to cancel is given up.
LEMMA RequestDiesStep ==
    ASSUME TaskInv, NEW c \in Supervisors, RequestDies(c)
    PROVE  TaskInv'
<1> PICK r : r = sreq[c]
  OBVIOUS
<1>1. r \in TaskCall(Len(streams)) /\ CallOK(r)
  BY DEF TaskInv, CallsOK
<1>2. Step(c, NoCall) /\ UNCHANGED <<watchlists, task, open, streams, overtaken>>
      /\ unstopped' = IF r.at = "stop" THEN unstopped \cup {r.read.names[b] : b \in r.left} ELSE unstopped
  BY DEF RequestDies, Return
<1>3. streams \in Seq(StreamSessionOfTask) /\ Len(streams) \in Nat /\ DOMAIN streams = 1 .. Len(streams)
  BY DEF TaskInv, TaskTypes
<1>4. unstopped \subseteq unstopped' /\ unstopped' \subseteq DOMAIN streams /\ overtaken' = overtaken
  <2>1. CASE r.at = "stop"
    <3>1. r.read \in TaskDocument(Len(streams)) /\ r.left \subseteq Bindings
      BY <1>1, <2>1 DEF TaskCall, NoCall
    <3>2. \A b \in r.left : r.read.names[b] \in DOMAIN streams
      BY <1>1, <1>3, <2>1, <3>1 DEF CallOK, TaskDocument, NoName
    <3> QED BY <1>2, <2>1, <3>2 DEF TaskInv, TaskTypes
  <2>2. CASE r.at # "stop"
    BY <1>2, <2>2 DEF TaskInv, TaskTypes
  <2> QED BY <2>1, <2>2
<1>5. TaskTypes'
  BY <1>2, <1>4 DEF TaskInv, TaskTypes, SurveillanceTask
<1>6. CallsOK'
  <2>1. CallOK(NoCall)' /\ \A read \in TaskDocument(Len(streams)) : ReadOf(read) => ReadOf(read)'
    BY <1>2 DEF CallOK, NoCall, ReadOf
  <2> QED BY <1>2, <1>3, <2>1, ReturnOK, CallsAdvanced DEF TaskInv
<1>7. ASSUME NEW x, Settled(x) PROVE Settled(x)'
  <2>1. CASE streams[x].st \in {"cancelling", "over"} \/ x \in unstopped \cup overtaken
    BY <1>2, <1>4, <2>1 DEF Settled
  <2>2. CASE \E d \in Supervisors : sreq[d].at = "stop" /\ \E a \in sreq[d].left : sreq[d].read.names[a] = x
    <3> PICK d \in Supervisors : sreq[d].at = "stop" /\ \E a \in sreq[d].left : sreq[d].read.names[a] = x
      BY <2>2
    <3>1. CASE d = c
      BY <1>2, <3>1 DEF Settled
    <3>2. CASE d # c
      <4>1. sreq'[d] = sreq[d]
        BY <1>2, <3>2 DEF Step, TaskInv, CallsOK
      <4> QED BY <4>1 DEF Settled
    <3> QED BY <3>1, <3>2
  <2> QED BY <1>7, <2>1, <2>2 DEF Settled
<1>8. PausedSettled'
  <2> SUFFICES ASSUME task # NoRecord, task.status = "paused", NEW a \in Bindings,
                      task.names[a] # NoName
               PROVE  Settled(task.names[a])'
    BY <1>2 DEF PausedSettled
  <2> PICK x : x = task.names[a]
    OBVIOUS
  <2>1. Settled(x)'
    BY <1>7 DEF TaskInv, PausedSettled
  <2> QED BY <1>2, <2>1 DEF Settled
<1> QED BY <1>2, <1>5, <1>6, <1>8 DEF TaskInv, OneSessionPerKey

\* The sessions go on by themselves.
SessionMoves == \E s \in DOMAIN streams : SegmentCompletes(s) \/ SegmentRollsOver(s) \/ SessionEnds(s)

LEMMA SessionMovesStep ==
    ASSUME TaskInv, SessionMoves
    PROVE  TaskInv'
<1>0. streams \in Seq(StreamSessionOfTask) /\ Len(streams) \in Nat /\ DOMAIN streams = 1 .. Len(streams)
  BY DEF TaskInv, TaskTypes
<1> PICK s \in DOMAIN streams : SegmentCompletes(s) \/ SegmentRollsOver(s) \/ SessionEnds(s)
  BY DEF SessionMoves
<1>1. streams[s] \in StreamSessionOfTask
  BY <1>0, ElementOfSeq
<1>2. PICK st \in {"between", "running", "over"} :
         /\ streams' = [streams EXCEPT ![s].st = st]
         /\ streams[s].st \in {"cancelling", "over"} => st = "over" \/ s \in overtaken'
  BY DEF SegmentCompletes, SegmentRollsOver, SessionEnds
<1>3. /\ UNCHANGED <<watchlists, task, open, sreq, crashes, unstopped>>
      /\ overtaken' = overtaken \/ overtaken' = overtaken \cup {s}
  BY DEF SegmentCompletes, SegmentRollsOver, SessionEnds
<1>4. PICK y \in StreamSessionOfTask :
          /\ y.binding = streams[s].binding /\ y.rev = streams[s].rev /\ y.st = st
          /\ streams' = [streams EXCEPT ![s] = y]
  <2> DEFINE y == [streams[s] EXCEPT !.st = st]
  <2>1. y \in StreamSessionOfTask /\ y.binding = streams[s].binding /\ y.rev = streams[s].rev /\ y.st = st
    BY <1>1 DEF StreamSessionOfTask
  <2>2. streams' = [streams EXCEPT ![s] = y]
    BY <1>2
  <2> HIDE DEF y
  <2> QED BY <2>1, <2>2
<1>5. /\ streams' \in Seq(StreamSessionOfTask) /\ Len(streams') = Len(streams)
      /\ DOMAIN streams' = DOMAIN streams /\ streams'[s] = y
      /\ \A x \in DOMAIN streams : x # s => streams'[x] = streams[x]
  BY <1>0, <1>4, SessionRewritten
<1>6. TaskTypes'
  BY <1>3, <1>5 DEF TaskInv, TaskTypes, SurveillanceTask, StreamSessionOfTask
<1>7. CallsOK'
  BY <1>3, <1>5 DEF TaskInv, CallsOK, CallOK, ReadOf, TaskCall, TaskDocument
<1>8. OneSessionPerKey'
  <2>1. \A x \in DOMAIN streams : streams'[x].binding = streams[x].binding /\ streams'[x].rev = streams[x].rev
    BY <1>4, <1>5
  <2> QED BY ZenonT(60), <1>5, <2>1 DEF TaskInv, OneSessionPerKey
<1>9. PausedSettled'
  <2>1. ASSUME NEW x \in DOMAIN streams, Settled(x) PROVE Settled(x)'
    <3>1. CASE x = s /\ streams[x].st \in {"cancelling", "over"}
      BY <1>2, <1>4, <1>5, <3>1 DEF Settled
    <3>2. CASE x # s /\ streams[x].st \in {"cancelling", "over"}
      BY <1>5, <3>2 DEF Settled
    <3>3. CASE x \in unstopped \cup overtaken
      BY <1>3, <3>3 DEF Settled
    <3>4. CASE \E d \in Supervisors : sreq[d].at = "stop" /\ \E a \in sreq[d].left : sreq[d].read.names[a] = x
      BY <1>3, <3>4 DEF Settled
    <3> QED BY <2>1, <3>1, <3>2, <3>3, <3>4 DEF Settled
  <2> SUFFICES ASSUME task # NoRecord, task.status = "paused", NEW a \in Bindings,
                      task.names[a] # NoName
               PROVE  Settled(task.names[a])'
    BY <1>3 DEF PausedSettled
  <2> PICK x : x = task.names[a]
    OBVIOUS
  <2>2. x \in DOMAIN streams
    BY <1>0, TaskDocuments DEF TaskInv, TaskTypes, TaskDocument, NoName
  <2>3. Settled(x)'
    BY <2>1, <2>2 DEF TaskInv, PausedSettled
  <2> QED BY <1>3, <2>3 DEF Settled
<1> QED BY <1>6, <1>7, <1>8, <1>9 DEF TaskInv

LEMMA TaskStep == TaskInv /\ [TaskNext]_taskVars => TaskInv'
<1> SUFFICES ASSUME TaskInv, [TaskNext]_taskVars PROVE TaskInv'
  OBVIOUS
<1>1. CASE \E w \in Watchlists :
              \/ create_watchlist(w) \/ delete_watchlist(w)
              \/ \E r \in 1 .. MaxListRevision, s \in {"active", "archived"} : update_watchlist(w, r, s)
  <2>1. UNCHANGED <<task, streams, sreq, cancelVars>>
    BY <1>1 DEF create_watchlist, delete_watchlist, update_watchlist
  <2> QED BY <1>1, <2>1, WatchlistStep
<1>2. CASE is_active \/ UNCHANGED taskVars
  BY <1>2, WatchlistStep DEF is_active, taskVars
<1>3. ASSUME NEW c \in Supervisors, StopDone(c) PROVE TaskInv'
  BY <1>3, ReturnsOnly DEF StopDone
<1> QED
  BY <1>1, <1>2, <1>3, ReadStep, InsertTaskStep, SaveUpdateStep, SaveStartStep, SavePauseStep,
     SaveNamesStep, ReconcileBeginsStep, StartBindingFailsStep, StopBindingStep, StartBindingStep,
     RequestDiesStep, SessionMovesStep DEF TaskNext, SessionMoves

-----------------------------------------------------------------------------
(* Names.  A session that is not over is named by the task, held by the pass *)
(* that has started or found it, or known to be without a name.              *)

Holds(r, s) == r.at = "bind" /\ s \in Named(r.names)

NamesOfCall(r) ==
    r.at = "bind" =>
        /\ \A b \in r.left : r.names[b] = NoName
        /\ \A b \in Bindings : r.read.names[b] # NoName => r.names[b] = r.read.names[b]

Known(s) ==
    \/ streams[s].st = "over"
    \/ s \in Named(task.names) \cup unnamed
    \/ \E c \in Supervisors : Holds(sreq[c], s)

NamesInv ==
    /\ unnamed \subseteq DOMAIN streams
    /\ task = NoRecord => streams = << >>
    /\ \A c \in Supervisors : NamesOfCall(sreq[c])
    /\ \A s \in DOMAIN streams : Known(s)

LEMMA NamesInitOK == TaskInit => NamesInv
BY DEF TaskInit, NamesInv, NamesOfCall, NoCall

\* One request goes on and the sessions that were named, held or known still are.
LEMMA NamesKept ==
    ASSUME TaskInv, NamesInv, NEW c \in Supervisors, NEW r, Step(c, r), NamesOfCall(r),
           UNCHANGED streams, task # NoRecord \/ task' = NoRecord,
           \/ UNCHANGED <<task, unnamed>>
           \/ /\ unnamed \subseteq unnamed' /\ unnamed' \subseteq DOMAIN streams /\ task' # NoRecord
              /\ Named(task.names) \subseteq Named(task'.names) \cup unnamed',
           \A s \in DOMAIN streams : Holds(sreq[c], s) => Holds(r, s) \/ s \in Named(task'.names) \cup unnamed'
    PROVE  NamesInv'
<1>1. sreq' = [sreq EXCEPT ![c] = r] /\ DOMAIN sreq = Supervisors
  BY DEF Step, TaskInv, CallsOK
<1>2. \A d \in Supervisors : sreq'[d] = IF d = c THEN r ELSE sreq[d]
  BY <1>1
<1>3. \A d \in Supervisors : NamesOfCall(sreq'[d])
  BY <1>2 DEF NamesInv
<1>4. ASSUME NEW s \in DOMAIN streams PROVE Known(s)'
  <2>1. CASE streams[s].st = "over" \/ s \in Named(task.names) \cup unnamed
    BY <2>1 DEF Known
  <2>2. ASSUME NEW d \in Supervisors, Holds(sreq[d], s) PROVE Known(s)'
    <3>1. CASE d # c
      <4>1. Holds(sreq'[d], s)
        BY <1>2, <2>2, <3>1
      <4> QED BY <4>1 DEF Known
    <3>2. CASE d = c
      <4>1. Holds(r, s) => Holds(sreq'[c], s)
        BY <1>2
      <4> QED BY <2>2, <3>2, <4>1 DEF Known
    <3> QED BY <3>1, <3>2
  <2> QED BY <2>1, <2>2 DEF NamesInv, Known
<1>5. (\A d \in Supervisors : NamesOfCall(sreq[d]))'
  BY <1>3
<1>6. unnamed' \subseteq DOMAIN streams' /\ (task' = NoRecord => streams' = << >>)
  BY DEF NamesInv
<1> QED BY <1>4, <1>5, <1>6 DEF NamesInv

\* A request that holds no session and drops no name.
LEMMA NamesUntouched ==
    ASSUME TaskInv, NamesInv, NEW c \in Supervisors, NEW r, Step(c, r), r.at # "bind",
           sreq[c].at # "bind", UNCHANGED <<task, streams, unnamed>>
    PROVE  NamesInv'
BY NamesKept DEF NamesOfCall, Holds

LEMMA NamesSaved ==
    ASSUME TaskInv, NamesInv, NEW c \in Supervisors, NEW r, Step(c, r), r.at # "bind",
           sreq[c].at # "bind", UNCHANGED <<streams, unnamed>>,
           task # NoRecord, task' # NoRecord, task'.names = task.names
    PROVE  NamesInv'
<1>1. NamesOfCall(r)
  BY DEF NamesOfCall
<1>2. \A x \in DOMAIN streams : ~ Holds(sreq[c], x)
  BY DEF Holds
<1>3. Named(task'.names) = Named(task.names)
  OBVIOUS
<1>4. unnamed \subseteq unnamed' /\ unnamed' \subseteq DOMAIN streams
  BY DEF NamesInv
<1> QED BY <1>1, <1>2, <1>3, <1>4, NamesKept

LEMMA SessionsNamed ==
    ASSUME TaskInv, NEW n \in [Bindings -> 0 .. Len(streams)]
    PROVE  Named(n) \subseteq DOMAIN streams
<1>1. streams \in Seq(StreamSessionOfTask) /\ Len(streams) \in Nat /\ DOMAIN streams = 1 .. Len(streams)
  BY DEF TaskInv, TaskTypes
<1> QED BY <1>1 DEF Named, NoName

LEMMA NamesUpdate ==
    ASSUME TaskInv, NamesInv, NEW c \in Supervisors, NEW keep \in BOOLEAN, SaveUpdate(c, keep)
    PROVE  NamesInv'
<1> PICK r : r = sreq[c]
  OBVIOUS
<1> PICK read : read = r.read
  OBVIOUS
<1>1. read \in TaskDocument(Len(streams)) /\ r.at = "update" /\ ReadOf(read)
  BY DEF TaskInv, CallsOK, TaskCall, CallOK, NoCall, SaveUpdate
<1>2. Step(c, NoCall) /\ UNCHANGED streams /\ NoCall.at = "idle"
  BY DEF SaveUpdate, Return, NoCall
<1>3. CASE ~ Current(read)
  <2>1. UNCHANGED <<task, unnamed>>
    BY <1>3 DEF SaveUpdate, SaveTask
  <2> QED BY <1>1, <1>2, <2>1, NamesUntouched
<1>4. CASE Current(read)
  <2>1. task = read /\ read \in TaskDocument(Len(streams))
    BY <1>1, <1>4 DEF ReadOf, Current
  <2> PICK names : names = IF keep THEN read.names ELSE [b \in Bindings |-> NoName]
    OBVIOUS
  <2>2. task' = [[read EXCEPT !.lists = r.lists, !.names = names] EXCEPT !.revision = read.revision + 1]
    BY <1>4 DEF SaveUpdate, SaveTask
  <2>3. task'.names = names /\ task' # NoRecord
    BY <1>1, <2>2 DEF TaskDocument, NoRecord
  <2>4. CASE keep
    <3>1. UNCHANGED unnamed /\ task'.names = task.names
      BY <2>1, <2>3, <2>4 DEF SaveUpdate
    <3> QED BY <1>1, <1>2, <2>3, <3>1, NamesSaved DEF ReadOf
  <2>5. CASE ~ keep
    <3>1. unnamed' = unnamed \cup Named(task.names)
      BY <1>4, <2>5 DEF SaveUpdate
    <3>2. Named(task.names) \subseteq DOMAIN streams
      <4>1. task.names \in [Bindings -> 0 .. Len(streams)]
        BY <2>1 DEF TaskDocument
      <4> QED BY <4>1, SessionsNamed
    <3> QED BY <1>1, <1>2, <2>3, <3>1, <3>2, NamesKept DEF NamesInv, NamesOfCall, Holds, ReadOf
  <2> QED BY <2>4, <2>5
<1> QED BY <1>3, <1>4

LEMMA NamesSaveNames ==
    ASSUME TaskInv, NamesInv, NEW c \in Supervisors, SaveNames(c)
    PROVE  NamesInv'
<1> PICK r : r = sreq[c]
  OBVIOUS
<1> PICK read : read = r.read
  OBVIOUS
<1>1. /\ read \in TaskDocument(Len(streams)) /\ r.at = "bind" /\ ReadOf(read)
      /\ r.names \in [Bindings -> 0 .. Len(streams)]
  BY DEF TaskInv, CallsOK, TaskCall, CallOK, NoCall, SaveNames
<1>2. Step(c, NoCall) /\ UNCHANGED streams /\ NoCall.at = "idle"
  BY DEF SaveNames, Return, NoCall
<1>3. Named(r.names) \subseteq DOMAIN streams
  BY <1>1, SessionsNamed
<1>4. CASE ~ Current(read)
  <2>1. UNCHANGED task /\ unnamed' = unnamed \cup (Named(r.names) \ Named(task.names))
    BY <1>4 DEF SaveNames, SaveTask
  <2> QED BY <1>1, <1>2, <1>3, <2>1, NamesKept DEF NamesInv, NamesOfCall, Holds, ReadOf
<1>5. CASE Current(read)
  <2>1. task = read
    BY <1>1, <1>5 DEF ReadOf, Current
  <2>2. task' = [[read EXCEPT !.names = r.names] EXCEPT !.revision = read.revision + 1] /\ UNCHANGED unnamed
    BY <1>5 DEF SaveNames, SaveTask
  <2>3. task'.names = r.names /\ task' # NoRecord
    BY <1>1, <2>2 DEF TaskDocument, NoRecord
  <2>4. Named(task.names) \subseteq Named(r.names)
    BY <1>1, <2>1 DEF NamesInv, NamesOfCall, Named
  <2> QED BY <1>1, <1>2, <2>2, <2>3, <2>4, NamesKept DEF NamesInv, NamesOfCall, Holds, ReadOf
<1> QED BY <1>4, <1>5

LEMMA NamesDie ==
    ASSUME TaskInv, NamesInv, NEW c \in Supervisors, RequestDies(c)
    PROVE  NamesInv'
<1> PICK r : r = sreq[c]
  OBVIOUS
<1>1. Step(c, NoCall) /\ UNCHANGED <<task, streams>> /\ NoCall.at = "idle"
  BY DEF RequestDies, Return, NoCall
<1>2. CASE r.at # "bind"
  <2>1. UNCHANGED unnamed
    BY <1>2 DEF RequestDies
  <2> QED BY <1>1, <1>2, <2>1, NamesUntouched
<1>3. CASE r.at = "bind"
  <2>1. unnamed' = unnamed \cup (Named(r.names) \ Named(task.names))
    BY <1>3 DEF RequestDies
  <2>2. r.names \in [Bindings -> 0 .. Len(streams)] /\ ReadOf(r.read)
    BY <1>3 DEF TaskInv, CallsOK, TaskCall, CallOK, NoCall
  <2>3. Named(r.names) \subseteq DOMAIN streams
    BY <2>2, SessionsNamed
  <2> QED BY <1>1, <1>3, <2>1, <2>2, <2>3, NamesKept DEF NamesInv, NamesOfCall, Holds, ReadOf
<1> QED BY <1>2, <1>3

\* The pass holds the session that it has started or found.
LEMMA NamesStart ==
    ASSUME TaskInv, NamesInv, NEW c \in Supervisors, StartBinding(c)
    PROVE  NamesInv'
<1> PICK r : r = sreq[c]
  OBVIOUS
<1> PICK b : b = CHOOSE y \in r.left : TRUE
  OBVIOUS
<1> PICK known : known = SessionOfKey(b, r.read.revision)
  OBVIOUS
<1> PICK s : s = IF known # {} THEN CHOOSE y \in known : TRUE ELSE Len(streams) + 1
  OBVIOUS
<1> PICK y : y = [binding |-> b, rev |-> r.read.revision, st |-> "running"]
  OBVIOUS
<1> PICK q : q = [r EXCEPT !.left = r.left \ {b}, !.names = [r.names EXCEPT ![b] = s]]
  OBVIOUS
<1>1. r \in [at : {"bind"}, read : TaskDocument(Len(streams)), left : SUBSET Bindings,
             names : [Bindings -> 0 .. Len(streams)]] /\ ReadOf(r.read) /\ NamesOfCall(r)
  BY DEF TaskInv, CallsOK, CallOK, TaskCall, NoCall, StartBinding, NamesInv
<1>2. b \in Bindings /\ b \in r.left
  BY <1>1 DEF StartBinding
<1>3. streams \in Seq(StreamSessionOfTask) /\ Len(streams) \in Nat /\ DOMAIN streams = 1 .. Len(streams)
  BY DEF TaskInv, TaskTypes
<1>4. /\ streams' = IF known # {} THEN streams ELSE Append(streams, y)
      /\ Step(c, q) /\ UNCHANGED <<task, unnamed>>
  BY DEF StartBinding
<1>5. /\ q.at = "bind" /\ q.read = r.read /\ q.left = r.left \ {b}
      /\ \A a \in Bindings : q.names[a] = IF a = b THEN s ELSE r.names[a]
  <2>1. q.at = r.at /\ q.read = r.read /\ q.left = r.left \ {b} /\ q.names = [r.names EXCEPT ![b] = s]
    BY <1>1
  <2>2. r.at = "bind" /\ r.names \in [Bindings -> 0 .. Len(streams)]
    BY <1>1
  <2>3. \A a \in Bindings : [r.names EXCEPT ![b] = s][a] = IF a = b THEN s ELSE r.names[a]
    <3>1. DOMAIN r.names = Bindings
      BY <2>2
    <3>2. PICK n : n = r.names
      OBVIOUS
    <3>3. DOMAIN n = Bindings
      BY <3>1, <3>2
    <3>4. \A a \in Bindings : [n EXCEPT ![b] = s][a] = IF a = b THEN s ELSE n[a]
      BY <3>3
    <3> QED BY <3>2, <3>4
  <2> QED BY <2>1, <2>2, <2>3
<1>6. NamesOfCall(q)
  BY <1>1, <1>2, <1>5 DEF NamesOfCall
<1>7. Named(r.names) \subseteq Named(q.names)
  BY <1>1, <1>2, <1>5 DEF NamesOfCall, Named
<1>8. /\ \A x \in DOMAIN streams : x \in DOMAIN streams' /\ streams'[x] = streams[x]
      /\ \A x \in DOMAIN streams' : x \in DOMAIN streams \/ x = s
  <2>1. CASE known # {}
    BY <1>4, <2>1
  <2>2. CASE known = {}
    BY <1>3, <1>4, <2>2
  <2> QED BY <2>1, <2>2
<1>9. sreq' = [sreq EXCEPT ![c] = q] /\ DOMAIN sreq = Supervisors
  BY <1>4 DEF Step, TaskInv, CallsOK
<1>10. \A d \in Supervisors : sreq'[d] = IF d = c THEN q ELSE sreq[d]
  BY <1>9
<1>11. (\A d \in Supervisors : NamesOfCall(sreq[d]))'
  BY <1>6, <1>10 DEF NamesInv
<1>12. ASSUME NEW x \in DOMAIN streams, Known(x) PROVE Known(x)'
  <2>1. CASE streams[x].st = "over" \/ x \in Named(task.names) \cup unnamed
    BY <1>4, <1>8, <2>1 DEF Known
  <2>2. ASSUME NEW d \in Supervisors, Holds(sreq[d], x) PROVE Known(x)'
    <3>1. Holds(sreq'[d], x)
      BY <1>5, <1>7, <1>10, <2>2 DEF Holds
    <3> QED BY <3>1 DEF Known
  <2> QED BY <1>12, <2>1, <2>2 DEF Known
<1>13. ASSUME s \notin DOMAIN streams, s \in DOMAIN streams' PROVE Known(s)'
  <2>1. s # NoName
    <3>1. known \subseteq DOMAIN streams
      BY DEF SessionOfKey
    <3>2. known = {}
      BY <1>13, <3>1
    <3>3. s = Len(streams) + 1
      BY <3>2
    <3>4. Len(streams) + 1 # 0
      BY <1>3
    <3> QED BY <3>3, <3>4 DEF NoName
  <2>2. Holds(sreq'[c], s)
    <3>1. sreq'[c] = q
      BY <1>10
    <3>2. q.names[b] = s
      BY <1>2, <1>5
    <3>3. s \in Named(q.names)
      BY <1>2, <2>1, <3>2 DEF Named
    <3> QED BY <1>5, <3>1, <3>3 DEF Holds
  <2> QED BY <2>2 DEF Known
<1>14. \A x \in DOMAIN streams' : Known(x)'
  BY <1>8, <1>12, <1>13 DEF NamesInv
<1>15. unnamed' \subseteq DOMAIN streams' /\ task' # NoRecord
  BY <1>1, <1>4, <1>8 DEF NamesInv, ReadOf
<1> QED BY <1>11, <1>14, <1>15 DEF NamesInv

LEMMA NamesStep == TaskInv /\ NamesInv /\ [TaskNext]_taskVars => NamesInv'
<1> SUFFICES ASSUME TaskInv, NamesInv, [TaskNext]_taskVars PROVE NamesInv'
  OBVIOUS
<1>1. CASE \E w \in Watchlists :
              \/ create_watchlist(w) \/ delete_watchlist(w)
              \/ \E r \in 1 .. MaxListRevision, s \in {"active", "archived"} : update_watchlist(w, r, s)
  <2>1. UNCHANGED <<task, streams, sreq, unnamed>>
    BY <1>1 DEF create_watchlist, delete_watchlist, update_watchlist
  <2> QED BY <2>1 DEF NamesInv, Known, Holds
<1>2. CASE is_active \/ UNCHANGED taskVars
  <2>1. UNCHANGED <<task, streams, sreq, unnamed>>
    BY <1>2 DEF is_active, taskVars
  <2> QED BY <2>1 DEF NamesInv, Known, Holds
<1>3. CASE SessionMoves
  <2> PICK s \in DOMAIN streams : SegmentCompletes(s) \/ SegmentRollsOver(s) \/ SessionEnds(s)
    BY <1>3 DEF SessionMoves
  <2>1. /\ UNCHANGED <<task, sreq, unnamed>> /\ DOMAIN streams' = DOMAIN streams
        /\ \A x \in DOMAIN streams : streams[x].st = "over" => streams'[x].st = "over"
        /\ streams # << >>
    <3>1. PICK st \in {"between", "running", "over"} :
             /\ streams' = [streams EXCEPT ![s].st = st] /\ (streams[s].st = "over" => st = "over")
      BY DEF SegmentCompletes, SegmentRollsOver, SessionEnds
    <3>2. UNCHANGED <<task, sreq, unnamed>>
      BY DEF SegmentCompletes, SegmentRollsOver, SessionEnds
    <3>3. /\ streams[s] \in StreamSessionOfTask /\ streams \in Seq(StreamSessionOfTask)
      BY ElementOfSeq DEF TaskInv, TaskTypes
    <3>4. [streams[s] EXCEPT !.st = st].st = st
      BY <3>3 DEF StreamSessionOfTask
    <3>5. streams # << >>
      OBVIOUS
    <3>6. \A x \in DOMAIN streams : streams[x].st = "over" => streams'[x].st = "over"
      BY <3>1, <3>4
    <3>7. DOMAIN streams' = DOMAIN streams
      BY <3>1
    <3> QED BY <3>2, <3>5, <3>6, <3>7
  <2>2. \A x \in DOMAIN streams : Known(x) => Known(x)'
    BY <2>1 DEF Known, Holds
  <2> QED BY <2>1, <2>2 DEF NamesInv
<1>4. ASSUME NEW c \in Supervisors, NEW l \in (SUBSET Watchlists) \ {{}},
             create_task(c, l) \/ update_task(c, l)
      PROVE  NamesInv'
  <2>1. PICK r : Step(c, r) /\ r.at # "bind"
    BY <1>4 DEF create_task, update_task
  <2>2. sreq[c].at # "bind" /\ UNCHANGED <<task, streams, unnamed>>
    BY <1>4 DEF create_task, update_task, NoCall
  <2> QED BY <2>1, <2>2, NamesUntouched
<1>5. ASSUME NEW c \in Supervisors, start_task(c) \/ pause_task(c) \/ reconcile(c)
      PROVE  NamesInv'
  <2>1. PICK r : Step(c, r) /\ r.at # "bind"
    BY <1>5 DEF start_task, pause_task, reconcile
  <2>2. sreq[c].at # "bind" /\ UNCHANGED <<task, streams, unnamed>>
    BY <1>5 DEF start_task, pause_task, reconcile, NoCall
  <2> QED BY <2>1, <2>2, NamesUntouched
<1>6. ASSUME NEW c \in Supervisors, StopDone(c) PROVE NamesInv'
  <2>1. Step(c, NoCall) /\ NoCall.at = "idle" /\ sreq[c].at = "stop" /\ UNCHANGED <<task, streams, unnamed>>
    BY <1>6 DEF StopDone, Return, NoCall
  <2> QED BY <2>1, NamesUntouched
<1>7. ASSUME NEW c \in Supervisors, InsertTask(c) PROVE NamesInv'
  <2>1. /\ streams = << >> /\ streams' = streams /\ unnamed' = unnamed /\ Step(c, NoCall)
    BY <1>7 DEF InsertTask, Return, NamesInv
  <2>2. \A d \in Supervisors : sreq'[d] = IF d = c THEN NoCall ELSE sreq[d]
    BY <2>1 DEF Step, TaskInv, CallsOK
  <2>3. (\A d \in Supervisors : NamesOfCall(sreq[d]))'
    BY <2>2 DEF NamesInv, NamesOfCall, NoCall
  <2> QED BY <2>1, <2>3 DEF NamesInv
<1>8. ASSUME NEW c \in Supervisors, SaveStart(c) \/ SavePause(c) PROVE NamesInv'
  <2> PICK read : read = sreq[c].read
    OBVIOUS
  <2>1. read \in TaskDocument(Len(streams)) /\ sreq[c].at \in {"start", "pause"} /\ ReadOf(read)
    BY <1>8 DEF TaskInv, CallsOK, TaskCall, CallOK, NoCall, SaveStart, SavePause
  <2>2. UNCHANGED <<streams, unnamed>> /\ \E r : Step(c, r) /\ r.at # "bind"
    BY <1>8 DEF SaveStart, SavePause, Return, NoCall
  <2>3. CASE ~ Current(read)
    <3>1. UNCHANGED task
      BY <1>8, <2>3 DEF SaveStart, SavePause, SaveTask
    <3> QED BY <2>1, <2>2, <3>1, NamesUntouched
  <2>4. CASE Current(read)
    <3>1. \E st : task' = [[read EXCEPT !.status = st, !.revision = @ + 1] EXCEPT !.revision = read.revision + 1]
      BY <1>8, <2>4 DEF SaveStart, SavePause, SaveTask
    <3>2. task'.names = read.names /\ task' # NoRecord /\ task = read
      BY <2>1, <2>4, <3>1 DEF TaskDocument, NoRecord, ReadOf, Current
    <3> QED BY <2>1, <2>2, <3>2, NamesSaved DEF ReadOf
  <2> QED BY <2>3, <2>4
<1>9. ASSUME NEW c \in Supervisors, NEW ok \in BOOLEAN, NEW queued \in BOOLEAN, StopBinding(c, ok, queued)
      PROVE  NamesInv'
  <2> PICK r : r = sreq[c]
    OBVIOUS
  <2> PICK b : b = CHOOSE y \in r.left : TRUE
    OBVIOUS
  <2> PICK q : q = [r EXCEPT !.left = r.left \ {b}]
    OBVIOUS
  <2>1. r \in [at : {"stop"}, read : TaskDocument(Len(streams)), left : SUBSET Bindings] /\ ReadOf(r.read)
    BY <1>9 DEF TaskInv, CallsOK, TaskCall, CallOK, NoCall, StopBinding, cancel_stream_session
  <2>2. q.at = "stop" /\ Step(c, q) /\ UNCHANGED <<task, unnamed>>
    BY <1>9, <2>1 DEF StopBinding, cancel_stream_session
  <2>3. /\ DOMAIN streams' = DOMAIN streams
        /\ \A x \in DOMAIN streams : streams[x].st = "over" => streams'[x].st = "over"
    <3> PICK s : s = r.read.names[b]
      OBVIOUS
    <3>1. CASE streams' = streams
      BY <3>1
    <3>2. CASE streams[s].st = "running" /\ streams' = [streams EXCEPT ![s].st = IF queued THEN "over" ELSE "cancelling"]
      BY <3>2
    <3> QED BY <1>9, <3>1, <3>2 DEF StopBinding, cancel_stream_session
  <2>4. \A d \in Supervisors : sreq'[d] = IF d = c THEN q ELSE sreq[d]
    BY <2>2 DEF Step, TaskInv, CallsOK
  <2>5. (\A d \in Supervisors : NamesOfCall(sreq[d]))'
    <3>1. NamesOfCall(q)
      BY <2>2 DEF NamesOfCall
    <3>2. \A d \in Supervisors : NamesOfCall(sreq'[d])
      BY <2>4, <3>1 DEF NamesInv
    <3>3. \A n : NamesOfCall(n)' <=> NamesOfCall(n)
      OBVIOUS
    <3> QED BY <3>2
  <2>6. ASSUME NEW x \in DOMAIN streams PROVE Known(x)'
    <3>1. ASSUME NEW d \in Supervisors, Holds(sreq[d], x) PROVE Known(x)'
      <4>1. Holds(sreq'[d], x)
        BY <2>1, <2>4, <3>1 DEF Holds
      <4> QED BY <4>1 DEF Known
    <3>2. CASE streams[x].st = "over" \/ x \in Named(task.names) \cup unnamed
      BY <2>2, <2>3, <3>2 DEF Known
    <3> QED BY <3>1, <3>2 DEF NamesInv, Known
  <2>7. (\A x \in DOMAIN streams : Known(x))'
    BY <2>3, <2>6
  <2>8. unnamed' \subseteq DOMAIN streams' /\ task' # NoRecord
    BY <2>1, <2>2, <2>3 DEF NamesInv, ReadOf
  <2> QED BY <2>5, <2>7, <2>8 DEF NamesInv
<1>10. ASSUME NEW c \in Supervisors, ReconcileBegins(c) PROVE NamesInv'
  <2> PICK r : r = sreq[c]
    OBVIOUS
  <2>1. r.at = "reconcile" /\ UNCHANGED <<task, streams, unnamed>>
    BY <1>10 DEF ReconcileBegins
  <2>2. PICK q : Step(c, q) /\ (q.at = "bind" => /\ q.left = {b \in Bindings : r.read.names[b] = NoName}
                                               /\ q.read = r.read /\ q.names = r.read.names)
    BY <1>10 DEF ReconcileBegins, Return, NoCall
  <2>3. NamesOfCall(q)
    BY <2>2 DEF NamesOfCall
  <2>4. \A s \in DOMAIN streams : ~ Holds(r, s)
    BY <2>1 DEF Holds
  <2>5. task # NoRecord \/ task' = NoRecord
    BY <2>1
  <2> QED BY <2>1, <2>2, <2>3, <2>4, <2>5, NamesKept
<1>11. ASSUME NEW c \in Supervisors, StartBindingFails(c) PROVE NamesInv'
  <2> PICK r : r = sreq[c]
    OBVIOUS
  <2> PICK b : b = CHOOSE y \in r.left : TRUE
    OBVIOUS
  <2> PICK q : q = [r EXCEPT !.left = r.left \ {b}]
    OBVIOUS
  <2>1. r \in [at : {"bind"}, read : TaskDocument(Len(streams)), left : SUBSET Bindings,
               names : [Bindings -> 0 .. Len(streams)]] /\ NamesOfCall(r)
    BY <1>11 DEF TaskInv, CallsOK, TaskCall, NoCall, StartBindingFails, NamesInv
  <2>2. Step(c, q) /\ UNCHANGED <<task, streams, unnamed>>
    BY <1>11 DEF StartBindingFails
  <2>3. q.at = "bind" /\ q.read = r.read /\ q.names = r.names /\ q.left \subseteq r.left
    BY <2>1
  <2>4. NamesOfCall(q)
    BY <2>1, <2>3 DEF NamesOfCall
  <2>5. \A s \in DOMAIN streams : Holds(r, s) => Holds(q, s)
    BY <2>3 DEF Holds
  <2>6. task # NoRecord \/ task' = NoRecord
    BY <2>2
  <2> QED BY <2>2, <2>4, <2>5, <2>6, NamesKept
<1> QED
  BY <1>1, <1>2, <1>3, <1>4, <1>5, <1>6, <1>7, <1>8, <1>9, <1>10, <1>11, NamesUpdate, NamesSaveNames,
     NamesDie, NamesStart DEF TaskNext, SessionMoves

\* However requests and reconcile passes overlap or die half-way, a binding and a
\* revision have one session; once every request is over a paused task names no
\* session but those asked to end, over, or whose cancel failed, was lost or came
\* too late; and a session that still runs without a name lost it to a conflicting
\* save, a crash or an update of the bindings.
THEOREM TasksAreSound == TaskSpec => []TaskSessionsSound
<1>1. TaskInv /\ NamesInv => TaskSessionsSound
  <2> SUFFICES ASSUME TaskInv, NamesInv PROVE TaskSessionsSound
    OBVIOUS
  <2>1. TaskTypeOK
    BY DEF TaskInv, TaskTypes, NamesInv, TaskTypeOK
  <2>2. ASSUME Quiet, task # NoRecord, task.status = "paused", NEW s \in Named(task.names)
        PROVE  streams[s].st \in {"cancelling", "over"} \/ s \in unstopped \cup overtaken
    <3>1. \A c \in Supervisors : sreq[c].at # "stop"
      BY <2>2 DEF Quiet, NoCall
    <3>2. PICK b \in Bindings : s = task.names[b] /\ task.names[b] # NoName
      BY <2>2 DEF Named
    <3> QED BY <2>2, <3>1, <3>2 DEF TaskInv, PausedSettled, Settled
  <2>3. ASSUME Quiet, NEW s \in DOMAIN streams
        PROVE  streams[s].st = "over" \/ s \in Named(task.names) \cup unnamed
    <3>1. \A c \in Supervisors : ~ Holds(sreq[c], s)
      BY <2>3 DEF Quiet, NoCall, Holds
    <3> QED BY <3>1 DEF NamesInv, Known
  <2> QED BY <2>1, <2>2, <2>3 DEF TaskInv, OneSessionPerKey, TaskSessionsSound
<1> QED BY <1>1, TaskInitOK, TaskStep, NamesInitOK, NamesStep, PTL DEF TaskSpec

HIDE DEF cancelVars, historyVars

------------------------------------------------------------------------------
(* The gallery.  Three stores without a common transaction: what a request    *)
(* or a deletion knows of the others is what it did itself before, unless    *)
(* the history variables say that another one ran beside it.                 *)

EnrolPhases == {"idle", "failed", "done", "encode", "ensure", "again", "space", "contract", "feature",
                "index", "record", "enrol"}
RemovalPhases == {"idle", "features", "points", "index", "row"}

GalleryTypes ==
    /\ people \in [Subjects -> {"new", "exists", "gone"}]
    /\ DOMAIN spaces = FeatureSpaces
    /\ entries \in [Requests -> {"none", "ready", "deleted"}]
    /\ features \subseteq Requests /\ enrolments \subseteq Requests
    /\ enrolling \in [Requests -> [at : EnrolPhases, then : {"none", "again", "feature"}]]
    /\ removing \in [Subjects -> [at : RemovalPhases, found : SUBSET Requests]]
    /\ galleryTime \in Nat

\* A space has one contract for good.  In Qdrant it is written by the only request
\* that created the collection.
SpacesSound ==
    /\ \A e \in features : Encodes(e, spaces[Faces[e].space])
    /\ \A e \in Requests :
          /\ enrolling[e].at = "feature" => Encodes(e, spaces[Faces[e].space])
          /\ enrolling[e].at = "contract" =>
                 /\ featureStore = "qdrant" /\ spaces[Faces[e].space] = NoContract
                 /\ Faces[e].space \in collections /\ enrolling[e].then # "none"
                 /\ \A f \in Requests : enrolling[f].at = "contract" /\ Faces[f].space = Faces[e].space => f = e

\* An enrolment that runs while its person is deleted, or after, has raced.
RacesKnown ==
    /\ \A e \in Requests :
          Under_way(e) /\ (removing[Subject(e)].at # "idle" \/ people[Subject(e)] = "gone") => e \in raced
    /\ \A i \in Subjects : removing[i].at # "idle" => i \in attempted /\ people[i] = "exists"
    /\ \A i \in Subjects : removing[i].found \subseteq OfSubject(i)

\* What a deletion has removed is there again only through an enrolment that raced.
RemovalsSound ==
    \A e \in Requests :
        LET i == Subject(e) IN
        /\ removing[i].at = "points" /\ e \in features => e \in removing[i].found \/ e \in raced \/ i \in blind
        /\ removing[i].at \in {"index", "row"} \/ people[i] = "gone" =>
               (e \in features => e \in raced \/ i \in blind)
        /\ removing[i].at = "row" \/ people[i] = "gone" => (entries[e] = "ready" => e \in raced)

\* What an enrolment has written is there until it expires or a deletion starts.
EnrolmentsSound ==
    /\ \A e \in Requests : Subject(e) \notin attempted =>
          /\ enrolling[e].at \in {"index", "record", "enrol"} \/ e \in enrolments =>
                 e \in features \/ Expired(e)
          /\ enrolling[e].at = "enrol" \/ e \in enrolments => entries[e] = "ready" \/ Expired(e)
    /\ \A e \in enrolments :
          /\ featureStore = "postgres" => people[Subject(e)] = "exists" /\ e \in features
          /\ people[Subject(e)] = "gone" => e \in raced

\* A search keeps out of its result who was gone and what had expired when it began.
SearchSound ==
    /\ seeking \in [at : {"idle", "resolve"}, mode : {"none", "vector", "image"}, found : SUBSET Requests,
                   result : SUBSET Requests, gone : SUBSET Subjects, started : Nat]
    /\ \A i \in seeking.gone : people[i] = "gone"
    /\ \A e \in seeking.found \cup seeking.result :
          seeking.mode = "vector" => Faces[e].expires_at = 0 \/ Faces[e].expires_at > seeking.started
    /\ \A e \in seeking.result : Subject(e) \notin seeking.gone

GalleryInv ==
    GalleryTypes /\ SpacesSound /\ RacesKnown /\ RemovalsSound /\ EnrolmentsSound /\ SearchSound

LEMMA FaceFacts ==
    /\ \A e \in Requests : /\ Subject(e) \in Subjects /\ Faces[e].space \in FeatureSpaces
                           /\ Faces[e].expires_at \in Nat
    /\ \A e \in Requests : Encodes(e, Contract(e)) /\ ~ Encodes(e, NoContract) /\ Contract(e) # NoContract
<1>1. \A e \in Requests : Contract(e).dimension \in Nat \ {0} /\ NoContract.dimension = 0
  BY GalleryAssumption DEF Requests, Contract, NoContract
<1>2. \A e \in Requests : Encodes(e, Contract(e)) /\ ~ Encodes(e, NoContract)
  BY <1>1 DEF Encodes
<1>3. \A e \in Requests : Contract(e) # NoContract
  BY <1>1
<1> QED BY <1>2, <1>3, GalleryAssumption DEF Requests, Subject, FeatureSpaces

EnrolRecord == [at : EnrolPhases, then : {"none", "again", "feature"}]

\* A request goes on; what it has written so far is known.
LEMMA EnrolMoves ==
    ASSUME GalleryInv, NEW e \in Requests, NEW q \in EnrolRecord, enrolling' = [enrolling EXCEPT ![e] = q],
           UNCHANGED <<featureStore, people, features, entries, enrolments, removing, seeking, galleryTime,
                       attempted, blind>>,
           raced \subseteq raced', DOMAIN spaces' = FeatureSpaces, SpacesSound',
           q.at \in {"idle", "done", "failed"} \/ Under_way(e) \/ e \in raced'
           \/ (removing[Subject(e)].at = "idle" /\ people[Subject(e)] # "gone"),
           q.at \in {"index", "record", "enrol"} => enrolling[e].at \in {"index", "record", "enrol"},
           q.at = "enrol" => enrolling[e].at = "enrol"
    PROVE  GalleryInv'
<1>1. /\ enrolling \in [Requests -> EnrolRecord] /\ enrolling' \in [Requests -> EnrolRecord]
      /\ enrolling'[e] = q /\ \A f \in Requests : f # e => enrolling'[f] = enrolling[f]
  BY DEF GalleryInv, GalleryTypes, EnrolRecord
<1>2. GalleryTypes'
  BY <1>1 DEF GalleryInv, GalleryTypes, EnrolRecord, Requests, FeatureSpaces
<1>3. RacesKnown'
  BY <1>1, FaceFacts DEF GalleryInv, RacesKnown, Under_way, OfSubject, Requests, Subject
<1>4. RemovalsSound'
  BY DEF GalleryInv, RemovalsSound, Requests, Subject
<1>5. EnrolmentsSound'
  BY <1>1 DEF GalleryInv, EnrolmentsSound, Requests, Subject, Expired
<1>6. SearchSound'
  BY DEF GalleryInv, SearchSound, Requests, Subject
<1> QED BY <1>2, <1>3, <1>4, <1>5, <1>6 DEF GalleryInv

\* At sets the step and leaves the rest of the request.
LEMMA AtMoves ==
    ASSUME GalleryTypes, NEW e \in Requests, NEW p \in EnrolPhases, At(e, p)
    PROVE  \E q \in EnrolRecord : enrolling' = [enrolling EXCEPT ![e] = q] /\ q.at = p
<1>1. enrolling[e] \in EnrolRecord
  BY DEF GalleryTypes, EnrolRecord
<1>2. [enrolling[e] EXCEPT !.at = p] \in EnrolRecord /\ [enrolling[e] EXCEPT !.at = p].at = p
  BY <1>1 DEF EnrolRecord
<1>3. enrolling' = [enrolling EXCEPT ![e] = [enrolling[e] EXCEPT !.at = p]]
  BY DEF At
<1> QED BY <1>2, <1>3

\* No request gets to write a contract or a vector by a step of another.
LEMMA SpacesKept ==
    ASSUME GalleryInv, NEW e \in Requests, NEW q \in EnrolRecord, enrolling' = [enrolling EXCEPT ![e] = q],
           UNCHANGED <<featureStore, spaces, features>>, collections \subseteq collections',
           q.at # "contract", q.at = "feature" => Encodes(e, spaces[Faces[e].space])
    PROVE  SpacesSound'
<1>1. /\ enrolling'[e] = q /\ \A f \in Requests : f # e => enrolling'[f] = enrolling[f]
  BY DEF GalleryInv, GalleryTypes
<1> QED BY <1>1 DEF GalleryInv, SpacesSound, Requests, Encodes, Contract

LEMMA StartEnrolmentInv ==
    ASSUME GalleryInv, NEW e \in Requests, StartEnrolment(e) PROVE GalleryInv'
<1>1. PICK p \in {"encode", "space", "failed"} : At(e, p) /\ (p # "failed" => people[Subject(e)] = "exists")
  BY DEF StartEnrolment
<1>2. PICK q \in EnrolRecord : enrolling' = [enrolling EXCEPT ![e] = q] /\ q.at = p
  BY <1>1, AtMoves DEF EnrolPhases, GalleryInv
<1>3. /\ UNCHANGED <<featureStore, people, features, entries, enrolments, removing, seeking, galleryTime,
                      attempted, blind, spaces, collections>>
      /\ raced \subseteq raced' /\ (removing[Subject(e)].at # "idle" => e \in raced')
  BY DEF StartEnrolment, stores
<1>4. SpacesSound'
  BY <1>1, <1>2, <1>3, SpacesKept
<1> QED BY <1>1, <1>2, <1>3, <1>4, EnrolMoves DEF GalleryInv, GalleryTypes

LEMMA EncodeInv ==
    ASSUME GalleryInv, NEW e \in Requests, enroll_image(e) \/ EnrolAgain(e) PROVE GalleryInv'
<1>1. PICK p \in {"ensure", "space", "failed"} : At(e, p)
  BY DEF enroll_image, EnrolAgain
<1>2. PICK q \in EnrolRecord : enrolling' = [enrolling EXCEPT ![e] = q] /\ q.at = p
  BY <1>1, AtMoves DEF EnrolPhases, GalleryInv
<1>3. /\ UNCHANGED <<featureStore, people, features, entries, enrolments, removing, seeking, galleryTime,
                      attempted, blind, spaces, collections, raced>>
      /\ Under_way(e)
  BY DEF enroll_image, EnrolAgain, stores, Under_way
<1>4. SpacesSound'
  BY <1>1, <1>2, <1>3, SpacesKept
<1> QED BY <1>1, <1>2, <1>3, <1>4, EnrolMoves DEF GalleryInv, GalleryTypes

\* A space that is not there yet gets the contract of the request.
LEMMA NewSpace ==
    ASSUME GalleryInv, NEW e \in Requests, NEW q \in EnrolRecord, enrolling' = [enrolling EXCEPT ![e] = q],
           UNCHANGED <<featureStore, features, collections>>, spaces[Faces[e].space] = NoContract,
           spaces' = [spaces EXCEPT ![Faces[e].space] = Contract(e)],
           featureStore # "qdrant" \/ enrolling[e].at = "contract", q.at # "contract"
    PROVE  DOMAIN spaces' = FeatureSpaces /\ SpacesSound'
<1>1. /\ enrolling'[e] = q /\ \A f \in Requests : f # e => enrolling'[f] = enrolling[f]
  BY DEF GalleryInv, GalleryTypes
<1>2. /\ DOMAIN spaces' = FeatureSpaces /\ spaces'[Faces[e].space] = Contract(e)
      /\ \A s \in FeatureSpaces : s # Faces[e].space => spaces'[s] = spaces[s]
  BY FaceFacts DEF GalleryInv, GalleryTypes
<1>3. \A f \in Requests : Encodes(f, spaces[Faces[f].space]) => spaces'[Faces[f].space] = spaces[Faces[f].space]
  BY <1>2, FaceFacts
<1>4. \A f \in features : Encodes(f, spaces'[Faces[f].space])
  BY <1>3 DEF GalleryInv, GalleryTypes, SpacesSound
<1>5. ASSUME NEW f \in Requests, enrolling'[f].at = "feature" PROVE Encodes(f, spaces'[Faces[f].space])
  <2>1. CASE f = e
    BY <1>2, <2>1, FaceFacts
  <2>2. CASE f # e
    BY <1>1, <1>3, <1>5, <2>2 DEF GalleryInv, SpacesSound
  <2> QED BY <2>1, <2>2
<1>6. ASSUME NEW f \in Requests, enrolling'[f].at = "contract"
      PROVE  /\ featureStore = "qdrant" /\ spaces'[Faces[f].space] = NoContract
             /\ Faces[f].space \in collections /\ enrolling'[f].then # "none"
             /\ \A g \in Requests : enrolling'[g].at = "contract" /\ Faces[g].space = Faces[f].space => g = f
  <2>1. f # e /\ enrolling[f].at = "contract"
    BY <1>1, <1>6
  <2>2. /\ featureStore = "qdrant" /\ spaces[Faces[f].space] = NoContract /\ Faces[f].space \in collections
        /\ enrolling[f].then # "none"
        /\ \A g \in Requests : enrolling[g].at = "contract" /\ Faces[g].space = Faces[f].space => g = f
    BY <2>1 DEF GalleryInv, SpacesSound
  <2>3. Faces[f].space # Faces[e].space
    BY <2>1, <2>2
  <2> QED BY <1>1, <1>2, <2>1, <2>2, <2>3, FaceFacts
<1> QED BY <1>2, <1>4, <1>5, <1>6 DEF SpacesSound, Requests, Encodes, Contract

LEMMA EnsureSpaceInv ==
    ASSUME GalleryInv, NEW e \in Requests, _ensure_space(e) PROVE GalleryInv'
<1>1. /\ enrolling[e].at \in {"ensure", "space"} /\ Under_way(e)
      /\ UNCHANGED <<featureStore, people, features, entries, enrolments, removing, seeking, galleryTime,
                     attempted, blind, raced>>
      /\ GalleryTypes /\ DOMAIN spaces = FeatureSpaces
  BY DEF _ensure_space, Under_way, GalleryInv, GalleryTypes
<1>2. PICK after \in {"again", "feature"} : after = AfterSpace(enrolling[e].at)
  BY DEF AfterSpace
<1>3. CASE /\ spaces[Faces[e].space] # NoContract /\ UNCHANGED <<spaces, collections>>
           /\ At(e, IF spaces[Faces[e].space] = Contract(e) THEN after ELSE "failed")
  <2>1. PICK p \in {"again", "feature", "failed"} :
            At(e, p) /\ (p # "failed" => spaces[Faces[e].space] = Contract(e))
    BY <1>3
  <2>2. PICK q \in EnrolRecord : enrolling' = [enrolling EXCEPT ![e] = q] /\ q.at = p
    BY <1>1, <2>1, AtMoves DEF EnrolPhases
  <2>3. SpacesSound'
    BY <1>1, <1>3, <2>1, <2>2, SpacesKept, FaceFacts
  <2> QED BY <1>1, <1>3, <2>1, <2>2, <2>3, EnrolMoves
<1>4. CASE At(e, "failed") /\ UNCHANGED <<spaces, collections>>
  <2>1. PICK q \in EnrolRecord : enrolling' = [enrolling EXCEPT ![e] = q] /\ q.at = "failed"
    BY <1>1, <1>4, AtMoves DEF EnrolPhases
  <2>2. SpacesSound'
    BY <1>1, <1>4, <2>1, SpacesKept
  <2> QED BY <1>1, <1>4, <2>1, <2>2, EnrolMoves
<1>5. CASE /\ featureStore # "qdrant" /\ spaces[Faces[e].space] = NoContract /\ At(e, after)
           /\ spaces' = [spaces EXCEPT ![Faces[e].space] = Contract(e)] /\ UNCHANGED collections
  <2>1. PICK q \in EnrolRecord : enrolling' = [enrolling EXCEPT ![e] = q] /\ q.at = after
    BY <1>1, <1>5, AtMoves DEF EnrolPhases
  <2>2. DOMAIN spaces' = FeatureSpaces /\ SpacesSound'
    BY <1>1, <1>5, <2>1, NewSpace
  <2> QED BY <1>1, <2>1, <2>2, EnrolMoves
<1>6. CASE /\ featureStore = "qdrant" /\ spaces[Faces[e].space] = NoContract
           /\ Faces[e].space \notin collections /\ collections' = collections \cup {Faces[e].space}
           /\ enrolling' = [enrolling EXCEPT ![e] = EnrolStep("contract", after)] /\ UNCHANGED spaces
  <2>1. PICK q \in EnrolRecord :
            enrolling' = [enrolling EXCEPT ![e] = q] /\ q.at = "contract" /\ q.then # "none"
    <3>1. /\ EnrolStep("contract", after) \in EnrolRecord /\ EnrolStep("contract", after).at = "contract"
          /\ EnrolStep("contract", after).then # "none"
      BY DEF EnrolStep, EnrolRecord, EnrolPhases
    <3> QED BY <1>6, <3>1
  <2>2. enrolling'[e] = q /\ \A f \in Requests : f # e => enrolling'[f] = enrolling[f]
    BY <1>1, <2>1 DEF GalleryTypes
  <2>3. \A f \in Requests : f # e /\ enrolling'[f].at = "contract" => Faces[f].space # Faces[e].space
    BY <1>6, <2>2 DEF GalleryInv, SpacesSound
  <2>4. SpacesSound'
    BY <1>1, <1>6, <2>1, <2>2, <2>3 DEF GalleryInv, SpacesSound, Requests, Encodes, Contract
  <2> QED BY <1>1, <1>6, <2>1, <2>4, EnrolMoves
<1> QED BY <1>1, <1>2, <1>3, <1>4, <1>5, <1>6
        DEF _ensure_space, MemorySpace, PostgresSpace, QdrantSpace, SameContract

LEMMA WriteContractInv ==
    ASSUME GalleryInv, NEW e \in Requests, WriteContract(e) PROVE GalleryInv'
<1>1. /\ enrolling[e].at = "contract" /\ Under_way(e) /\ enrolling[e] \in EnrolRecord
      /\ UNCHANGED <<featureStore, people, features, entries, enrolments, removing, seeking, galleryTime,
                     attempted, blind, raced, collections>>
      /\ spaces[Faces[e].space] = NoContract /\ enrolling[e].then # "none"
      /\ spaces' = [spaces EXCEPT ![Faces[e].space] = Contract(e)]
  BY DEF WriteContract, Under_way, GalleryInv, GalleryTypes, SpacesSound, EnrolRecord
<1>2. PICK q \in EnrolRecord :
          enrolling' = [enrolling EXCEPT ![e] = q] /\ q.at \in {"again", "feature"}
  <2>1. EnrolStep(enrolling[e].then, "none") \in EnrolRecord
        /\ EnrolStep(enrolling[e].then, "none").at \in {"again", "feature"}
    BY <1>1 DEF EnrolStep, EnrolRecord, EnrolPhases
  <2> QED BY <2>1 DEF WriteContract
<1>3. DOMAIN spaces' = FeatureSpaces /\ SpacesSound'
  BY <1>1, <1>2, NewSpace
<1> QED BY <1>1, <1>2, <1>3, EnrolMoves

LEMMA CreateIndexInv ==
    ASSUME GalleryInv, NEW e \in Requests, create_index(e) PROVE GalleryInv'
<1>1. PICK p \in {"record", "failed"} : At(e, p)
  BY DEF create_index
<1>2. PICK q \in EnrolRecord : enrolling' = [enrolling EXCEPT ![e] = q] /\ q.at = p
  BY <1>1, AtMoves DEF EnrolPhases, GalleryInv
<1>3. /\ UNCHANGED <<featureStore, people, features, entries, enrolments, removing, seeking, galleryTime,
                      attempted, blind, spaces, collections, raced>>
      /\ Under_way(e) /\ enrolling[e].at = "index"
  BY DEF create_index, Under_way
<1>4. SpacesSound'
  BY <1>1, <1>2, <1>3, SpacesKept
<1> QED BY <1>1, <1>2, <1>3, <1>4, EnrolMoves DEF GalleryInv, GalleryTypes

\* The three writes of an enrolment.
LEMMA AddInv ==
    ASSUME GalleryInv, NEW e \in Requests, add(e) PROVE GalleryInv'
<1>1. PICK q \in EnrolRecord : enrolling' = [enrolling EXCEPT ![e] = q] /\ q.at = "index"
  BY AtMoves DEF add, EnrolPhases, GalleryInv
<1>2. /\ features' = features \cup {e} /\ enrolling[e].at = "feature" /\ Under_way(e)
      /\ UNCHANGED <<featureStore, people, spaces, collections, entries, enrolments, removing, seeking,
                     galleryTime, attempted, blind, raced>>
  BY DEF add, Under_way
<1>3. /\ enrolling' \in [Requests -> EnrolRecord] /\ enrolling'[e] = q
      /\ \A f \in Requests : f # e => enrolling'[f] = enrolling[f]
  BY <1>1 DEF GalleryInv, GalleryTypes, EnrolRecord
<1>4. GalleryTypes'
  BY <1>2, <1>3 DEF GalleryInv, GalleryTypes, EnrolRecord, Requests, FeatureSpaces
<1>5. SpacesSound'
  BY <1>1, <1>2, <1>3 DEF GalleryInv, SpacesSound, Requests, Encodes, Contract
<1>6. RacesKnown'
  BY <1>2, <1>3, FaceFacts DEF GalleryInv, RacesKnown, Under_way, OfSubject, Requests, Subject
<1>7. RemovalsSound'
  <2>1. removing[Subject(e)].at # "idle" \/ people[Subject(e)] = "gone" => e \in raced
    BY <1>2 DEF GalleryInv, RacesKnown
  <2> QED BY <1>2, <2>1 DEF GalleryInv, RemovalsSound, Requests, Subject
<1>8. EnrolmentsSound'
  BY <1>1, <1>2, <1>3 DEF GalleryInv, EnrolmentsSound, Requests, Subject, Expired
<1>9. SearchSound'
  BY <1>2 DEF GalleryInv, SearchSound, Requests, Subject
<1> QED BY <1>4, <1>5, <1>6, <1>7, <1>8, <1>9 DEF GalleryInv

LEMMA IndexEnrollmentInv ==
    ASSUME GalleryInv, NEW e \in Requests, _index_enrollment(e) PROVE GalleryInv'
<1>1. PICK q \in EnrolRecord : enrolling' = [enrolling EXCEPT ![e] = q] /\ q.at = "enrol"
  BY AtMoves DEF _index_enrollment, EnrolPhases, GalleryInv
<1>2. /\ entries' = [entries EXCEPT ![e] = "ready"] /\ enrolling[e].at = "record" /\ Under_way(e)
      /\ UNCHANGED <<featureStore, people, spaces, collections, features, enrolments, removing, seeking,
                     galleryTime, attempted, blind, raced>>
  BY DEF _index_enrollment, Under_way
<1>3. /\ enrolling' \in [Requests -> EnrolRecord] /\ enrolling'[e] = q
      /\ \A f \in Requests : f # e => enrolling'[f] = enrolling[f]
      /\ entries' \in [Requests -> {"none", "ready", "deleted"}] /\ entries'[e] = "ready"
      /\ \A f \in Requests : f # e => entries'[f] = entries[f]
  BY <1>1, <1>2 DEF GalleryInv, GalleryTypes, EnrolRecord
<1>4. GalleryTypes'
  BY <1>2, <1>3 DEF GalleryInv, GalleryTypes, EnrolRecord, Requests, FeatureSpaces
<1>5. SpacesSound'
  BY <1>1, <1>2, SpacesKept
<1>6. RacesKnown'
  BY <1>2, <1>3, FaceFacts DEF GalleryInv, RacesKnown, Under_way, OfSubject, Requests, Subject
<1>7. RemovalsSound'
  <2>1. removing[Subject(e)].at # "idle" \/ people[Subject(e)] = "gone" => e \in raced
    BY <1>2 DEF GalleryInv, RacesKnown
  <2> QED BY <1>2, <1>3, <2>1 DEF GalleryInv, RemovalsSound, Requests, Subject
<1>8. EnrolmentsSound'
  BY <1>1, <1>2, <1>3 DEF GalleryInv, EnrolmentsSound, Requests, Subject, Expired
<1>9. SearchSound'
  BY <1>2 DEF GalleryInv, SearchSound, Requests, Subject
<1> QED BY <1>4, <1>5, <1>6, <1>7, <1>8, <1>9 DEF GalleryInv

LEMMA CreateEnrollmentInv ==
    ASSUME GalleryInv, NEW e \in Requests, create_enrollment(e) PROVE GalleryInv'
<1>1. PICK p \in {"done", "failed"} : At(e, p)
  BY DEF create_enrollment
<1>2. PICK q \in EnrolRecord : enrolling' = [enrolling EXCEPT ![e] = q] /\ q.at = p
  BY <1>1, AtMoves DEF EnrolPhases, GalleryInv
<1>3. /\ enrolling[e].at = "enrol" /\ Under_way(e)
      /\ enrolments' = enrolments \/ (enrolments' = enrolments \cup {e} /\ Storable(e))
      /\ UNCHANGED <<featureStore, people, spaces, collections, features, entries, removing, seeking,
                     galleryTime, attempted, blind, raced>>
  BY DEF create_enrollment, Under_way
<1>4. /\ enrolling' \in [Requests -> EnrolRecord] /\ enrolling'[e] = q
      /\ \A f \in Requests : f # e => enrolling'[f] = enrolling[f]
  BY <1>2 DEF GalleryInv, GalleryTypes, EnrolRecord
<1>5. GalleryTypes'
  BY <1>3, <1>4 DEF GalleryInv, GalleryTypes, EnrolRecord, Requests, FeatureSpaces
<1>6. SpacesSound'
  BY <1>1, <1>2, <1>3, SpacesKept
<1>7. RacesKnown'
  BY <1>2, <1>3, <1>4, FaceFacts DEF GalleryInv, RacesKnown, Under_way, OfSubject, Requests, Subject
<1>8. RemovalsSound' /\ SearchSound'
  BY <1>3 DEF GalleryInv, RemovalsSound, SearchSound, Requests, Subject
<1>9. EnrolmentsSound'
  <2>1. people[Subject(e)] = "gone" => e \in raced
    BY <1>3 DEF GalleryInv, RacesKnown
  <2>2. e \in enrolments' /\ e \notin enrolments /\ featureStore = "postgres" =>
            people[Subject(e)] = "exists" /\ e \in features
    BY <1>3 DEF Storable
  <2> QED BY <1>1, <1>2, <1>3, <1>4, <2>1, <2>2
          DEF GalleryInv, EnrolmentsSound, Requests, Subject, Expired
<1> QED BY <1>5, <1>6, <1>7, <1>8, <1>9 DEF GalleryInv

LEMMA CreateIdentityInv ==
    ASSUME GalleryInv, NEW i \in Subjects, create_identity(i) PROVE GalleryInv'
<1>1. /\ people[i] = "new" /\ people' = [people EXCEPT ![i] = "exists"]
      /\ UNCHANGED <<featureStore, spaces, collections, features, entries, enrolments, enrolling, removing,
                     seeking, galleryTime, attempted, raced, blind>>
  BY DEF create_identity
<1>2. /\ people' \in [Subjects -> {"new", "exists", "gone"}] /\ people'[i] = "exists"
      /\ \A j \in Subjects : j # i => people'[j] = people[j]
  BY <1>1 DEF GalleryInv, GalleryTypes
<1>3. GalleryTypes'
  BY <1>1, <1>2 DEF GalleryInv, GalleryTypes, Requests, FeatureSpaces
<1>4. SpacesSound'
  BY <1>1 DEF GalleryInv, SpacesSound, Requests, Encodes, Contract
<1>5. RacesKnown' /\ RemovalsSound'
  BY <1>1, <1>2, FaceFacts
     DEF GalleryInv, RacesKnown, RemovalsSound, Under_way, OfSubject, Requests, Subject
<1>6. EnrolmentsSound'
  BY <1>1, <1>2, FaceFacts DEF GalleryInv, GalleryTypes, EnrolmentsSound, Requests, Subject, Expired
<1>7. SearchSound'
  BY <1>1, <1>2 DEF GalleryInv, SearchSound, Requests, Subject
<1> QED BY <1>3, <1>4, <1>5, <1>6, <1>7 DEF GalleryInv

RemovalRecord == [at : RemovalPhases, found : SUBSET Requests]

\* The steps of a deletion, each a call to one store.
LEMMA StartRemovalInv ==
    ASSUME GalleryInv, NEW i \in Subjects, StartRemoval(i) PROVE GalleryInv'
<1>1. /\ people[i] = "exists" /\ removing[i] = NotRemoving /\ attempted' = attempted \cup {i}
      /\ raced' = raced \cup {e \in OfSubject(i) : Under_way(e)}
      /\ UNCHANGED <<featureStore, people, spaces, collections, features, entries, enrolments, enrolling,
                     seeking, galleryTime, blind>>
  BY DEF StartRemoval, stores
<1>2. PICK q \in RemovalRecord : removing' = [removing EXCEPT ![i] = q] /\ q.at = "features" /\ q.found = {}
  <2>1. [removing[i] EXCEPT !.at = "features"] = [at |-> "features", found |-> {}]
    BY <1>1 DEF NotRemoving
  <2>2. [at |-> "features", found |-> {}] \in RemovalRecord
    BY DEF RemovalRecord, RemovalPhases
  <2> QED BY <2>1, <2>2 DEF StartRemoval
<1>3. /\ removing' \in [Subjects -> RemovalRecord] /\ removing'[i] = q
      /\ \A j \in Subjects : j # i => removing'[j] = removing[j]
  BY <1>2 DEF GalleryInv, GalleryTypes, RemovalRecord
<1>4. GalleryTypes'
  BY <1>1, <1>3 DEF GalleryInv, GalleryTypes, Requests, FeatureSpaces, RemovalRecord
<1>5. SpacesSound' /\ SearchSound'
  BY <1>1 DEF GalleryInv, SpacesSound, SearchSound, Requests, Encodes, Contract, Subject
<1>6. RacesKnown'
  BY <1>1, <1>2, <1>3, FaceFacts DEF GalleryInv, RacesKnown, Under_way, OfSubject, Requests, Subject
<1>7. RemovalsSound'
  BY <1>1, <1>2, <1>3, FaceFacts DEF GalleryInv, RemovalsSound, Requests, Subject
<1>8. EnrolmentsSound'
  BY <1>1, FaceFacts DEF GalleryInv, EnrolmentsSound, Requests, Subject, Expired
<1> QED BY <1>4, <1>5, <1>6, <1>7, <1>8 DEF GalleryInv

\* Vectors go, in Postgres with their enrolments: those of a person whose deletion
\* has begun, or expired ones.
LEMMA VectorsGone ==
    ASSUME GalleryInv, NEW gone, Without(gone),
           \A e \in Requests : e \in gone => Subject(e) \in attempted \/ Expired(e),
           UNCHANGED <<featureStore, people, spaces, entries, enrolling, galleryTime, attempted, raced>>
    PROVE  /\ features' = features \ gone /\ enrolments' \subseteq enrolments
           /\ EnrolmentsSound'
<1>1. /\ features' = features \ gone /\ enrolments' \subseteq enrolments
      /\ featureStore = "postgres" => enrolments' = enrolments \ gone
  BY DEF Without
<1>2. EnrolmentsSound'
  BY <1>1 DEF GalleryInv, GalleryTypes, EnrolmentsSound, Requests, Subject, Expired
<1> QED BY <1>1, <1>2

LEMMA DeleteVectorsInv ==
    ASSUME GalleryInv, NEW i \in Subjects, delete_subject(i) \/ _delete_ids(i) PROVE GalleryInv'
<1>1. /\ removing[i] \in RemovalRecord /\ removing[i].at \in {"features", "points"}
      /\ UNCHANGED <<featureStore, people, spaces, collections, entries, enrolling, seeking, galleryTime,
                     attempted, raced, blind>>
      /\ removing[i].found \subseteq OfSubject(i)
  BY DEF delete_subject, _delete_ids, GalleryInv, GalleryTypes, RemovalRecord, RacesKnown
<1>2. PICK gone \in SUBSET OfSubject(i) :
          /\ Without(gone)
          /\ gone = OfSubject(i) \/ (removing[i].at = "points" /\ gone = removing[i].found)
  BY <1>1 DEF delete_subject, _delete_ids
<1>3. PICK q \in RemovalRecord : /\ removing' = [removing EXCEPT ![i] = q] /\ q.at = "index"
                                 /\ q.found \subseteq OfSubject(i)
  <2>1. CASE delete_subject(i)
    <3>1. /\ [removing[i] EXCEPT !.at = "index"] \in RemovalRecord
          /\ [removing[i] EXCEPT !.at = "index"].at = "index"
          /\ [removing[i] EXCEPT !.at = "index"].found = removing[i].found
      BY <1>1 DEF RemovalRecord, RemovalPhases
    <3> QED BY <1>1, <2>1, <3>1 DEF delete_subject
  <2>2. CASE _delete_ids(i)
    <3>1. /\ [at |-> "index", found |-> {}] \in RemovalRecord /\ [at |-> "index", found |-> {}].at = "index"
          /\ [at |-> "index", found |-> {}].found = {}
      BY DEF RemovalRecord, RemovalPhases
    <3> QED BY <2>2, <3>1 DEF _delete_ids
  <2> QED BY <2>1, <2>2
<1>4. /\ removing' \in [Subjects -> RemovalRecord] /\ removing'[i] = q
      /\ \A j \in Subjects : j # i => removing'[j] = removing[j]
  BY <1>3 DEF GalleryInv, GalleryTypes, RemovalRecord
<1>5. i \in attempted /\ people[i] = "exists"
  BY <1>1 DEF GalleryInv, RacesKnown
<1>6. features' = features \ gone /\ enrolments' \subseteq enrolments /\ EnrolmentsSound'
  BY <1>1, <1>2, <1>5, VectorsGone DEF OfSubject
<1>7. GalleryTypes'
  BY <1>1, <1>4, <1>6 DEF GalleryInv, GalleryTypes, Requests, FeatureSpaces, RemovalRecord
<1>8. SpacesSound' /\ SearchSound'
  BY <1>1, <1>6 DEF GalleryInv, SpacesSound, SearchSound, Requests, Encodes, Contract, Subject
<1>9. RacesKnown'
  BY <1>1, <1>3, <1>4, FaceFacts DEF GalleryInv, RacesKnown, Under_way, OfSubject, Requests, Subject
<1>10. RemovalsSound'
  <2>1. \A e \in Requests : Subject(e) = i /\ e \in features' => e \in raced \/ i \in blind
    BY <1>1, <1>2, <1>6 DEF GalleryInv, RemovalsSound, OfSubject
  <2> QED BY <1>1, <1>3, <1>4, <1>5, <1>6, <2>1, FaceFacts DEF GalleryInv, RemovalsSound, Requests, Subject
<1> QED BY <1>6, <1>7, <1>8, <1>9, <1>10 DEF GalleryInv

LEMMA ScrollInv ==
    ASSUME GalleryInv, NEW i \in Subjects, _scroll_ids(i) PROVE GalleryInv'
<1>1. PICK listed \in BOOLEAN :
          /\ removing' = [removing EXCEPT ![i] =
                [at |-> "points",
                 found |-> {e \in features : Subject(e) = i /\ Faces[e].space \in _all_spaces(listed)}]]
          /\ blind' = IF listed THEN blind ELSE blind \cup {i}
  BY DEF _scroll_ids
<1>2. /\ removing[i].at = "features"
      /\ UNCHANGED <<featureStore, people, spaces, collections, features, entries, enrolments, enrolling,
                     seeking, galleryTime, attempted, raced>>
  BY DEF _scroll_ids
<1>3. PICK found : found = {e \in features : Subject(e) = i /\ Faces[e].space \in _all_spaces(listed)}
  OBVIOUS
<1>4. found \subseteq OfSubject(i) /\ found \subseteq Requests
  BY <1>3 DEF OfSubject, GalleryInv, GalleryTypes
<1>5. PICK q \in RemovalRecord : removing' = [removing EXCEPT ![i] = q] /\ q.at = "points" /\ q.found = found
  <2>1. /\ [at |-> "points", found |-> found] \in RemovalRecord
        /\ [at |-> "points", found |-> found].at = "points"
        /\ [at |-> "points", found |-> found].found = found
    BY <1>4 DEF RemovalRecord, RemovalPhases
  <2> QED BY <1>1, <1>3, <2>1
<1>6. /\ removing' \in [Subjects -> RemovalRecord] /\ removing'[i] = q
      /\ \A j \in Subjects : j # i => removing'[j] = removing[j]
  BY <1>5 DEF GalleryInv, GalleryTypes, RemovalRecord
<1>7. \A e \in features : Subject(e) = i => e \in found \/ i \in blind'
  <2>1. CASE ~ listed
    BY <1>1, <2>1
  <2>2. CASE listed
    <3>1. \A e \in features : Faces[e].space \in _all_spaces(listed)
      BY <2>2, FaceFacts DEF _all_spaces, GalleryInv, GalleryTypes, SpacesSound
    <3> QED BY <1>3, <3>1
  <2> QED BY <2>1, <2>2
<1>8. blind \subseteq blind' /\ people[i] = "exists"
  BY <1>1, <1>2 DEF GalleryInv, RacesKnown
<1>9. GalleryTypes'
  BY <1>2, <1>6 DEF GalleryInv, GalleryTypes, Requests, FeatureSpaces, RemovalRecord
<1>10. SpacesSound' /\ SearchSound' /\ EnrolmentsSound'
  BY <1>2 DEF GalleryInv, SpacesSound, SearchSound, EnrolmentsSound, Requests, Encodes, Contract, Subject,
              Expired
<1>11. RacesKnown'
  BY <1>2, <1>4, <1>5, <1>6, FaceFacts DEF GalleryInv, RacesKnown, Under_way, OfSubject, Requests, Subject
<1>12. RemovalsSound'
  BY <1>2, <1>5, <1>6, <1>7, <1>8, FaceFacts DEF GalleryInv, RemovalsSound, Requests, Subject
<1> QED BY <1>9, <1>10, <1>11, <1>12 DEF GalleryInv

LEMMA DeleteSourceInv ==
    ASSUME GalleryInv, NEW i \in Subjects, delete_source(i) PROVE GalleryInv'
<1>1. /\ removing[i].at = "index" /\ removing[i] \in RemovalRecord /\ removing[i].found \subseteq OfSubject(i)
      /\ UNCHANGED <<featureStore, people, spaces, collections, features, enrolments, enrolling, seeking,
                     galleryTime, attempted, raced, blind>>
      /\ i \in attempted /\ people[i] = "exists"
  BY DEF delete_source, GalleryInv, GalleryTypes, RemovalRecord, RacesKnown
<1>2. /\ entries' \in [Requests -> {"none", "ready", "deleted"}]
      /\ \A e \in Requests : entries'[e] = IF Subject(e) = i /\ entries[e] = "ready" THEN "deleted" ELSE entries[e]
  BY DEF delete_source, OfSubject, GalleryInv, GalleryTypes
<1>3. PICK q \in RemovalRecord : /\ removing' = [removing EXCEPT ![i] = q] /\ q.at = "row"
                                 /\ q.found \subseteq OfSubject(i)
  <2>1. /\ [removing[i] EXCEPT !.at = "row"] \in RemovalRecord
        /\ [removing[i] EXCEPT !.at = "row"].at = "row"
        /\ [removing[i] EXCEPT !.at = "row"].found = removing[i].found
    BY <1>1 DEF RemovalRecord, RemovalPhases
  <2> QED BY <1>1, <2>1 DEF delete_source
<1>4. /\ removing' \in [Subjects -> RemovalRecord] /\ removing'[i] = q
      /\ \A j \in Subjects : j # i => removing'[j] = removing[j]
  BY <1>3 DEF GalleryInv, GalleryTypes, RemovalRecord
<1>5. GalleryTypes'
  BY <1>1, <1>2, <1>4 DEF GalleryInv, GalleryTypes, Requests, FeatureSpaces, RemovalRecord
<1>6. SpacesSound' /\ SearchSound'
  BY <1>1 DEF GalleryInv, SpacesSound, SearchSound, Requests, Encodes, Contract, Subject
<1>7. RacesKnown'
  BY <1>1, <1>3, <1>4, FaceFacts DEF GalleryInv, RacesKnown, Under_way, OfSubject, Requests, Subject
<1>8. RemovalsSound'
  BY <1>1, <1>2, <1>3, <1>4, FaceFacts DEF GalleryInv, RemovalsSound, Requests, Subject
<1>9. EnrolmentsSound'
  BY <1>1, <1>2 DEF GalleryInv, GalleryTypes, EnrolmentsSound, Requests, Subject, Expired
<1> QED BY <1>5, <1>6, <1>7, <1>8, <1>9 DEF GalleryInv

LEMMA DeleteIdentityInv ==
    ASSUME GalleryInv, NEW i \in Subjects, delete_identity(i) PROVE GalleryInv'
<1>1. /\ removing[i].at = "row" /\ people' = [people EXCEPT ![i] = "gone"]
      /\ enrolments' = enrolments \ OfSubject(i)
      /\ UNCHANGED <<featureStore, spaces, collections, features, entries, enrolling, seeking, galleryTime,
                     attempted, raced, blind>>
  BY DEF delete_identity
<1>2. /\ people' \in [Subjects -> {"new", "exists", "gone"}] /\ people'[i] = "gone"
      /\ \A j \in Subjects : j # i => people'[j] = people[j]
  BY <1>1 DEF GalleryInv, GalleryTypes
<1>3. NotRemoving \in RemovalRecord /\ NotRemoving.at = "idle" /\ NotRemoving.found = {}
  BY DEF NotRemoving, RemovalRecord, RemovalPhases
<1>4. /\ removing' \in [Subjects -> RemovalRecord] /\ removing'[i] = NotRemoving
      /\ \A j \in Subjects : j # i => removing'[j] = removing[j]
  BY <1>3 DEF delete_identity, GalleryInv, GalleryTypes, RemovalRecord
<1>5. GalleryTypes'
  BY <1>1, <1>2, <1>4 DEF GalleryInv, GalleryTypes, Requests, FeatureSpaces, RemovalRecord
<1>6. SpacesSound'
  BY <1>1 DEF GalleryInv, SpacesSound, Requests, Encodes, Contract
<1>7. RacesKnown'
  BY <1>1, <1>2, <1>3, <1>4, FaceFacts DEF GalleryInv, RacesKnown, Under_way, OfSubject, Requests, Subject
<1>8. RemovalsSound'
  BY <1>1, <1>2, <1>3, <1>4, FaceFacts DEF GalleryInv, RemovalsSound, Requests, Subject
<1>9. EnrolmentsSound'
  BY <1>1, <1>2, FaceFacts DEF GalleryInv, GalleryTypes, EnrolmentsSound, Requests, Subject, Expired, OfSubject
<1>10. SearchSound'
  BY <1>1, <1>2 DEF GalleryInv, SearchSound, Requests, Subject
<1> QED BY <1>5, <1>6, <1>7, <1>8, <1>9, <1>10 DEF GalleryInv

\* A search changes nothing but itself.
LEMMA SearchOnly ==
    ASSUME GalleryInv, SearchSound',
           UNCHANGED <<featureStore, people, spaces, collections, features, entries, enrolments, enrolling,
                       removing, galleryTime, attempted, raced, blind>>
    PROVE  GalleryInv'
<1>1. GalleryTypes' /\ SpacesSound'
  BY DEF GalleryInv, GalleryTypes, SpacesSound, Requests, FeatureSpaces, Encodes, Contract
<1>2. RacesKnown' /\ RemovalsSound' /\ EnrolmentsSound'
  BY DEF GalleryInv, RacesKnown, RemovalsSound, EnrolmentsSound, Under_way, OfSubject, Requests, Subject,
         Expired
<1> QED BY <1>1, <1>2 DEF GalleryInv

LEMMA SearchInv ==
    ASSUME GalleryInv, NEW s \in FeatureSpaces, search(s) \/ search_image(s) PROVE GalleryInv'
<1>1. UNCHANGED <<featureStore, people, spaces, collections, features, entries, enrolments, enrolling,
                  removing, galleryTime, attempted, raced, blind>>
  BY DEF search, search_image
<1>2. PICK found \in SUBSET Requests, mode \in {"vector", "image"} :
          /\ seeking' = [at |-> "resolve", mode |-> mode, result |-> {}, started |-> galleryTime,
                         found |-> found, gone |-> {i \in Subjects : people[i] = "gone"}]
          /\ mode = "vector" => \A e \in found : ~ Expired(e)
  <2>1. CASE search(s)
    <3>1. Searchable(s) \in SUBSET Requests /\ \A e \in Searchable(s) : ~ Expired(e)
      BY DEF Searchable, GalleryInv, GalleryTypes
    <3> QED BY <2>1, <3>1 DEF search
  <2>2. CASE search_image(s)
    <3>1. {e \in Requests : Faces[e].space = s /\ entries[e] = "ready"} \in SUBSET Requests
      OBVIOUS
    <3> QED BY <2>2, <3>1 DEF search_image
  <2> QED BY <2>1, <2>2
<1>3. ASSUME NEW e \in found, mode = "vector"
      PROVE  Faces[e].expires_at = 0 \/ Faces[e].expires_at > galleryTime
  <2>1. e \in Requests /\ ~ Expired(e)
    BY <1>2, <1>3
  <2>2. galleryTime \in Nat
    BY DEF GalleryInv, GalleryTypes
  <2>3. Faces[e].expires_at \in Nat
    BY <2>1, FaceFacts
  <2> QED BY <2>1, <2>2, <2>3 DEF Expired
<1>4. SearchSound'
  BY <1>1, <1>2, <1>3 DEF SearchSound, Requests, GalleryInv, GalleryTypes
<1> QED BY <1>1, <1>4, SearchOnly

LEMMA ResolveInv ==
    ASSUME GalleryInv, NEW e \in Requests, _resolve_match(e) PROVE GalleryInv'
<1>1. UNCHANGED <<featureStore, people, spaces, collections, features, entries, enrolments, enrolling,
                  removing, galleryTime, attempted, raced, blind>>
  BY DEF _resolve_match, stores
<1>2. /\ e \in seeking.found
      /\ seeking' = [seeking EXCEPT !.found = @ \ {e},
                                    !.result = IF e \in enrolments /\ people[Subject(e)] = "exists"
                                               THEN @ \cup {e} ELSE @]
  BY DEF _resolve_match
<1>3. /\ seeking'.gone = seeking.gone /\ seeking'.mode = seeking.mode /\ seeking'.started = seeking.started
      /\ seeking'.found = seeking.found \ {e}
      /\ seeking'.result \subseteq seeking.result \cup {e}
      /\ e \in seeking'.result => e \in seeking.result \/ people[Subject(e)] = "exists"
  BY <1>2 DEF GalleryInv, SearchSound
<1>4. seeking' \in [at : {"idle", "resolve"}, mode : {"none", "vector", "image"}, found : SUBSET Requests,
                    result : SUBSET Requests, gone : SUBSET Subjects, started : Nat]
  BY <1>2 DEF GalleryInv, SearchSound
<1>5. SearchSound'
  BY <1>1, <1>2, <1>3, <1>4, FaceFacts DEF GalleryInv, SearchSound, Requests, Subject
<1> QED BY <1>1, <1>5, SearchOnly

LEMMA NoSearchSound == ASSUME seeking' = NoSearch PROVE SearchSound'
BY DEF NoSearch, SearchSound

LEMMA AnsweredInv == ASSUME GalleryInv, SearchAnswered PROVE GalleryInv'
BY NoSearchSound, SearchOnly DEF SearchAnswered, stores

LEMMA SweepInv ==
    ASSUME GalleryInv, _run_governance PROVE GalleryInv'
<1>1. UNCHANGED <<featureStore, people, spaces, collections, enrolling, removing, seeking, galleryTime,
                  attempted, raced, blind>>
  BY DEF _run_governance
<1>2. CASE UNCHANGED entries /\ \E listed \in BOOLEAN : Without(ExpiredSeen(listed))
  <2>1. PICK gone : Without(gone) /\ \A e \in Requests : e \in gone => Expired(e)
    BY <1>2 DEF ExpiredSeen
  <2>2. features' \subseteq features /\ enrolments' \subseteq enrolments /\ EnrolmentsSound'
    BY <1>1, <1>2, <2>1, VectorsGone
  <2>3. GalleryTypes' /\ SpacesSound'
    BY <1>1, <1>2, <2>2 DEF GalleryInv, GalleryTypes, SpacesSound, Requests, FeatureSpaces, Encodes, Contract
  <2>4. RacesKnown' /\ RemovalsSound' /\ SearchSound'
    BY <1>1, <1>2, <2>2 DEF GalleryInv, RacesKnown, RemovalsSound, SearchSound, Under_way, OfSubject,
                            Requests, Subject
  <2> QED BY <2>2, <2>3, <2>4 DEF GalleryInv
<1>3. CASE /\ UNCHANGED <<features, enrolments>>
           /\ entries' = [e \in Requests |-> IF Expired(e) /\ entries[e] = "ready" THEN "deleted" ELSE entries[e]]
  <2>1. /\ entries' \in [Requests -> {"none", "ready", "deleted"}]
        /\ \A e \in Requests : /\ entries'[e] = "ready" => entries[e] = "ready"
                               /\ entries[e] = "ready" => entries'[e] = "ready" \/ Expired(e)
    BY <1>3 DEF GalleryInv, GalleryTypes
  <2>2. GalleryTypes' /\ SpacesSound'
    BY <1>1, <1>3, <2>1 DEF GalleryInv, GalleryTypes, SpacesSound, Requests, FeatureSpaces, Encodes, Contract
  <2>3. RacesKnown' /\ RemovalsSound' /\ SearchSound'
    BY <1>1, <1>3, <2>1 DEF GalleryInv, RacesKnown, RemovalsSound, SearchSound, Under_way, OfSubject,
                            Requests, Subject
  <2>4. EnrolmentsSound'
    BY <1>1, <1>3, <2>1 DEF GalleryInv, GalleryTypes, EnrolmentsSound, Requests, Subject, Expired
  <2> QED BY <2>2, <2>3, <2>4 DEF GalleryInv
<1> QED BY <1>2, <1>3 DEF _run_governance

\* What has expired stays so.
LEMMA TickInv == ASSUME GalleryInv, GalleryTick PROVE GalleryInv'
<1>1. /\ galleryTime \in Nat /\ galleryTime' = galleryTime + 1
      /\ UNCHANGED <<featureStore, people, spaces, collections, features, entries, enrolments, enrolling,
                     removing, seeking, attempted, raced, blind>>
  BY DEF GalleryTick, stores, GalleryInv, GalleryTypes
<1>2. \A e \in Requests : Expired(e) => Expired(e)'
  BY <1>1, FaceFacts DEF Expired
<1>3. GalleryTypes' /\ SpacesSound'
  BY <1>1 DEF GalleryInv, GalleryTypes, SpacesSound, Requests, FeatureSpaces, Encodes, Contract
<1>4. RacesKnown' /\ RemovalsSound' /\ SearchSound'
  BY <1>1 DEF GalleryInv, RacesKnown, RemovalsSound, SearchSound, Under_way, OfSubject, Requests, Subject
<1>5. EnrolmentsSound'
  BY <1>1, <1>2 DEF GalleryInv, EnrolmentsSound, Requests, Subject
<1> QED BY <1>3, <1>4, <1>5 DEF GalleryInv

LEMMA RestartInv == ASSUME GalleryInv, Restart PROVE GalleryInv'
<1>1. UNCHANGED <<featureStore, people, spaces, collections, features, entries, enrolments, galleryTime,
                  attempted, raced, blind>>
  BY DEF Restart
<1>2. NotRemoving \in RemovalRecord /\ NotRemoving.at = "idle" /\ NotRemoving.found = {}
  BY DEF NotRemoving, RemovalRecord, RemovalPhases
<1>3. removing' \in [Subjects -> RemovalRecord] /\ \A i \in Subjects : removing'[i] = NotRemoving
  BY <1>2 DEF Restart
<1>4. EnrolStep("failed", "none") \in EnrolRecord /\ EnrolStep("failed", "none").at = "failed"
  BY DEF EnrolStep, EnrolRecord, EnrolPhases
<1>5. /\ enrolling' \in [Requests -> EnrolRecord]
      /\ \A e \in Requests : enrolling'[e].at \in {"idle", "done", "failed"}
  <2>1. enrolling' = [e \in Requests |-> IF Under_way(e) THEN EnrolStep("failed", "none") ELSE enrolling[e]]
    BY DEF Restart
  <2> QED BY <1>4, <2>1 DEF Under_way, GalleryInv, GalleryTypes, EnrolRecord
<1>6. GalleryTypes'
  BY <1>1, <1>3, <1>5 DEF GalleryInv, GalleryTypes, Requests, FeatureSpaces, EnrolRecord, RemovalRecord
<1>7. SpacesSound'
  BY <1>1, <1>5 DEF GalleryInv, SpacesSound, Requests, Encodes, Contract
<1>8. RacesKnown' /\ RemovalsSound'
  BY <1>1, <1>2, <1>3, <1>5, FaceFacts
     DEF GalleryInv, RacesKnown, RemovalsSound, Under_way, OfSubject, Requests, Subject
<1>9. EnrolmentsSound'
  BY <1>1, <1>5 DEF GalleryInv, EnrolmentsSound, Requests, Subject, Expired
<1>10. SearchSound'
  BY NoSearchSound DEF Restart
<1> QED BY <1>6, <1>7, <1>8, <1>9, <1>10 DEF GalleryInv

LEMMA GalleryInitOK == GalleryInit => GalleryInv
<1> SUFFICES ASSUME GalleryInit PROVE GalleryInv
  OBVIOUS
<1>1. NotRemoving \in RemovalRecord /\ NotRemoving.at = "idle" /\ NotRemoving.found = {}
  BY DEF NotRemoving, RemovalRecord, RemovalPhases
<1>2. NotEnrolling \in EnrolRecord /\ NotEnrolling.at = "idle"
  BY DEF NotEnrolling, EnrolStep, EnrolRecord, EnrolPhases
<1>3. GalleryTypes
  BY <1>1, <1>2 DEF GalleryInit, GalleryTypes, EnrolRecord, RemovalRecord
<1>4. SpacesSound /\ EnrolmentsSound
  BY <1>2 DEF GalleryInit, SpacesSound, EnrolmentsSound
<1>5. RacesKnown /\ RemovalsSound
  BY <1>1, <1>2, FaceFacts DEF GalleryInit, RacesKnown, RemovalsSound, Under_way
<1>6. SearchSound
  BY DEF GalleryInit, SearchSound, NoSearch
<1> QED BY <1>3, <1>4, <1>5, <1>6 DEF GalleryInv

LEMMA GalleryStep == GalleryInv /\ [GalleryNext]_galleryVars => GalleryInv'
<1> SUFFICES ASSUME GalleryInv, [GalleryNext]_galleryVars PROVE GalleryInv'
  OBVIOUS
<1>1. CASE UNCHANGED galleryVars
  <2>1. SearchSound'
    BY <1>1 DEF galleryVars, GalleryInv, SearchSound, Requests, Subject
  <2> QED BY <1>1, <2>1, SearchOnly DEF galleryVars
<1>2. ASSUME NEW i \in Subjects,
             \/ create_identity(i) \/ StartRemoval(i) \/ delete_subject(i) \/ _scroll_ids(i)
             \/ _delete_ids(i) \/ delete_source(i) \/ delete_identity(i)
      PROVE  GalleryInv'
  BY <1>2, CreateIdentityInv, StartRemovalInv, DeleteVectorsInv, ScrollInv, DeleteSourceInv,
     DeleteIdentityInv
<1>3. ASSUME NEW e \in Requests,
             \/ StartEnrolment(e) \/ enroll_image(e) \/ EnrolAgain(e) \/ _ensure_space(e)
             \/ WriteContract(e) \/ add(e) \/ create_index(e) \/ _index_enrollment(e)
             \/ create_enrollment(e) \/ _resolve_match(e)
      PROVE  GalleryInv'
  BY <1>3, StartEnrolmentInv, EncodeInv, EnsureSpaceInv, WriteContractInv, AddInv, CreateIndexInv,
     IndexEnrollmentInv, CreateEnrollmentInv, ResolveInv
<1>4. ASSUME NEW s \in FeatureSpaces, search(s) \/ search_image(s) PROVE GalleryInv'
  BY <1>4, SearchInv
<1>5. CASE SearchAnswered \/ _run_governance \/ GalleryTick \/ Restart
  BY <1>5, AnsweredInv, SweepInv, TickInv, RestartInv
<1> QED BY <1>1, <1>2, <1>3, <1>4, <1>5 DEF GalleryNext

\* However enrolments, deletions, searches, sweeps and restarts interleave, over any
\* of the three feature stores: the vector of a deleted person is left only by an
\* enrolment beside the deletion or a blind listing, an enrolment has its vector and
\* its record, a space has one model, and a search does not name who was gone.
THEOREM GalleryIsSound == GallerySpec => []GallerySound
<1>1. GalleryInv => GallerySound
  BY FaceFacts DEF GalleryInv, GalleryTypes, SpacesSound, RemovalsSound, EnrolmentsSound, SearchSound,
                   GallerySound
<1> QED BY GalleryInitOK, GalleryStep, <1>1, PTL DEF GallerySpec
=============================================================================
