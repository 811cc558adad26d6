------------------------------- MODULE Billing -------------------------------
(***************************************************************************)
(* Billing of the control plane: metered usage, seats and quota.           *)
(* Every handler of ControlPlaneService runs as a coroutine over a store   *)
(* without revisions, so it is split where it awaits the store: what was   *)
(* read is kept in the request until the write that uses it.               *)
(***************************************************************************)
EXTENDS Integers, Sequences, FiniteSets

CONSTANTS
    Callers,         \* API callers with a request in flight
    Keys,            \* idempotency keys of meter events
    Amounts,         \* metered or requested amounts
    Users,           \* users a seat may be assigned to
    SeatLimit,       \* seat_limit of the billing account
    QuotaLimit,      \* the limit of the quota plan for the metric
    QuotaWindow,     \* window_seconds of the plan
    AccountPeriod,   \* period_seconds the account was created with
    DefaultPeriod,   \* DEFAULT_BILLING_PERIOD_SECONDS
    QuotaStarts,     \* the stores to check and the quota row they start with
    BillingClock     \* bound of the clock

VARIABLES
    bclock,          \* time.time()
    account,         \* the billing_account record
    meters,          \* meter_event records by idempotency key
    usage,           \* the billing_usage record of the account and metric
    seats,           \* seat_assignment records: the user of each
    quotaBackend,    \* the store behind adjust_quota_usage
    quotaRow,        \* the quota_usage record of the metric
    quotaLock,       \* the caller whose transaction holds the row's lock
    granted,         \* history: what the checks allowed in the open window
    breq,            \* the request each caller has in flight
    again,           \* history: amounts of events saved over under their key
    billed,          \* history: usage left behind when its period was over
    calm             \* history: no metering requests overlapped or died halfway

meterHistory == <<again, billed, calm>>
billingVars == <<bclock, account, meters, usage, seats, quotaBackend, quotaRow,
                 quotaLock, granted, breq, meterHistory>>

NoRow == [none |-> TRUE]

ASSUME BillingAssumption ==
    /\ IsFiniteSet(Callers) /\ Callers # {}
    /\ {SeatLimit, QuotaLimit, QuotaWindow, AccountPeriod, DefaultPeriod,
        BillingClock} \subseteq Nat
    /\ Amounts \subseteq Nat \ {0}
    /\ \A q \in QuotaStarts : /\ q.backend \in {"memory", "postgres"}
                             /\ q.row \in [started : Nat, used : Nat] \cup {NoRow}

Idle == [at |-> "idle"]
Now == bclock

Start(c, r) == breq' = [breq EXCEPT ![c] = r]
Finish(c) == breq' = [breq EXCEPT ![c] = Idle]
OnlyRequests == <<bclock, account, meters, usage, seats, quotaBackend, quotaRow,
                  quotaLock, granted, again, billed>>
------------------------------------------------------------------------------
(* Accounts *)

create_billing_account ==
    /\ account = NoRow
    /\ account' = [started |-> Now, ends |-> Now + AccountPeriod]
    /\ UNCHANGED <<bclock, meters, usage, seats, quotaBackend, quotaRow,
                   quotaLock, granted, breq, meterHistory>>
------------------------------------------------------------------------------
(* Metering: get account, get event, put event, get usage, put usage *)

\* Mutant.
MeterEventIsNew_Always(k) == TRUE

\* A key that is stored is returned (or refused, when the event differs): the
\* handler stops there.
MeterEventIsNew(k) == meters[k] = NoRow

\* The metering requests between their get of the event and their last write.
Metering == {c \in Callers : breq[c].at \in {"meter", "usage", "put_usage"}}

\* Nothing is locked: requests with one key that overlap all find it new.
record_meter_event(c, k, amount) ==
    /\ breq[c] = Idle
    /\ account # NoRow
    /\ MeterEventIsNew(k)
    /\ calm' = (calm /\ Metering = {})
    /\ Start(c, [at |-> "meter", key |-> k, amount |-> amount])
    /\ UNCHANGED OnlyRequests

Counted(row) == IF row = NoRow THEN 0 ELSE row.amount

\* The put is an upsert by the key: a second event with it replaces the first.
SaveMeterEvent(c) ==
    /\ breq[c].at = "meter"
    /\ meters' = [meters EXCEPT ![breq[c].key] =
                      [amount |-> breq[c].amount, created_at |-> Now]]
    /\ again' = again + Counted(meters[breq[c].key])
    /\ Start(c, [at |-> "usage", amount |-> breq[c].amount, now |-> Now])
    /\ UNCHANGED <<bclock, account, usage, seats, quotaBackend, quotaRow,
                   quotaLock, granted, billed, calm>>

ReadUsage(c) ==
    /\ breq[c].at = "usage"
    /\ Start(c, [at |-> "put_usage", amount |-> breq[c].amount,
                 now |-> breq[c].now, read |-> usage])
    /\ UNCHANGED <<OnlyRequests, calm>>

\* The account's period while it lasts, afterwards one that starts at the event.
UsagePeriod(now) ==
    IF now < account.ends THEN [started |-> account.started, ends |-> account.ends]
    ELSE [started |-> now, ends |-> now + DefaultPeriod]

\* What the row counted before, unless its period is over.
CarriedUsage(row, now) == IF row # NoRow /\ row.ends > now THEN row.amount ELSE 0

SaveUsage(c) ==
    LET r == breq[c] IN
    /\ r.at = "put_usage"
    /\ usage' = [amount |-> CarriedUsage(r.read, r.now) + r.amount,
                 started |-> UsagePeriod(r.now).started,
                 ends |-> UsagePeriod(r.now).ends]
    /\ billed' = billed + (Counted(r.read) - CarriedUsage(r.read, r.now))
    /\ Finish(c)
    /\ UNCHANGED <<bclock, account, meters, seats, quotaBackend, quotaRow,
                   quotaLock, granted, again, calm>>
------------------------------------------------------------------------------
(* Seats: list the seats, then put a new one *)

SeatsFull(rows) == Len(rows) >= SeatLimit

assign_billing_seat(c, u) ==
    /\ breq[c] = Idle
    /\ account # NoRow
    /\ \A i \in DOMAIN seats : seats[i] # u
    /\ ~ SeatsFull(seats)
    /\ Start(c, [at |-> "seat", user |-> u])
    /\ UNCHANGED <<OnlyRequests, calm>>

SaveSeat(c) ==
    /\ breq[c].at = "seat"
    /\ seats' = Append(seats, breq[c].user)
    /\ Finish(c)
    /\ UNCHANGED <<bclock, account, meters, usage, quotaBackend, quotaRow,
                   quotaLock, granted, meterHistory>>
------------------------------------------------------------------------------
(* Quota: adjust_quota_usage of the two stores *)

InWindow(row) == row # NoRow /\ Now < row.started + QuotaWindow

WindowOf(row) == IF InWindow(row) THEN row ELSE [started |-> Now, used |-> 0]

\* Mutant.
Allows_BeforeAdding(row, amount) == WindowOf(row).used <= QuotaLimit

Allows(row, amount) == WindowOf(row).used + amount <= QuotaLimit

Adjusted(row, amount) == [WindowOf(row) EXCEPT !.used = @ + amount]

\* History: the sum of what was allowed since the window was opened.
Grant(amount) ==
    granted' = [WindowOf(granted) EXCEPT !.used = @ + amount]

\* The memory store reads and writes under one asyncio lock.
MemoryAdjustQuota(c, amount) ==
    /\ quotaBackend = "memory" /\ breq[c] = Idle
    /\ Allows(quotaRow, amount)
    /\ quotaRow' = Adjusted(quotaRow, amount)
    /\ Grant(amount)
    /\ UNCHANGED <<bclock, account, meters, usage, seats, quotaBackend,
                   quotaLock, breq, meterHistory>>

\* SELECT ... FOR UPDATE: it waits for the lock of the row, and locks nothing
\* when there is no row yet.
SelectQuota(c, amount) ==
    /\ quotaBackend = "postgres" /\ breq[c] = Idle
    /\ quotaLock = {}
    /\ quotaLock' = IF quotaRow = NoRow THEN {} ELSE {c}
    /\ Start(c, [at |-> "quota", amount |-> amount, read |-> quotaRow])
    /\ UNCHANGED <<bclock, account, meters, usage, seats, quotaBackend,
                   quotaRow, granted, meterHistory>>

\* INSERT ... ON CONFLICT DO UPDATE: it waits for a lock on an existing row and
\* then replaces the document by the one computed from the read.
WriteQuota(c) ==
    LET r == breq[c] IN
    /\ r.at = "quota"
    /\ quotaLock \subseteq {c}
    /\ IF Allows(r.read, r.amount)
       THEN quotaRow' = Adjusted(r.read, r.amount) /\ Grant(r.amount)
       ELSE UNCHANGED <<quotaRow, granted>>
    /\ quotaLock' = {}
    /\ Finish(c)
    /\ UNCHANGED <<bclock, account, meters, usage, seats, quotaBackend,
                   meterHistory>>
------------------------------------------------------------------------------
(* The process dies, or the request is cancelled, between two store calls; a
   transaction that was open is rolled back. *)
AbortRequest(c) ==
    /\ breq[c] # Idle
    /\ quotaLock' = quotaLock \ {c}
    /\ calm' = (calm /\ breq[c].at \notin {"usage", "put_usage"})
    /\ Finish(c)
    /\ UNCHANGED <<bclock, account, meters, usage, seats, quotaBackend,
                   quotaRow, granted, again, billed>>

BillingTick ==
    /\ bclock < BillingClock
    /\ bclock' = bclock + 1
    /\ UNCHANGED <<account, meters, usage, seats, quotaBackend, quotaRow,
                   quotaLock, granted, breq, meterHistory>>

BillingInit ==
    /\ bclock = 0
    /\ account = NoRow
    /\ meters = [k \in Keys |-> NoRow]
    /\ usage = NoRow
    /\ seats = << >>
    /\ \E q \in QuotaStarts :
        /\ quotaBackend = q.backend
        /\ quotaRow = q.row
        /\ granted = q.row
    /\ quotaLock = {}
    /\ breq = [c \in Callers |-> Idle]
    /\ again = 0 /\ billed = 0 /\ calm = TRUE

BillingNext ==
    \/ create_billing_account
    \/ BillingTick
    \/ \E c \in Callers :
        \/ \E k \in Keys, a \in Amounts : record_meter_event(c, k, a)
        \/ SaveMeterEvent(c)
        \/ ReadUsage(c)
        \/ SaveUsage(c)
        \/ \E u \in Users : assign_billing_seat(c, u)
        \/ SaveSeat(c)
        \/ \E a \in Amounts : MemoryAdjustQuota(c, a)
        \/ \E a \in Amounts : SelectQuota(c, a)
        \/ WriteQuota(c)
        \/ AbortRequest(c)

BillingSpec == BillingInit /\ [][BillingNext]_billingVars
------------------------------------------------------------------------------
(* Types *)

BillingAccount == [started : Nat, ends : Nat]
MeterEvent == [amount : Amounts, created_at : Nat]
BillingUsage == [amount : Nat, started : Nat, ends : Nat]
SeatAssignment == Users
QuotaUsage == [started : Nat, used : Nat]

\* Every record keeps its type.
BillingTypeOK ==
    /\ account \in BillingAccount \cup {NoRow}
    /\ meters \in [Keys -> MeterEvent \cup {NoRow}]
    /\ usage \in BillingUsage \cup {NoRow}
    /\ seats \in Seq(SeatAssignment)
    /\ {quotaRow, granted} \subseteq QuotaUsage \cup {NoRow}
    /\ quotaLock \subseteq Callers
    /\ {again, billed} \subseteq Nat /\ calm \in BOOLEAN
------------------------------------------------------------------------------
(* Properties *)

\* The units of every meter event stored, one element for each.
MeteredUnits ==
    UNION {{k} \X (1..meters[k].amount) : k \in {x \in Keys : meters[x] # NoRow}}
Metered == Cardinality(MeteredUnits)

\* A request that overlaps another may lose that one's amount from the usage, and
\* one that dies after its event is saved is never counted.  But the usage never
\* exceeds what the stored events add up to, except by the events that were saved
\* over under one key by requests that overlapped; and while metering requests
\* neither overlapped nor died halfway, repeats of a key included, the usage and
\* what earlier periods counted are exactly the stored events.  The seat limit is
\* checked on a list read before the write, so callers that overlap may exceed it,
\* but by no more than one seat for each other caller.
UsageAccounted ==
    /\ BillingTypeOK
    /\ Counted(usage) <= Metered + again
    /\ calm /\ Metering = {} => Counted(usage) + billed = Metered /\ again = 0
    /\ Len(seats) <= SeatLimit + Cardinality(Callers) - 1

\* "concurrent requests can never overshoot the configured limit": within one
\* window the amounts that were allowed add up to at most the limit.
QuotaNeverOvershoots == granted # NoRow => granted.used <= QuotaLimit
==============================================================================
