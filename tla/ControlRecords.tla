--------------------------- MODULE ControlRecords ---------------------------
(***************************************************************************)
(* The governed records of the control plane.  A handler checks the        *)
(* caller's scopes and products, puts one document and then appends an     *)
(* audit event; audit is fail-closed, so a failing append turns a write    *)
(* that is already stored into an error.  Audit events are purged when     *)
(* they are older than the retention policy.                               *)
(***************************************************************************)
EXTENDS Integers, Sequences, FiniteSets, FiniteSetsExt, Functions

CONSTANTS
    Admins,          \* API callers
    GrantChoices,    \* caller -> [scopes, products]: the PrincipalContexts to check
    Retentions,      \* retention_days values a policy may set
    DefaultRetention,\* the policy when none is stored
    MaxPuts,         \* bound on the documents put
    RecordClock      \* bound of the clock, in days

ASSUME RecordAssumption == Retentions \subseteq Nat /\ DefaultRetention \in Nat

VARIABLES
    grants,          \* the PrincipalContext of every caller
    rclock,          \* time.time(), in days
    puts,            \* every put, in order: [kind, id, status, at]
    trail,           \* audit events: the put each is about and when it was made
    retention,       \* the audit_retention document
    shortest,        \* history: the shortest retention a purge ever used
    failed,          \* history: puts whose audit event was not stored
    lifecycles,      \* history: lifecycle requests that were applied
    creq             \* the request each caller has in flight

recordVars == <<grants, rclock, puts, trail, retention, shortest, failed, lifecycles, creq>>

Resting == [at |-> "idle"]
------------------------------------------------------------------------------
(* Policy *)

RESOURCE_PRODUCTS ==
    [iam |-> "console", operations |-> "console", audit_event |-> "console",
     search_index |-> "parse"]

\* require_allowed: a scope for the action, and the product of the resource
\* when the resource belongs to one.
Allowed(c, action, resource) ==
    /\ {<<"*">>, <<resource, "*">>, <<resource, action>>} \cap grants[c].scopes # {}
    /\ resource \in DOMAIN RESOURCE_PRODUCTS =>
           {"*", RESOURCE_PRODUCTS[resource]} \cap grants[c].products # {}
------------------------------------------------------------------------------
(* Writing a record: _check, _save, then _record *)

NewId == Len(puts) + 1
Status(i) == puts[Max({j \in DOMAIN puts : puts[j].id = i})].status
Records(kind) == {puts[j].id : j \in {k \in DOMAIN puts : puts[k].kind = kind}}

\* ControlPlaneStore.put replaces the document with this id, whatever it is now.
Save(kind, id, status) ==
    /\ Len(puts) < MaxPuts
    /\ puts' = Append(puts, [kind |-> kind, id |-> id, status |-> status, at |-> rclock])

Enter(c, resource) == creq[c] = Resting /\ Allowed(c, "write", resource)
Goto(c, r) == creq' = [creq EXCEPT ![c] = r]
ThenAudit(c) == Goto(c, [at |-> "audit", todo |-> <<NewId>>])

Create(c, resource, kind, status) ==
    /\ Enter(c, resource)
    /\ Save(kind, NewId, status)
    /\ ThenAudit(c)
    /\ UNCHANGED <<grants, rclock, trail, retention, shortest, failed, lifecycles>>

\* AuditLogger.record: the event is stored, or AuditUnavailable is raised and
\* the handler ends there.
AppendAudit(c) ==
    LET todo == creq[c].todo IN
    /\ creq[c].at = "audit"
    /\ trail' = trail \cup {[put |-> Head(todo), created_at |-> rclock]}
    /\ Goto(c, IF Len(todo) = 1 THEN Resting ELSE [creq[c] EXCEPT !.todo = Tail(todo)])
    /\ UNCHANGED <<grants, rclock, puts, retention, shortest, failed, lifecycles>>

AuditUnavailable(c) ==
    /\ creq[c].at = "audit"
    /\ failed' = failed \cup Range(creq[c].todo)
    /\ Goto(c, Resting)
    /\ UNCHANGED <<grants, rclock, puts, trail, retention, shortest, lifecycles>>
------------------------------------------------------------------------------
(* Handlers that put a new document *)

create_identity_provider(c) == Create(c, "iam", "identity_provider", "unknown")
create_quota_plan(c) == Create(c, "enterprise", "quota_plan", "enabled")
create_annotation_task(c) == Create(c, "data", "annotation_task", "queued")
register_annotation_provider(c) == Create(c, "data", "annotation_provider", "unknown")
create_search_profile(c, weights) == weights > 0 /\ Create(c, "search_index", "search_profile", "")
register_index_backend(c) == Create(c, "search_index", "index_backend", "unknown")
register_search_reranker(c) == Create(c, "search_index", "search_reranker", "unknown")
submit_search_feedback(c) == Create(c, "search_index", "search_feedback", "")
evaluate_search(c) == Create(c, "search_index", "search_evaluation", "")
rebuild_index(c) == Create(c, "search_index", "index_rebuild", "completed")
record_model_metric(c) == Create(c, "model", "model_metric", "")
create_cluster(c) == Create(c, "portrait", "portrait_cluster", "")
create_association(c) == Create(c, "portrait", "portrait_association", "")
create_event(c) == Create(c, "portrait", "portrait_event", "")
record_agent_trace(c) == Create(c, "agent", "agent_trace", "")
record_agent_evaluation(c) == Create(c, "agent", "agent_evaluation", "")
put_agent_memory(c) == Create(c, "agent", "agent_memory", "")
request_project_lifecycle(c) == Create(c, "iam", "project_lifecycle_request", "pending")

\* Handlers that get a document and put it back with another status.
Probe(c, resource, kind, i) ==
    /\ i \in Records(kind)
    /\ Enter(c, resource)
    /\ Save(kind, i, "configured")
    /\ ThenAudit(c)
    /\ UNCHANGED <<grants, rclock, trail, retention, shortest, failed, lifecycles>>

probe_identity_provider(c, i) == Probe(c, "iam", "identity_provider", i)
probe_annotation_provider(c, i) == Probe(c, "data", "annotation_provider", i)
probe_index_backend(c, i) == Probe(c, "search_index", "index_backend", i)
probe_search_reranker(c, i) == Probe(c, "search_index", "search_reranker", i)
------------------------------------------------------------------------------
(* Decisions: get the document, then put its new status *)

Decide(c, resource, kind, i, undecided, approved) ==
    /\ i \in Records(kind) /\ Status(i) \in undecided
    /\ Enter(c, resource)
    /\ Goto(c, [at |-> "decide", kind |-> kind, id |-> i,
                status |-> IF approved THEN "approved" ELSE "rejected"])
    /\ UNCHANGED <<grants, rclock, puts, trail, retention, shortest, failed, lifecycles>>

decide_project_lifecycle(c, i, approved) ==
    Decide(c, "iam", "project_lifecycle_request", i, {"pending"}, approved)

review_annotation_task(c, i, approved) ==
    Decide(c, "data", "annotation_task", i, {"queued", "in_review"}, approved)

Applies(r) == r.kind = "project_lifecycle_request" /\ r.status = "approved"

SaveDecision(c) ==
    LET r == creq[c] IN
    /\ r.at = "decide"
    /\ Save(r.kind, r.id, r.status)
    /\ IF Applies(r) THEN Goto(c, [at |-> "lifecycle", id |-> r.id, put |-> NewId])
       ELSE ThenAudit(c)
    /\ UNCHANGED <<grants, rclock, trail, retention, shortest, failed, lifecycles>>

\* lifecycle(): the project's status is put and audited, then the decision is.
lifecycle(c) ==
    LET r == creq[c] IN
    /\ r.at = "lifecycle"
    /\ Save("lifecycle", 0, "disabled")
    /\ lifecycles' = lifecycles \cup {r.id}
    /\ Goto(c, [at |-> "audit", todo |-> <<NewId, r.put>>])
    /\ UNCHANGED <<grants, rclock, trail, retention, shortest, failed>>
------------------------------------------------------------------------------
(* Audit retention *)

set_audit_retention_policy(c, days) ==
    /\ Enter(c, "audit_event")
    /\ Save("audit_retention", 0, "")
    /\ retention' = days
    /\ ThenAudit(c)
    /\ UNCHANGED <<grants, rclock, trail, shortest, failed, lifecycles>>

\* Mutant.
Purged_NotStrict(cutoff) == {e \in trail : e.created_at <= cutoff + 1}

\* delete_audit_events_before: strictly older than the cutoff.
Purged(cutoff) == {e \in trail : e.created_at < cutoff}

purge_audit_events(c, dry_run) ==
    /\ creq[c] = Resting /\ Allowed(c, "write", "audit_event")
    /\ IF dry_run THEN UNCHANGED <<trail, shortest>>
       ELSE /\ trail' = trail \ Purged(rclock - retention)
            /\ shortest' = IF retention < shortest THEN retention ELSE shortest
    /\ UNCHANGED <<grants, rclock, puts, retention, failed, lifecycles, creq>>

RecordTick ==
    /\ rclock < RecordClock
    /\ rclock' = rclock + 1
    /\ UNCHANGED <<grants, puts, trail, retention, shortest, failed, lifecycles, creq>>
------------------------------------------------------------------------------
RecordInit ==
    /\ grants \in GrantChoices
    /\ rclock = 0 /\ puts = << >> /\ trail = {}
    /\ retention = DefaultRetention /\ shortest = DefaultRetention
    /\ failed = {} /\ lifecycles = {}
    /\ creq = [c \in Admins |-> Resting]

RecordNext ==
    \/ RecordTick
    \/ \E c \in Admins :
        \/ create_identity_provider(c)
        \/ create_quota_plan(c)
        \/ create_annotation_task(c)
        \/ register_annotation_provider(c)
        \/ \E w \in 0..1 : create_search_profile(c, w)
        \/ register_index_backend(c)
        \/ register_search_reranker(c)
        \/ submit_search_feedback(c)
        \/ evaluate_search(c)
        \/ rebuild_index(c)
        \/ record_model_metric(c)
        \/ create_cluster(c)
        \/ create_association(c)
        \/ create_event(c)
        \/ record_agent_trace(c)
        \/ record_agent_evaluation(c)
        \/ put_agent_memory(c)
        \/ request_project_lifecycle(c)
        \/ SaveDecision(c)
        \/ lifecycle(c)
        \/ AppendAudit(c)
        \/ AuditUnavailable(c)
        \/ \E d \in Retentions : set_audit_retention_policy(c, d)
        \/ \E dry \in BOOLEAN : purge_audit_events(c, dry)
        \/ \E i \in DOMAIN puts :
            \/ probe_identity_provider(c, i)
            \/ probe_annotation_provider(c, i)
            \/ probe_index_backend(c, i)
            \/ probe_search_reranker(c, i)
            \/ \E ok \in BOOLEAN : decide_project_lifecycle(c, i, ok)
            \/ \E ok \in BOOLEAN : review_annotation_task(c, i, ok)

RecordSpec == RecordInit /\ [][RecordNext]_recordVars
------------------------------------------------------------------------------
(* Types *)

AuditRetentionPolicy == Retentions \cup {DefaultRetention}
RecordKind ==
    {"identity_provider", "quota_plan", "annotation_task", "annotation_provider", "search_profile",
     "index_backend", "search_reranker", "search_feedback", "search_evaluation", "index_rebuild",
     "model_metric", "portrait_cluster", "portrait_association", "portrait_event", "agent_trace",
     "agent_evaluation", "agent_memory", "project_lifecycle_request", "lifecycle", "audit_retention"}
RecordStatus ==
    {"", "unknown", "configured", "enabled", "queued", "pending", "approved", "rejected",
     "completed", "disabled"}
ControlRecord == [kind : RecordKind, id : 0..Len(puts), status : RecordStatus, at : 0..rclock]
AuditEvent == [put : DOMAIN puts, created_at : 0..rclock]

\* Every record keeps its type.
RecordTypeOK ==
    /\ retention \in AuditRetentionPolicy
    /\ \A i \in DOMAIN puts : puts[i] \in ControlRecord
    /\ trail \subseteq AuditEvent
------------------------------------------------------------------------------
(* Properties *)

AuditPending(i) ==
    \E c \in Admins :
        \/ creq[c].at = "audit" /\ i \in Range(creq[c].todo)
        \/ creq[c].at = "lifecycle" /\ creq[c].put = i

\* Every put within the shortest retention a purge has used is in the audit
\* trail, except those whose handler has still to append their event and those
\* whose append failed: a purge never removes an event that is younger.  And a
\* lifecycle request that is approved is applied to its project, unless the
\* handler that approved it has still to do so.
GovernedWrites ==
    /\ RecordTypeOK
    /\ \A i \in DOMAIN puts :
          \/ \E e \in trail : e.put = i
          \/ i \in failed \/ AuditPending(i)
          \/ rclock - puts[i].at > shortest
    /\ \A i \in Records("project_lifecycle_request") : Status(i) = "approved" =>
          i \in lifecycles \/ \E c \in Admins : creq[c].at = "lifecycle" /\ creq[c].id = i
==============================================================================
