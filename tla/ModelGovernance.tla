--------------------------- MODULE ModelGovernance ---------------------------
(***************************************************************************)
(* Feedback, hard-sample manifests and model releases (FeedbackService     *)
(* over its two repositories).  A handler is split where it reads first    *)
(* and writes later; transition_release of the repository is one step:     *)
(* the memory one does not await, the Postgres one locks every release of  *)
(* the capability.                                                         *)
(***************************************************************************)
EXTENDS Integers, Sequences, FiniteSets, FiniteSetsExt

CONSTANTS
    Curators,        \* API callers
    Feedbacks,       \* id -> [authorized, deidentified, sensitive, domain, kind_domains]
    DatasetVersions, \* dataset versions a manifest may be exported as
    Packages,        \* id -> [model, version, capability, legacy, ready, evidence]
    RequiredEvidence,\* model_rights, regression and the evaluation of the capability
    ReleaseStarts,   \* the releases a store is opened with
    FeedbackStores   \* the repositories to check

VARIABLES
    feedbackStore,   \* "memory" or "postgres"
    feedback,        \* id -> "none" or its FeedbackStatus
    manifests,       \* exported manifests: [version, items]
    packages,        \* the packages registered in the catalogue
    releases,        \* package id -> "none" or its ModelReleaseStatus
    deployments,     \* release -> what its newest deployment event says
    greq             \* the request each caller has in flight

\* At most one release of a capability is active when a store is opened (the
\* unique index of the releases), and it got there through its qualification.
ASSUME GovernanceAssumption ==
    /\ IsFiniteSet(DOMAIN Packages)
    /\ \A p \in DOMAIN Packages : Packages[p].version \in Int
    /\ \A s \in ReleaseStarts :
           /\ s \in [DOMAIN Packages ->
                      {"none", "candidate", "validated", "approved", "active", "retired"}]
           /\ \A p \in DOMAIN Packages : s[p] = "active" =>
                  Packages[p].ready /\ RequiredEvidence \subseteq Packages[p].evidence
           /\ \A p, q \in DOMAIN Packages :
                  s[p] = "active" /\ s[q] = "active" /\ p # q =>
                  Packages[p].capability # Packages[q].capability

governanceVars == <<feedbackStore, feedback, manifests, packages, releases, deployments, greq>>

NoTask == [at |-> "idle"]
Advance(c, r) == greq' = [greq EXCEPT ![c] = r]
------------------------------------------------------------------------------
(* Feedback *)

contains_sensitive_correction(f) == Feedbacks[f].sensitive

\* The run is completed and the result it names has the run's pipeline and media
\* and lists the model: external state, so the request carries the answer.
FEEDBACK_KIND_DOMAINS(f) == Feedbacks[f].kind_domains

create(f, traced) ==
    /\ feedback[f] = "none"
    /\ traced
    /\ Feedbacks[f].domain \in FEEDBACK_KIND_DOMAINS(f)
    /\ feedback' = [feedback EXCEPT ![f] = "pending"]
    /\ UNCHANGED <<feedbackStore, manifests, packages, releases, deployments, greq>>

Trainable(f) == Feedbacks[f].authorized /\ Feedbacks[f].deidentified

review(c, f, status) ==
    /\ greq[c] = NoTask /\ feedback[f] = "pending"
    /\ status = "approved" => Trainable(f) /\ ~ contains_sensitive_correction(f)
    /\ Advance(c, [at |-> "review", id |-> f, status |-> status])
    /\ UNCHANGED <<feedbackStore, feedback, manifests, packages, releases, deployments>>

\* Mutant.
StillPending_NoCheck(f) == TRUE

\* save_feedback(updated, expected_status = PENDING).
StillPending(f) == feedback[f] = "pending"

save_feedback(c) ==
    LET r == greq[c] IN
    /\ r.at = "review"
    /\ feedback' = IF StillPending(r.id) THEN [feedback EXCEPT ![r.id] = r.status] ELSE feedback
    /\ Advance(c, NoTask)
    /\ UNCHANGED <<feedbackStore, manifests, packages, releases, deployments>>

\* The records are read one after the other; the request keeps the ones read.
create_manifest(c, version, items) ==
    /\ greq[c] = NoTask
    /\ Advance(c, [at |-> "export", version |-> version, left |-> items, items |-> items])
    /\ UNCHANGED <<feedbackStore, feedback, manifests, packages, releases, deployments>>

ReadItem(c, f) ==
    LET r == greq[c] IN
    /\ r.at = "export" /\ f \in r.left
    /\ Advance(c, IF feedback[f] = "approved" /\ Trainable(f)
                  THEN [r EXCEPT !.left = @ \ {f}] ELSE NoTask)
    /\ UNCHANGED <<feedbackStore, feedback, manifests, packages, releases, deployments>>

OneDomain(items) == Cardinality({Feedbacks[f].domain : f \in items}) <= 1

\* The unique key (dataset, version) decides between two exports.
VersionFree(version) == \A m \in manifests : m.version # version

SaveManifest(c) ==
    LET r == greq[c] IN
    /\ r.at = "export" /\ r.left = {}
    /\ manifests' = IF OneDomain(r.items) /\ VersionFree(r.version)
                    THEN manifests \cup {[version |-> r.version, items |-> r.items]}
                    ELSE manifests
    /\ Advance(c, NoTask)
    /\ UNCHANGED <<feedbackStore, feedback, packages, releases, deployments>>
------------------------------------------------------------------------------
(* Releases *)

admit_package(p) ==
    /\ ~ Packages[p].legacy
    /\ packages' = packages \cup {p}
    /\ UNCHANGED <<feedbackStore, feedback, manifests, releases, deployments, greq>>

create_release(p) ==
    /\ p \in packages /\ ~ Packages[p].legacy
    /\ releases[p] = "none"
    /\ releases' = [releases EXCEPT ![p] = "candidate"]
    /\ UNCHANGED <<feedbackStore, feedback, manifests, packages, deployments, greq>>

allowed ==
    [candidate |-> {"validated"}, validated |-> {"approved", "candidate"},
     approved |-> {"active", "candidate"}, active |-> {"retired"}, retired |-> {}]

validate_release_transition(current, target, rollback) ==
    IF rollback THEN current = "retired" /\ target = "active"
    ELSE target \in allowed[current]

\* Every reference resolves to evidence of its own type for this very package.
validate_qualification_evidence(p) == RequiredEvidence \subseteq Packages[p].evidence

Qualified(p, target) ==
    /\ target \in {"validated", "approved", "active"} =>
           p \in packages /\ validate_qualification_evidence(p)
    /\ target = "active" => Packages[p].ready

\* transition_release and rollback of the service: read, check, audit.
transition_release(c, p, target, rollback) ==
    /\ greq[c] = NoTask /\ releases[p] # "none"
    /\ validate_release_transition(releases[p], target, rollback)
    /\ Qualified(p, target)
    /\ Advance(c, [at |-> "transition", id |-> p, to |-> target, rollback |-> rollback])
    /\ UNCHANGED <<feedbackStore, feedback, manifests, packages, releases, deployments>>

\* auto_rollback picks the newest retired release of the model, then rolls back
\* to it as above: the choice is as old as the list it was made from.
Retired(m) == {p \in DOMAIN Packages : Packages[p].model = m /\ releases[p] = "retired"}
Newest(S) == CHOOSE p \in S : \A q \in S : Packages[q].version <= Packages[p].version

auto_rollback(c, current) ==
    LET candidates == Retired(Packages[current].model) \ {current} IN
    /\ greq[c] = NoTask /\ releases[current] = "active"
    /\ candidates # {}
    /\ Advance(c, [at |-> "rollback", id |-> Newest(candidates)])
    /\ UNCHANGED <<feedbackStore, feedback, manifests, packages, releases, deployments>>

Rollback(c) ==
    LET p == greq[c].id IN
    /\ greq[c].at = "rollback"
    /\ Advance(c, IF releases[p] = "retired" /\ Qualified(p, "active")
                  THEN [at |-> "transition", id |-> p, to |-> "active", rollback |-> TRUE]
                  ELSE NoTask)
    /\ UNCHANGED <<feedbackStore, feedback, manifests, packages, releases, deployments>>
------------------------------------------------------------------------------
(* The repository's transition *)

Rivals(p) ==
    {q \in DOMAIN Packages \ {p} :
        releases[q] = "active" /\ Packages[q].capability = Packages[p].capability}

\* The UPDATE of the superseded release names the model of the new one, so it
\* misses a release of another model.
Superseded(p) ==
    IF feedbackStore = "memory" THEN Rivals(p)
    ELSE {q \in Rivals(p) : Packages[q].model = Packages[p].model}

\* The unique index on active releases of a capability.
UniqueActive(p) == feedbackStore = "memory" \/ Rivals(p) \subseteq Superseded(p)

\* Mutant.
Revalidated_Trusts(r) == TRUE

\* Validated again under the lock.
Revalidated(r) == validate_release_transition(releases[r.id], r.to, r.rollback)

Transition(c) ==
    LET r == greq[c]
        retired == IF r.to = "active" THEN Superseded(r.id) ELSE {} IN
    /\ r.at = "transition"
    /\ IF Revalidated(r) /\ (r.to = "active" => UniqueActive(r.id))
       THEN /\ releases' = [p \in DOMAIN Packages |->
                   IF p = r.id THEN r.to ELSE IF p \in retired THEN "retired" ELSE releases[p]]
            /\ Advance(c, [at |-> "events", todo |->
                   <<[release |-> r.id, to |-> r.to]>> \o
                   (IF retired = {} THEN << >>
                    ELSE <<[release |-> CHOOSE q \in retired : TRUE, to |-> "retired"]>>)])
       ELSE UNCHANGED releases /\ Advance(c, NoTask)
    /\ UNCHANGED <<feedbackStore, feedback, manifests, packages, deployments>>

\* _record_deployment_event: each event in a transaction of its own, after the
\* transition has committed.
record_deployment_event(c) ==
    LET todo == greq[c].todo IN
    /\ greq[c].at = "events"
    /\ deployments' = [deployments EXCEPT ![Head(todo).release] = Head(todo).to]
    /\ Advance(c, IF Len(todo) = 1 THEN NoTask ELSE [greq[c] EXCEPT !.todo = Tail(todo)])
    /\ UNCHANGED <<feedbackStore, feedback, manifests, packages, releases>>

\* active_runtime_bindings: an active release without its package, or a second
\* one of its capability, is an error.
active_runtime_bindings ==
    [cap \in {Packages[p].capability : p \in {q \in DOMAIN Packages : releases[q] = "active"}} |->
        {p \in DOMAIN Packages : releases[p] = "active" /\ Packages[p].capability = cap}]
------------------------------------------------------------------------------
GovernanceInit ==
    /\ feedbackStore \in FeedbackStores
    /\ feedback = [f \in DOMAIN Feedbacks |-> "none"]
    /\ manifests = {}
    /\ releases \in ReleaseStarts
    /\ packages = {p \in DOMAIN Packages : Packages[p].legacy \/ releases[p] # "none"}
    /\ deployments = releases
    /\ greq = [c \in Curators |-> NoTask]

FeedbackNext ==
    \/ \E f \in DOMAIN Feedbacks, traced \in BOOLEAN : create(f, traced)
    \/ \E c \in Curators :
        \/ \E f \in DOMAIN Feedbacks, s \in {"approved", "rejected"} : review(c, f, s)
        \/ save_feedback(c)
        \/ \E v \in DatasetVersions, items \in (SUBSET DOMAIN Feedbacks) \ {{}} :
               create_manifest(c, v, items)
        \/ \E f \in DOMAIN Feedbacks : ReadItem(c, f)
        \/ SaveManifest(c)

ReleaseNext ==
    \/ \E p \in DOMAIN Packages : admit_package(p) \/ create_release(p)
    \/ \E c \in Curators :
        \/ \E p \in DOMAIN Packages, t \in DOMAIN allowed : transition_release(c, p, t, FALSE)
        \/ \E p \in DOMAIN Packages : transition_release(c, p, "active", TRUE)
        \/ \E p \in DOMAIN Packages : auto_rollback(c, p)
        \/ Rollback(c)
        \/ Transition(c)
        \/ record_deployment_event(c)

GovernanceNext == FeedbackNext \/ ReleaseNext
GovernanceSpec == GovernanceInit /\ [][GovernanceNext]_governanceVars
------------------------------------------------------------------------------
(* Types *)

FeedbackRecord == {"none", "pending", "approved", "rejected"}
HardSampleManifest == [version : DatasetVersions, items : SUBSET DOMAIN Feedbacks]
ModelReleaseStatus == DOMAIN allowed \cup {"none"}
ModelDeploymentEvent == ModelReleaseStatus

\* Every record keeps its type.
GovernanceTypeOK ==
    /\ feedback \in [DOMAIN Feedbacks -> FeedbackRecord]
    /\ manifests \subseteq HardSampleManifest
    /\ packages \subseteq DOMAIN Packages
    /\ releases \in [DOMAIN Packages -> ModelReleaseStatus]
    /\ deployments \in [DOMAIN Packages -> ModelDeploymentEvent]
------------------------------------------------------------------------------
(* Properties *)

\* What was exported for training stays approved by its review, authorised and
\* deidentified, and belongs to one domain and one dataset version: a decision
\* made from an old read never turns over the one a manifest was built on.
ManifestItemsApproved ==
    /\ GovernanceTypeOK
    /\ \A m \in manifests : OneDomain(m.items) /\
           \A f \in m.items : feedback[f] = "approved" /\ Trainable(f)
    /\ \A m, n \in manifests : m.version = n.version => m = n

\* However the requests of operators and of the health gate overlap, a release
\* goes through its life cycle: only an approved or a rolled-back release
\* becomes active, its package is production-ready and its evidence complete,
\* and the runtime finds no other active release of its capability.
ReleaseLifecycle ==
    [][\A p \in DOMAIN Packages : releases[p] # releases'[p] =>
          /\ \/ releases[p] = "none" /\ releases'[p] = "candidate"
             \/ releases[p] # "none" /\ releases'[p] \in allowed[releases[p]]
             \/ releases[p] = "retired" /\ releases'[p] = "active"
          /\ releases'[p] = "active" =>
                /\ Packages[p].ready /\ RequiredEvidence \subseteq Packages[p].evidence
                /\ Cardinality(active_runtime_bindings'[Packages[p].capability]) = 1]_releases
==============================================================================
