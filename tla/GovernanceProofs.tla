-------------------------- MODULE GovernanceProofs --------------------------
(***************************************************************************)
(* Feedback, manifests and model releases, for any number of callers,      *)
(* corrections, dataset versions, packages and capabilities, and both      *)
(* repositories; and the catalogues of pipelines, datasets and saved       *)
(* searches, for any number of processes, releases, editors and entries.   *)
(***************************************************************************)
EXTENDS ModelGovernance, Catalogue, FiniteSetTheorems, SequenceTheorems, WellFoundedInduction, TLAPS

-----------------------------------------------------------------------------
(* The inductive invariant.  A request acts on what it read: a review on a   *)
(* correction that was pending, an export on items that were approved, a     *)
(* transition on a package that was qualified.  What the request carries     *)
(* has to stay true until it writes.                                         *)

DeploymentEvent == [release : DOMAIN Packages, to : ModelDeploymentEvent]

GovernanceRequest ==
    {NoTask}
    \cup [at : {"review"}, id : DOMAIN Feedbacks, status : {"approved", "rejected"}]
    \cup [at : {"export"}, version : DatasetVersions, left : SUBSET DOMAIN Feedbacks,
          items : SUBSET DOMAIN Feedbacks]
    \cup [at : {"transition"}, id : DOMAIN Packages, to : DOMAIN allowed, rollback : BOOLEAN]
    \cup [at : {"rollback"}, id : DOMAIN Packages]
    \cup [at : {"events"}, todo : Seq(DeploymentEvent)]

\* May be exported for training, for good: a decision is final.
Exportable(f) == feedback[f] = "approved" /\ Trainable(f)

\* Fit for production: neither the package nor its evidence changes.
Fit(p) == Packages[p].ready /\ RequiredEvidence \subseteq Packages[p].evidence

RequestSound(r) ==
    /\ r.at = "review" => (r.status = "approved" => Trainable(r.id))
    /\ r.at = "export" => \A f \in r.items \ r.left : Exportable(f)
    /\ r.at = "transition" => releases[r.id] # "none" /\ (r.to = "active" => Fit(r.id))
    /\ r.at = "events" => r.todo # << >>

RequestsSound ==
    /\ greq \in [Curators -> GovernanceRequest]
    /\ \A c \in Curators : RequestSound(greq[c])

ManifestsSound ==
    /\ \A m \in manifests : OneDomain(m.items) /\ \A f \in m.items : Exportable(f)
    /\ \A m, n \in manifests : m.version = n.version => m = n

ActiveFit == \A p \in DOMAIN Packages : releases[p] = "active" => Fit(p)

OneActive ==
    \A p, q \in DOMAIN Packages :
        releases[p] = "active" /\ releases[q] = "active" /\ p # q =>
        Packages[p].capability # Packages[q].capability

GovernanceInv ==
    /\ GovernanceTypeOK
    /\ RequestsSound
    /\ ManifestsSound
    /\ ActiveFit
    /\ OneActive

-----------------------------------------------------------------------------
(* The operators.                                                            *)

\* The states of a release and the successors of each.
LEMMA AllowedFacts ==
    /\ DOMAIN allowed = {"candidate", "validated", "approved", "active", "retired"}
    /\ allowed["candidate"] = {"validated"}
    /\ allowed["validated"] = {"approved", "candidate"}
    /\ allowed["approved"] = {"active", "candidate"}
    /\ allowed["active"] = {"retired"}
    /\ allowed["retired"] = {}
BY DEF allowed

\* A validated transition of a known release leads to a known status.
LEMMA ValidTarget ==
    ASSUME NEW current \in DOMAIN allowed, NEW target, NEW rollback \in BOOLEAN,
           validate_release_transition(current, target, rollback)
    PROVE  /\ target \in DOMAIN allowed
           /\ rollback => current = "retired" /\ target = "active"
           /\ ~ rollback => target \in allowed[current]
BY AllowedFacts DEF validate_release_transition

\* The rollback candidates of a model are finitely many: one of them is newest.
LEMMA NewestIn ==
    ASSUME NEW S \in SUBSET DOMAIN Packages, S # {}
    PROVE  Newest(S) \in S
<1> DEFINE Above(p) == {q \in S : Packages[q].version > Packages[p].version}
           T == {Above(p) : p \in S}
<1>1. IsFiniteSet(S)
  BY GovernanceAssumption, FS_Subset
<1>2. \A p \in S : Above(p) \in SUBSET S
  OBVIOUS
<1>3. FiniteSubsetsOf(S) = SUBSET S
  BY <1>1, FS_FiniteSubsetsOfFinite
<1>4. T \subseteq FiniteSubsetsOf(S) /\ T # {}
  <2>1. T \subseteq SUBSET S
    BY <1>2
  <2>2. PICK p : p \in S
    OBVIOUS
  <2>3. Above(p) \in T
    BY <2>2
  <2> QED BY <1>3, <2>1, <2>3
<1>5. IsWellFoundedOn(StrictSubsetOrdering(S), FiniteSubsetsOf(S))
  BY FS_StrictSubsetOrderingWellFounded
<1>6. \E U \in T : \A V \in T : ~ (<<V, U>> \in StrictSubsetOrdering(S))
  <2> HIDE DEF T
  <2> QED BY <1>4, <1>5, WFMin
<1>7. PICK p \in S : \A q \in S : ~ (<<Above(q), Above(p)>> \in StrictSubsetOrdering(S))
  BY <1>6
<1>8. \A q \in S : Packages[q].version \in Int
  BY GovernanceAssumption
<1>9. ASSUME NEW q \in S, ~ (Packages[q].version <= Packages[p].version)
      PROVE  FALSE
  <2>1. Packages[q].version > Packages[p].version
    BY <1>8, <1>9
  <2>2. q \in Above(p) /\ q \notin Above(q)
    BY <1>8, <2>1
  <2>3. Above(q) \subseteq Above(p)
    BY <1>8, <2>1
  <2>4. <<Above(q), Above(p)>> \in StrictSubsetOrdering(S)
    <3> HIDE DEF Above
    <3> QED BY <1>2, <2>2, <2>3 DEF StrictSubsetOrdering
  <2> QED BY <1>7, <2>4
<1> QED BY <1>9 DEF Newest

-----------------------------------------------------------------------------
(* Preservation.                                                             *)

\* What a request carries stays true while others write: approvals are final
\* and a release is never deleted.
LEMMA RequestsKept ==
    ASSUME RequestsSound, GovernanceTypeOK, greq' = greq,
           \A f \in DOMAIN Feedbacks : Exportable(f) => Exportable(f)',
           \A p \in DOMAIN Packages : releases[p] # "none" => releases'[p] # "none"
    PROVE  RequestsSound'
<1> SUFFICES ASSUME NEW c \in Curators PROVE RequestSound(greq[c])'
  BY DEF RequestsSound
<1> PICK r : r = greq[c]
  OBVIOUS
<1>1. r \in GovernanceRequest /\ RequestSound(r)
  BY DEF RequestsSound
<1>2. RequestSound(r)'
  BY <1>1 DEF RequestSound, GovernanceRequest, NoTask
<1> QED BY <1>2 DEF RequestSound

\* The same when the step also advances the request of one caller.
LEMMA RequestsAdvanced ==
    ASSUME RequestsSound, GovernanceTypeOK,
           NEW c \in Curators, NEW r \in GovernanceRequest, Advance(c, r), RequestSound(r)',
           \A f \in DOMAIN Feedbacks : Exportable(f) => Exportable(f)',
           \A p \in DOMAIN Packages : releases[p] # "none" => releases'[p] # "none"
    PROVE  RequestsSound'
<1>1. greq' = [greq EXCEPT ![c] = r] /\ greq \in [Curators -> GovernanceRequest]
  BY DEF Advance, RequestsSound
<1>2. greq' \in [Curators -> GovernanceRequest]
  BY <1>1
<1>3. ASSUME NEW d \in Curators PROVE RequestSound(greq[d])'
  <2>1. CASE d = c
    BY <1>1, <2>1 DEF RequestSound
  <2>2. CASE d # c
    <3> PICK s : s = greq[d]
      OBVIOUS
    <3>1. s \in GovernanceRequest /\ RequestSound(s) /\ greq'[d] = s
      BY <1>1, <2>2 DEF RequestsSound
    <3>2. RequestSound(s)'
      BY <3>1 DEF RequestSound, GovernanceRequest, NoTask
    <3> QED BY <3>1, <3>2 DEF RequestSound
  <2> QED BY <2>1, <2>2
<1> QED BY <1>2, <1>3 DEF RequestsSound

\* A step that only advances a request preserves the invariant if the new
\* request carries what it says.
LEMMA OnlyAdvances ==
    ASSUME GovernanceInv, NEW c \in Curators, NEW r \in GovernanceRequest,
           Advance(c, r), RequestSound(r),
           UNCHANGED <<feedbackStore, feedback, manifests, packages, releases, deployments>>
    PROVE  GovernanceInv'
<1>1. RequestSound(r)'
  BY DEF RequestSound, Exportable
<1>2. RequestsSound'
  BY <1>1, RequestsAdvanced DEF GovernanceInv, Exportable
<1> QED BY <1>2 DEF GovernanceInv, GovernanceTypeOK, ManifestsSound, Exportable, OneDomain,
                    ActiveFit, OneActive

\* The initial states.
LEMMA GovernanceInitOK == GovernanceInit => GovernanceInv
<1> SUFFICES ASSUME GovernanceInit PROVE GovernanceInv
  OBVIOUS
<1>1. GovernanceTypeOK
  BY GovernanceAssumption, AllowedFacts
     DEF GovernanceInit, GovernanceTypeOK, FeedbackRecord, ModelReleaseStatus, ModelDeploymentEvent
<1>2. RequestsSound
  BY DEF GovernanceInit, RequestsSound, GovernanceRequest, RequestSound, NoTask
<1>3. ManifestsSound
  BY DEF GovernanceInit, ManifestsSound
<1>4. ActiveFit /\ OneActive
  BY GovernanceAssumption DEF GovernanceInit, ActiveFit, OneActive, Fit
<1> QED BY <1>1, <1>2, <1>3, <1>4 DEF GovernanceInv

\* Feedback, its review and the export of manifests.
LEMMA FeedbackStep ==
    ASSUME GovernanceInv, FeedbackNext
    PROVE  GovernanceInv'
<1> USE DEF GovernanceInv
<1>1. ASSUME NEW f \in DOMAIN Feedbacks, NEW traced \in BOOLEAN, create(f, traced)
      PROVE  GovernanceInv'
  <2>1. \A g \in DOMAIN Feedbacks : Exportable(g) => Exportable(g)'
    BY <1>1 DEF create, Exportable, GovernanceTypeOK
  <2>2. GovernanceTypeOK'
    BY <1>1 DEF create, GovernanceTypeOK, FeedbackRecord
  <2>3. RequestsSound'
    BY <1>1, <2>1, RequestsKept DEF create
  <2>4. ManifestsSound'
    BY <1>1, <2>1 DEF create, ManifestsSound, OneDomain, GovernanceTypeOK, HardSampleManifest
  <2> QED BY <1>1, <2>2, <2>3, <2>4 DEF create, ActiveFit, OneActive
<1>2. ASSUME NEW c \in Curators, NEW f \in DOMAIN Feedbacks, NEW s \in {"approved", "rejected"},
             review(c, f, s)
      PROVE  GovernanceInv'
  <2> PICK r : r = [at |-> "review", id |-> f, status |-> s]
    OBVIOUS
  <2>1. r \in GovernanceRequest /\ RequestSound(r)
    BY <1>2 DEF review, GovernanceRequest, RequestSound
  <2> QED BY <1>2, <2>1, OnlyAdvances DEF review
<1>3. ASSUME NEW c \in Curators, save_feedback(c)
      PROVE  GovernanceInv'
  <2> PICK r : r = greq[c]
    OBVIOUS
  <2>1. r.at = "review" /\ r \in GovernanceRequest /\ RequestSound(r)
    BY <1>3 DEF save_feedback, RequestsSound
  <2>2. r.id \in DOMAIN Feedbacks /\ r.status \in {"approved", "rejected"}
    BY <2>1 DEF GovernanceRequest, NoTask
  <2>3. feedback' = IF feedback[r.id] = "pending" THEN [feedback EXCEPT ![r.id] = r.status] ELSE feedback
    BY <1>3 DEF save_feedback, StillPending
  <2>4. \A g \in DOMAIN Feedbacks : Exportable(g) => Exportable(g)'
    BY <2>2, <2>3 DEF Exportable, GovernanceTypeOK
  <2>5. GovernanceTypeOK'
    BY <1>3, <2>2, <2>3 DEF save_feedback, GovernanceTypeOK, FeedbackRecord
  <2>6. RequestsSound'
    <3>1. NoTask \in GovernanceRequest /\ RequestSound(NoTask)'
      BY DEF GovernanceRequest, RequestSound, NoTask
    <3> QED BY <1>3, <2>4, <3>1, RequestsAdvanced DEF save_feedback
  <2>7. ManifestsSound'
    BY <1>3, <2>4 DEF save_feedback, ManifestsSound, OneDomain, GovernanceTypeOK, HardSampleManifest
  <2> QED BY <1>3, <2>5, <2>6, <2>7 DEF save_feedback, ActiveFit, OneActive
<1>4. ASSUME NEW c \in Curators, NEW v \in DatasetVersions,
             NEW items \in (SUBSET DOMAIN Feedbacks) \ {{}}, create_manifest(c, v, items)
      PROVE  GovernanceInv'
  <2> PICK r : r = [at |-> "export", version |-> v, left |-> items, items |-> items]
    OBVIOUS
  <2>1. r \in GovernanceRequest /\ RequestSound(r)
    BY DEF GovernanceRequest, RequestSound
  <2> QED BY <1>4, <2>1, OnlyAdvances DEF create_manifest
<1>5. ASSUME NEW c \in Curators, NEW f \in DOMAIN Feedbacks, ReadItem(c, f)
      PROVE  GovernanceInv'
  <2> PICK r : r = greq[c]
    OBVIOUS
  <2>1. r.at = "export" /\ f \in r.left /\ r \in GovernanceRequest /\ RequestSound(r)
    BY <1>5 DEF ReadItem, RequestsSound
  <2>2. CASE feedback[f] = "approved" /\ Trainable(f)
    <3> PICK s : s = [r EXCEPT !.left = @ \ {f}]
      OBVIOUS
    <3>1. r \in [at : {"export"}, version : DatasetVersions, left : SUBSET DOMAIN Feedbacks,
                 items : SUBSET DOMAIN Feedbacks]
      BY <2>1 DEF GovernanceRequest, NoTask
    <3>2. s \in GovernanceRequest
      BY <3>1 DEF GovernanceRequest
    <3>3. RequestSound(s)
      BY <2>1, <2>2, <3>1 DEF RequestSound, Exportable
    <3>4. Advance(c, s)
      BY <1>5, <2>2 DEF ReadItem
    <3> QED BY <1>5, <3>2, <3>3, <3>4, OnlyAdvances DEF ReadItem
  <2>3. CASE ~ (feedback[f] = "approved" /\ Trainable(f))
    <3>1. NoTask \in GovernanceRequest /\ RequestSound(NoTask)
      BY DEF GovernanceRequest, RequestSound, NoTask
    <3>2. Advance(c, NoTask)
      BY <1>5, <2>3 DEF ReadItem
    <3> QED BY <1>5, <3>1, <3>2, OnlyAdvances DEF ReadItem
  <2> QED BY <2>2, <2>3
<1>6. ASSUME NEW c \in Curators, SaveManifest(c)
      PROVE  GovernanceInv'
  <2> PICK r : r = greq[c]
    OBVIOUS
  <2>1. r.at = "export" /\ r.left = {} /\ r \in GovernanceRequest /\ RequestSound(r)
    BY <1>6 DEF SaveManifest, RequestsSound
  <2>2. r.version \in DatasetVersions /\ r.items \in SUBSET DOMAIN Feedbacks
    BY <2>1 DEF GovernanceRequest, NoTask
  <2>3. \A f \in r.items : Exportable(f)
    BY <2>1 DEF RequestSound
  <2> PICK m : m = [version |-> r.version, items |-> r.items]
    OBVIOUS
  <2>4. manifests' = IF OneDomain(m.items) /\ VersionFree(m.version)
                     THEN manifests \cup {m} ELSE manifests
    BY <1>6 DEF SaveManifest
  <2>5. m \in HardSampleManifest /\ \A f \in m.items : Exportable(f)
    BY <2>2, <2>3 DEF HardSampleManifest
  <2>6. GovernanceTypeOK'
    BY <1>6, <2>4, <2>5 DEF SaveManifest, GovernanceTypeOK
  <2>7. ManifestsSound'
    BY <1>6, <2>4, <2>5 DEF SaveManifest, ManifestsSound, VersionFree, OneDomain, Exportable
  <2>8. RequestsSound'
    <3>1. NoTask \in GovernanceRequest /\ RequestSound(NoTask)'
      BY DEF GovernanceRequest, RequestSound, NoTask
    <3> QED BY <1>6, <3>1, RequestsAdvanced DEF SaveManifest, Exportable
  <2> QED BY <1>6, <2>6, <2>7, <2>8 DEF SaveManifest, ActiveFit, OneActive
<1> QED BY <1>1, <1>2, <1>3, <1>4, <1>5, <1>6 DEF FeedbackNext

\* Packages, releases, transitions, rollbacks and deployment events.
LEMMA ReleaseStep ==
    ASSUME GovernanceInv, ReleaseNext
    PROVE  GovernanceInv'
<1> USE DEF GovernanceInv
<1>1. ASSUME NEW p \in DOMAIN Packages, admit_package(p)
      PROVE  GovernanceInv'
  <2>1. RequestsSound'
    BY <1>1, RequestsKept DEF admit_package, Exportable
  <2> QED BY <1>1, <2>1 DEF admit_package, GovernanceTypeOK, ManifestsSound, Exportable, OneDomain,
                            ActiveFit, OneActive
<1>2. ASSUME NEW p \in DOMAIN Packages, create_release(p)
      PROVE  GovernanceInv'
  <2>1. RequestsSound'
    BY <1>2, RequestsKept DEF create_release, Exportable, GovernanceTypeOK
  <2>2. GovernanceTypeOK'
    BY <1>2, AllowedFacts DEF create_release, GovernanceTypeOK, ModelReleaseStatus
  <2>3. \A q \in DOMAIN Packages : releases'[q] = "active" => releases[q] = "active"
    BY <1>2 DEF create_release, GovernanceTypeOK
  <2> QED BY <1>2, <2>1, <2>2, <2>3 DEF create_release, ManifestsSound, Exportable, OneDomain,
                                       ActiveFit, OneActive
<1>3. ASSUME NEW c \in Curators, NEW p \in DOMAIN Packages, NEW target, NEW rollback \in BOOLEAN,
             transition_release(c, p, target, rollback)
      PROVE  GovernanceInv'
  <2> PICK r : r = [at |-> "transition", id |-> p, to |-> target, rollback |-> rollback]
    OBVIOUS
  <2>1. releases[p] \in DOMAIN allowed
    BY <1>3 DEF transition_release, GovernanceTypeOK, ModelReleaseStatus
  <2>2. target \in DOMAIN allowed
    BY <1>3, <2>1, ValidTarget DEF transition_release
  <2>3. r \in GovernanceRequest
    BY <2>2 DEF GovernanceRequest
  <2>4. RequestSound(r)
    BY <1>3 DEF transition_release, RequestSound, Qualified, validate_qualification_evidence, Fit
  <2> QED BY <1>3, <2>3, <2>4, OnlyAdvances DEF transition_release
<1>4. ASSUME NEW c \in Curators, NEW p \in DOMAIN Packages, auto_rollback(c, p)
      PROVE  GovernanceInv'
  <2> DEFINE S == Retired(Packages[p].model) \ {p}
  <2> PICK r : r = [at |-> "rollback", id |-> Newest(S)]
    OBVIOUS
  <2>1. S \in SUBSET DOMAIN Packages /\ S # {}
    BY <1>4 DEF auto_rollback, Retired
  <2>2. Newest(S) \in S
    <3> HIDE DEF S
    <3> QED BY <2>1, NewestIn
  <2>3. r \in GovernanceRequest /\ RequestSound(r)
    <3> HIDE DEF S
    <3> QED BY <2>1, <2>2 DEF GovernanceRequest, RequestSound
  <2> QED BY <1>4, <2>3, OnlyAdvances DEF auto_rollback
<1>5. ASSUME NEW c \in Curators, Rollback(c)
      PROVE  GovernanceInv'
  <2> PICK p : p = greq[c].id
    OBVIOUS
  <2>1. p \in DOMAIN Packages
    BY <1>5 DEF Rollback, RequestsSound, GovernanceRequest, NoTask
  <2>2. CASE releases[p] = "retired" /\ Qualified(p, "active")
    <3> PICK r : r = [at |-> "transition", id |-> p, to |-> "active", rollback |-> TRUE]
      OBVIOUS
    <3>1. r \in GovernanceRequest
      BY <2>1, AllowedFacts DEF GovernanceRequest
    <3>2. RequestSound(r)
      BY <2>2 DEF RequestSound, Qualified, validate_qualification_evidence, Fit
    <3>3. Advance(c, r)
      BY <1>5, <2>2 DEF Rollback
    <3> QED BY <1>5, <3>1, <3>2, <3>3, OnlyAdvances DEF Rollback
  <2>3. CASE ~ (releases[p] = "retired" /\ Qualified(p, "active"))
    <3>1. NoTask \in GovernanceRequest /\ RequestSound(NoTask)
      BY DEF GovernanceRequest, RequestSound, NoTask
    <3>2. Advance(c, NoTask)
      BY <1>5, <2>3 DEF Rollback
    <3> QED BY <1>5, <3>1, <3>2, OnlyAdvances DEF Rollback
  <2> QED BY <2>2, <2>3
<1>6. ASSUME NEW c \in Curators, Transition(c)
      PROVE  GovernanceInv'
  <2> PICK r : r = greq[c]
    OBVIOUS
  <2> DEFINE retired == IF r.to = "active" THEN Superseded(r.id) ELSE {}
             first == [release |-> r.id, to |-> r.to]
             second == [release |-> CHOOSE q \in retired : TRUE, to |-> "retired"]
             events == [at |-> "events", todo |->
                            <<first>> \o (IF retired = {} THEN << >> ELSE <<second>>)]
             go == Revalidated(r) /\ (r.to = "active" => UniqueActive(r.id))
  <2>1. r.at = "transition" /\ r \in GovernanceRequest /\ RequestSound(r)
    BY <1>6 DEF Transition, RequestsSound
  <2>2. r.id \in DOMAIN Packages /\ r.to \in DOMAIN allowed /\ r.rollback \in BOOLEAN
    BY <2>1 DEF GovernanceRequest, NoTask
  <2>3. releases[r.id] # "none" /\ (r.to = "active" => Fit(r.id))
    BY <2>1 DEF RequestSound
  <2>4. CASE ~ go
    <3>1. NoTask \in GovernanceRequest /\ RequestSound(NoTask)
      BY DEF GovernanceRequest, RequestSound, NoTask
    <3>2. Advance(c, NoTask) /\ UNCHANGED releases
      BY <1>6, <2>4 DEF Transition
    <3> QED BY <1>6, <3>1, <3>2, OnlyAdvances DEF Transition
  <2>5. CASE go
    <3>1. /\ releases' = [p \in DOMAIN Packages |->
                IF p = r.id THEN r.to ELSE IF p \in retired THEN "retired" ELSE releases[p]]
          /\ Advance(c, events)
      BY <1>6, <2>5 DEF Transition
    <3>2. UNCHANGED <<feedbackStore, feedback, manifests, packages, deployments>>
      BY <1>6 DEF Transition
    <3>3. retired \subseteq DOMAIN Packages
      BY DEF Superseded, Rivals
    <3>4. GovernanceTypeOK'
      BY <2>2, <3>1, <3>2, AllowedFacts DEF GovernanceTypeOK, ModelReleaseStatus
    <3>5. events \in GovernanceRequest /\ events.at = "events" /\ events.todo # << >>
      <4>1. first \in DeploymentEvent
        BY <2>2 DEF DeploymentEvent, ModelDeploymentEvent, ModelReleaseStatus
      <4>2. retired # {} => second \in DeploymentEvent
        <5> HIDE DEF retired
        <5> QED BY <3>3, AllowedFacts DEF DeploymentEvent, ModelDeploymentEvent, ModelReleaseStatus
      <4> DEFINE rest == IF retired = {} THEN << >> ELSE <<second>>
      <4>3. <<first>> \in Seq(DeploymentEvent) /\ Len(<<first>>) = 1 /\ rest \in Seq(DeploymentEvent)
        <5> HIDE DEF retired, first, second
        <5> QED BY <4>1, <4>2
      <4>4. events.todo \in Seq(DeploymentEvent) /\ events.todo # << >>
        <5>1. events.todo = <<first>> \o rest
          OBVIOUS
        <5> HIDE DEF retired, first, second, events, rest
        <5>2. events.todo \in Seq(DeploymentEvent) /\ Len(events.todo) = 1 + Len(rest)
          BY <4>3, <5>1, ConcatProperties
        <5>3. Len(rest) \in Nat /\ Len(<< >>) = 0
          BY <4>3
        <5> QED BY <5>2, <5>3
      <4> QED BY <4>4 DEF GovernanceRequest
    <3>6. RequestsSound'
      <4> HIDE DEF events, retired
      <4> PICK e : e = events
        OBVIOUS
      <4>1. RequestSound(e)'
        BY <3>5 DEF RequestSound
      <4>2. \A p \in DOMAIN Packages : releases[p] # "none" => releases'[p] # "none"
        BY <2>2, <3>1, AllowedFacts
      <4>3. \A f \in DOMAIN Feedbacks : Exportable(f) => Exportable(f)'
        BY <3>2 DEF Exportable
      <4> QED BY <3>1, <3>5, <4>1, <4>2, <4>3, RequestsAdvanced
    <3>7. ManifestsSound'
      BY <3>2 DEF ManifestsSound, Exportable, OneDomain
    <3>8. ActiveFit'
      BY <2>3, <3>1 DEF ActiveFit, GovernanceTypeOK
    <3>9. OneActive'
      <4> HIDE DEF go
      <4>1. CASE r.to # "active"
        BY <3>1, <4>1 DEF OneActive, GovernanceTypeOK
      <4>2. CASE r.to = "active"
        <5>1. Rivals(r.id) \subseteq retired
          BY <2>5, <4>2 DEF go, UniqueActive, Superseded
        <5>2. \A q \in DOMAIN Packages \ {r.id} :
                  releases'[q] = "active" => releases[q] = "active" /\ q \notin retired
          <6> HIDE DEF retired
          <6> QED BY <3>1 DEF GovernanceTypeOK
        <5>3. \A q \in DOMAIN Packages \ {r.id} :
                  releases'[q] = "active" => Packages[q].capability # Packages[r.id].capability
          <6> HIDE DEF retired
          <6> QED BY <5>1, <5>2 DEF Rivals
        <5> HIDE DEF retired
        <5> QED BY <2>2, <5>2, <5>3 DEF OneActive
      <4> QED BY <4>1, <4>2
    <3> QED BY <3>4, <3>6, <3>7, <3>8, <3>9
  <2> QED BY <2>4, <2>5
<1>7. ASSUME NEW c \in Curators, record_deployment_event(c)
      PROVE  GovernanceInv'
  <2> PICK r : r = greq[c]
    OBVIOUS
  <2> PICK s : s = IF Len(r.todo) = 1 THEN NoTask ELSE [r EXCEPT !.todo = Tail(r.todo)]
    OBVIOUS
  <2>1. r.at = "events" /\ r \in GovernanceRequest /\ RequestSound(r)
    BY <1>7 DEF record_deployment_event, RequestsSound
  <2>2. r \in [at : {"events"}, todo : Seq(DeploymentEvent)] /\ r.todo # << >>
    BY <2>1 DEF GovernanceRequest, NoTask, RequestSound
  <2>3. Head(r.todo) \in DeploymentEvent
    BY <2>2
  <2>4. Advance(c, s)
    BY <1>7 DEF record_deployment_event
  <2>5. s \in GovernanceRequest /\ RequestSound(s)'
    <3>1. CASE Len(r.todo) = 1
      BY <3>1 DEF GovernanceRequest, RequestSound, NoTask
    <3>2. CASE Len(r.todo) # 1
      <4>1. Tail(r.todo) \in Seq(DeploymentEvent) /\ Tail(r.todo) # << >>
        <5>1. Tail(r.todo) \in Seq(DeploymentEvent) /\ Len(Tail(r.todo)) = Len(r.todo) - 1
          BY <2>2, HeadTailProperties
        <5>2. Len(r.todo) \in Nat /\ Len(r.todo) # 0
          BY <2>2
        <5>3. Len(Tail(r.todo)) # 0
          BY <3>2, <5>1, <5>2
        <5>4. Len(<< >>) = 0
          OBVIOUS
        <5> QED BY <5>1, <5>3, <5>4
      <4>2. s \in [at : {"events"}, todo : Seq(DeploymentEvent)] /\ s.todo # << >>
        BY <2>2, <3>2, <4>1
      <4> QED BY <4>2 DEF GovernanceRequest, RequestSound
    <3> QED BY <3>1, <3>2
  <2>6. RequestsSound'
    BY <1>7, <2>4, <2>5, RequestsAdvanced DEF record_deployment_event, Exportable
  <2>7. GovernanceTypeOK'
    <3>1. deployments' = [deployments EXCEPT ![Head(r.todo).release] = Head(r.todo).to]
      BY <1>7 DEF record_deployment_event
    <3>2. Head(r.todo).to \in ModelDeploymentEvent
      BY <2>3 DEF DeploymentEvent
    <3>3. UNCHANGED <<feedback, manifests, packages, releases>>
      BY <1>7 DEF record_deployment_event
    <3> QED BY <3>1, <3>2, <3>3 DEF GovernanceTypeOK
  <2> QED BY <1>7, <2>6, <2>7 DEF record_deployment_event, ManifestsSound, Exportable, OneDomain,
                                 ActiveFit, OneActive
<1> QED BY <1>1, <1>2, <1>3, <1>4, <1>5, <1>6, <1>7 DEF ReleaseNext

LEMMA GovernanceStep == GovernanceInv /\ [GovernanceNext]_governanceVars => GovernanceInv'
<1> SUFFICES ASSUME GovernanceInv, [GovernanceNext]_governanceVars PROVE GovernanceInv'
  OBVIOUS
<1>1. CASE FeedbackNext
  BY <1>1, FeedbackStep
<1>2. CASE ReleaseNext
  BY <1>2, ReleaseStep
<1>3. CASE UNCHANGED governanceVars
  <2>1. RequestsSound'
    BY <1>3, RequestsKept DEF governanceVars, GovernanceInv, Exportable
  <2> QED BY <1>3, <2>1 DEF governanceVars, GovernanceInv, GovernanceTypeOK, ManifestsSound,
                            Exportable, OneDomain, ActiveFit, OneActive
<1> QED BY <1>1, <1>2, <1>3 DEF GovernanceNext

LEMMA GovernanceInvariant == GovernanceSpec => []GovernanceInv
BY GovernanceInitOK, GovernanceStep, PTL DEF GovernanceSpec

\* What create_manifest exported stays approved, authorised and deidentified, of
\* one domain and one dataset version, however reviews and exports overlap.
THEOREM ManifestsApproved == GovernanceSpec => []ManifestItemsApproved
<1>1. GovernanceInv => ManifestItemsApproved
  BY DEF GovernanceInv, ManifestsSound, Exportable, ManifestItemsApproved
<1> QED BY <1>1, GovernanceInvariant, PTL

\* One step: what the repository's transition_release and create_release do to a
\* release.
LEMMA ReleaseMoves ==
    ASSUME GovernanceInv, GovernanceNext, NEW p \in DOMAIN Packages, releases[p] # releases'[p]
    PROVE  \/ releases[p] = "none" /\ releases'[p] = "candidate"
           \/ releases[p] # "none" /\ releases'[p] \in allowed[releases[p]]
           \/ releases[p] = "retired" /\ releases'[p] = "active"
<1>1. ~ FeedbackNext
  BY DEF FeedbackNext, create, review, save_feedback, create_manifest, ReadItem, SaveManifest
<1>2. CASE \E q \in DOMAIN Packages : create_release(q)
  BY <1>2 DEF create_release, GovernanceInv, GovernanceTypeOK
<1>3. CASE \E c \in Curators : Transition(c)
  <2> PICK c \in Curators : Transition(c)
    BY <1>3
  <2> PICK r : r = greq[c]
    OBVIOUS
  <2> DEFINE retired == IF r.to = "active" THEN Superseded(r.id) ELSE {}
  <2>1. r.at = "transition" /\ r \in GovernanceRequest /\ RequestSound(r)
    BY DEF Transition, RequestsSound, GovernanceInv
  <2>2. /\ r.id \in DOMAIN Packages /\ r.to \in DOMAIN allowed /\ r.rollback \in BOOLEAN
        /\ releases[r.id] # "none"
    BY <2>1 DEF GovernanceRequest, NoTask, RequestSound
  <2>3. Revalidated(r) /\ releases' = [q \in DOMAIN Packages |->
                IF q = r.id THEN r.to ELSE IF q \in retired THEN "retired" ELSE releases[q]]
    BY DEF Transition
  <2>4. CASE p = r.id
    <3>1. releases[r.id] \in DOMAIN allowed
      BY <2>2 DEF GovernanceInv, GovernanceTypeOK, ModelReleaseStatus
    <3>2. \/ releases[r.id] = "retired" /\ r.to = "active"
          \/ r.to \in allowed[releases[r.id]]
      BY <2>2, <2>3, <3>1, ValidTarget DEF Revalidated
    <3> QED BY <2>2, <2>3, <2>4, <3>2
  <2>5. CASE p # r.id
    <3>1. p \in retired /\ releases'[p] = "retired"
      <4> HIDE DEF retired
      <4> QED BY <2>3, <2>5
    <3>2. releases[p] = "active"
      BY <3>1 DEF Superseded, Rivals
    <3> QED BY <3>1, <3>2, AllowedFacts
  <2> QED BY <2>4, <2>5
<1> QED
  BY <1>1, <1>2, <1>3
     DEF GovernanceNext, ReleaseNext, admit_package, transition_release, auto_rollback, Rollback,
         record_deployment_event

\* The runtime binds one release per capability, whatever table of releases it reads.
LEMMA BoundOnce ==
    ASSUME NEW table,
           \A p, q \in DOMAIN Packages : table[p] = "active" /\ table[q] = "active" /\ p # q =>
               Packages[p].capability # Packages[q].capability,
           NEW p \in DOMAIN Packages, table[p] = "active"
    PROVE  Cardinality({q \in DOMAIN Packages :
               table[q] = "active" /\ Packages[q].capability = Packages[p].capability}) = 1
<1>1. {q \in DOMAIN Packages :
           table[q] = "active" /\ Packages[q].capability = Packages[p].capability} = {p}
  OBVIOUS
<1> QED BY <1>1, FS_Singleton

\* However operators and the health gate overlap, a release goes through its life
\* cycle, becomes active only when qualified, and alone in its capability.
THEOREM ReleasesGoverned == GovernanceSpec => ReleaseLifecycle
<1> DEFINE Moves ==
        \A p \in DOMAIN Packages : releases[p] # releases'[p] =>
              \/ releases[p] = "none" /\ releases'[p] = "candidate"
              \/ releases[p] # "none" /\ releases'[p] \in allowed[releases[p]]
              \/ releases[p] = "retired" /\ releases'[p] = "active"
    FitNext == \A p \in DOMAIN Packages : releases'[p] = "active" =>
              Packages[p].ready /\ RequiredEvidence \subseteq Packages[p].evidence
    Bound == \A cap \in DOMAIN active_runtime_bindings' :
              Cardinality(active_runtime_bindings'[cap]) = 1
    Governed ==
        \A p \in DOMAIN Packages : releases[p] # releases'[p] =>
          /\ \/ releases[p] = "none" /\ releases'[p] = "candidate"
             \/ releases[p] # "none" /\ releases'[p] \in allowed[releases[p]]
             \/ releases[p] = "retired" /\ releases'[p] = "active"
          /\ releases'[p] = "active" =>
                /\ Packages[p].ready /\ RequiredEvidence \subseteq Packages[p].evidence
                /\ Cardinality(active_runtime_bindings'[Packages[p].capability]) = 1
<1>1. GovernanceInv /\ [GovernanceNext]_governanceVars => [Governed]_releases
  <2> SUFFICES ASSUME GovernanceInv, [GovernanceNext]_governanceVars, releases' # releases
               PROVE  Governed
    OBVIOUS
  <2>1. GovernanceNext
    BY DEF governanceVars
  <2>2. GovernanceInv'
    BY GovernanceStep
  <2>3. Moves
    BY <2>1, ReleaseMoves
  <2>4. FitNext
    BY <2>2 DEF GovernanceInv, ActiveFit, Fit
  <2>5. Bound
    <3> SUFFICES ASSUME NEW cap \in DOMAIN active_runtime_bindings'
                 PROVE  Cardinality(active_runtime_bindings'[cap]) = 1
      OBVIOUS
    <3>1. PICK p \in DOMAIN Packages : releases'[p] = "active" /\ Packages[p].capability = cap
      BY DEF active_runtime_bindings
    <3>2. active_runtime_bindings'[cap] =
              {q \in DOMAIN Packages :
                  releases'[q] = "active" /\ Packages[q].capability = Packages[p].capability}
      BY <3>1 DEF active_runtime_bindings
    <3> PICK table : table = releases'
      OBVIOUS
    <3>3. \A q, s \in DOMAIN Packages : table[q] = "active" /\ table[s] = "active" /\ q # s =>
              Packages[q].capability # Packages[s].capability
      BY <2>2 DEF GovernanceInv, OneActive
    <3> QED BY <3>1, <3>2, <3>3, BoundOnce
  <2>6. ASSUME NEW p \in DOMAIN Packages, releases'[p] = "active"
        PROVE  Packages[p].capability \in DOMAIN active_runtime_bindings'
    BY <2>6 DEF active_runtime_bindings
  <2> QED BY <2>3, <2>4, <2>5, <2>6
<1> QED BY <1>1, GovernanceInvariant, PTL DEF GovernanceSpec, ReleaseLifecycle
------------------------------------------------------------------------------
(* The catalogues.  A host that has synchronised knows that the versions it   *)
(* installed are registered, whatever other hosts register beside it; a       *)
(* dataset request knows that what it will publish is publishable.            *)

Goals == {"run", "resolve"} \cup DOMAIN pipeline_allowed

HostRequest ==
    {Free}
    \cup [at : {"sync", "transition"}, todo : SUBSET Versions, version : Versions, goal : Goals]
    \cup [at : {"accepted"}, version : Versions]

Known(v) == pipelines[v] # NoVersion

HostRequestOK(h, r) ==
    /\ r.at = "sync" => \A v \in DOMAIN Installed[h] \ r.todo : Known(v)
    /\ r.at = "sync" => r.todo \subseteq DOMAIN Installed[h]
    /\ r.at = "transition" => Known(r.version) /\ r.goal \in DOMAIN pipeline_allowed

VersionsSound ==
    /\ pipelines \in [Versions -> PipelineDefinition]
    /\ \A v \in Versions : pipelines[v].status = "none" => pipelines[v] = NoVersion
    /\ \A v, w \in Versions : pipelines[v].status = "active" /\ pipelines[w].status = "active" => v = w

HostsSound ==
    /\ hostReq \in [Hosts -> HostRequest]
    /\ \A h \in Hosts : HostRequestOK(h, hostReq[h])

EditRequest ==
    {Free}
    \cup [at : {"version"}, version : DOMAIN DatasetItems, target : DOMAIN dataset_allowed]
    \cup [at : {"dataset"}]
    \cup [at : {"search"}, id : Searches, name : SearchNames]

EditsSound ==
    /\ ereq \in [Editors -> EditRequest]
    /\ \A e \in Editors : ereq[e].at = "version" /\ ereq[e].target = "published" => Publishable(ereq[e].version)

DatasetsSound ==
    /\ datasetVersions \in [DOMAIN DatasetItems -> DatasetVersion]
    /\ datasetStatus \in DatasetRecord
    /\ \A d \in DOMAIN DatasetItems : datasetVersions[d] = "published" => Publishable(d)

SearchesSound ==
    /\ saved \in [Searches -> SavedSearch]
    /\ \A s \in Searches : saved[s] # NoSearch => saved[s].name \in SearchNames
    /\ \A s \in gone : saved[s] = NoSearch
    /\ gone \subseteq Searches
    /\ \A s, t \in Searches : saved[s] # NoSearch /\ saved[s].name = saved[t].name => s = t

CatalogueInv == VersionsSound /\ HostsSound /\ EditsSound /\ DatasetsSound /\ SearchesSound

\* A version moves along its life cycle, or an active installation replaces its
\* definition.
VersionMoves ==
    \A v \in Versions : pipelines[v] # pipelines'[v] /\ pipelines[v] # NoVersion =>
        \/ pipelines'[v].status \in pipeline_allowed[pipelines[v].status]
        \/ /\ pipelines'[v].status = pipelines[v].status
           /\ \E h \in Hosts : v \in DOMAIN Installed[h] /\ Installed[h][v].status = "active"
                               /\ pipelines'[v].digest = Installed[h][v].digest

LEMMA PipelineFacts ==
    /\ DOMAIN pipeline_allowed = {"draft", "validated", "approved", "active", "retired"}
    /\ DOMAIN dataset_allowed = {"draft", "validated", "published", "retired"}
    /\ pipeline_allowed["active"] = {"retired"}
    /\ \A s \in DOMAIN pipeline_allowed : pipeline_allowed[s] \subseteq DOMAIN pipeline_allowed
BY DEF pipeline_allowed, dataset_allowed

\* Version v gets the definition p, and no other stays active if it is.
LEMMA VersionStep ==
    ASSUME VersionsSound, NEW v \in Versions, NEW p \in PipelineDefinition, p.status # "none",
           NEW old \in [Versions -> PipelineDefinition],
           old = pipelines \/ old = Activated(v),
           p.status = "active" => old = Activated(v) \/ pipelines[v].status = "active",
           pipelines' = [old EXCEPT ![v] = p],
           \/ pipelines[v] = NoVersion
           \/ p.status \in pipeline_allowed[pipelines[v].status]
           \/ /\ p.status = pipelines[v].status
              /\ \E h \in Hosts : v \in DOMAIN Installed[h] /\ Installed[h][v].status = "active"
                                  /\ p.digest = Installed[h][v].digest
    PROVE  VersionsSound' /\ VersionMoves /\ \A w \in Versions : Known(w) => Known(w)'
<1>1. /\ pipelines' \in [Versions -> PipelineDefinition]
      /\ pipelines'[v] = p /\ \A w \in Versions : w # v => pipelines'[w] = old[w]
  OBVIOUS
<1>2. ASSUME NEW w \in Versions, w # v
      PROVE  \/ old[w] = pipelines[w]
             \/ /\ pipelines[w].status = "active" /\ old[w].status = "retired"
                /\ old[w] # NoVersion
  BY <1>2 DEF Activated, VersionsSound, PipelineDefinition, NoVersion
<1>3. ASSUME NEW w \in Versions, w # v, old = Activated(v) PROVE old[w].status # "active"
  BY <1>3 DEF Activated, VersionsSound, PipelineDefinition
<1>4. p # NoVersion
  BY DEF NoVersion
<1>5. \A w \in Versions : Known(w) => Known(w)'
  BY <1>1, <1>2, <1>4 DEF Known
<1>6. VersionsSound'
  <2>1. ASSUME NEW w \in Versions PROVE pipelines'[w].status = "none" => pipelines'[w] = NoVersion
    BY <1>1, <1>2 DEF VersionsSound
  <2>2. ASSUME NEW w \in Versions, w # v, pipelines'[w].status = "active"
        PROVE  old # Activated(v) /\ old[w] = pipelines[w] /\ pipelines[w].status = "active"
    BY <1>1, <1>2, <1>3, <2>2
  <2>3. ASSUME NEW w \in Versions, NEW x \in Versions, pipelines'[w].status = "active",
               pipelines'[x].status = "active"
        PROVE  w = x
    BY <1>1, <2>2, <2>3 DEF VersionsSound
  <2>. QED BY <1>1, <2>1, <2>3 DEF VersionsSound
<1>7. VersionMoves
  BY <1>1, <1>2, PipelineFacts DEF VersionMoves
<1>. QED BY <1>5, <1>6, <1>7

LEMMA PipelinesKept ==
    ASSUME VersionsSound, pipelines' = pipelines
    PROVE  VersionsSound' /\ VersionMoves /\ \A w \in Versions : Known(w) => Known(w)'
BY DEF VersionsSound, VersionMoves, Known

\* A host goes on with request r, in a state where what is registered stays so.
LEMMA HostStep ==
    ASSUME HostsSound, NEW h \in Hosts, NEW r \in HostRequest, HostRequestOK(h, r)',
           hostReq' = [hostReq EXCEPT ![h] = r],
           \A w \in Versions : Known(w) => Known(w)'
    PROVE  HostsSound'
<1>1. ASSUME NEW g \in Hosts PROVE HostRequestOK(g, hostReq[g])'
  <2>1. CASE g = h
    BY <2>1 DEF HostsSound, HostRequestOK
  <2>2. CASE g # h
    <3>1. hostReq'[g] = hostReq[g] /\ HostRequestOK(g, hostReq[g]) /\ hostReq[g] \in HostRequest
      BY <2>2 DEF HostsSound
    <3>2. DOMAIN Installed[g] \subseteq Versions
      BY DEF Versions
    <3>3. PICK q : q = hostReq[g]
      OBVIOUS
    <3>4. q.at = "transition" => q.version \in Versions
      BY <3>1, <3>3 DEF HostRequest, Free
    <3>. QED BY <3>1, <3>2, <3>3, <3>4 DEF HostRequestOK
  <2>. QED BY <2>1, <2>2
<1>. QED BY <1>1 DEF HostsSound

\* A request that has not written anything yet.
LEMMA AskingStep ==
    ASSUME CatalogueInv, NEW h \in Hosts, NEW r \in HostRequest, HostRequestOK(h, r)',
           hostReq' = [hostReq EXCEPT ![h] = r],
           UNCHANGED <<pipelines, datasetStatus, datasetVersions, saved, gone, ereq>>
    PROVE  VersionsSound' /\ HostsSound' /\ VersionMoves
<1>1. VersionsSound' /\ VersionMoves /\ \A w \in Versions : Known(w) => Known(w)'
  BY PipelinesKept DEF CatalogueInv
<1>. QED BY <1>1, HostStep DEF CatalogueInv

LEMMA SyncStep ==
    ASSUME CatalogueInv, NEW h \in Hosts, Sync(h)
    PROVE  VersionsSound' /\ HostsSound' /\ VersionMoves
<1>1. PICK r \in HostRequest : r = hostReq[h] /\ HostRequestOK(h, r) /\ r.at = "sync"
  BY DEF CatalogueInv, HostsSound, Sync
<1>2. r \in [at : {"sync", "transition"}, todo : SUBSET Versions, version : Versions, goal : Goals]
  BY <1>1 DEF HostRequest, Free
<1>3. PICK v \in r.todo :
        IF Refused(v, Installed[h][v]) THEN Serve(h, Free) /\ UNCHANGED pipelines
        ELSE /\ pipelines' = register_pipeline_definition(v, Installed[h][v])
             /\ Serve(h, [r EXCEPT !.todo = @ \ {v}])
  BY <1>1 DEF Sync
<1>4. Free \in HostRequest /\ HostRequestOK(h, Free)'
  BY DEF HostRequest, HostRequestOK, Free
<1>5. CASE Refused(v, Installed[h][v])
  <2>1. VersionsSound' /\ VersionMoves /\ \A w \in Versions : Known(w) => Known(w)'
    BY <1>3, <1>5, PipelinesKept DEF CatalogueInv
  <2>. QED BY <1>3, <1>4, <1>5, <2>1, HostStep DEF CatalogueInv, Serve
<1>6. CASE ~Refused(v, Installed[h][v])
  <2>1. v \in Versions /\ v \in DOMAIN Installed[h] /\ pipelines[v] \in PipelineDefinition
    BY <1>1, <1>2 DEF HostRequestOK, Versions, CatalogueInv, VersionsSound
  <2>2. PICK p \in PipelineDefinition : p = Installed[h][v] /\ p.status # "none"
    BY <2>1, CatalogueAssumption, PipelineFacts DEF PipelineDefinition
  <2>3. pipelines' = register_pipeline_definition(v, p)
    BY <1>3, <1>6, <2>2
  <2>4. pipelines \in [Versions -> PipelineDefinition] /\ Activated(v) \in [Versions -> PipelineDefinition]
    BY PipelineFacts DEF CatalogueInv, VersionsSound, Activated, PipelineDefinition
  <2>5. /\ VersionsSound' /\ VersionMoves /\ \A w \in Versions : Known(w) => Known(w)'
        /\ Known(v)'
    <3>1. CASE pipelines[v] = NoVersion
      <4>1. PICK old \in [Versions -> PipelineDefinition] :
              /\ old = IF p.status = "active" THEN Activated(v) ELSE pipelines
              /\ pipelines' = [old EXCEPT ![v] = p]
        BY <2>3, <2>4, <3>1 DEF register_pipeline_definition
      <4>2. /\ old = pipelines \/ old = Activated(v)
            /\ p.status = "active" => old = Activated(v) \/ pipelines[v].status = "active"
        BY <4>1
      <4>3. Known(v)'
        BY <2>1, <2>2, <4>1 DEF Known, NoVersion
      <4>. QED BY <2>1, <2>2, <3>1, <4>1, <4>2, <4>3, VersionStep DEF CatalogueInv
    <3>2. CASE pipelines[v] # NoVersion /\ pipelines[v].digest # p.digest /\ p.status = "active"
      <4>0. PICK x, q : x = pipelines[v] /\ x \in PipelineDefinition /\ q = [x EXCEPT !.digest = p.digest]
        BY <2>1
      <4>1. /\ q \in PipelineDefinition /\ q = [pipelines[v] EXCEPT !.digest = p.digest]
            /\ q.status = pipelines[v].status /\ q.digest = p.digest
        BY <2>2, <4>0 DEF PipelineDefinition
      <4>2. pipelines' = [pipelines EXCEPT ![v] = q]
        BY <2>3, <3>2, <4>1 DEF register_pipeline_definition
      <4>3. q.status # "none"
        BY <2>1, <3>2, <4>1 DEF CatalogueInv, VersionsSound
      <4>4. \E g \in Hosts : v \in DOMAIN Installed[g] /\ Installed[g][v].status = "active"
                             /\ q.digest = Installed[g][v].digest
        BY <2>1, <2>2, <3>2, <4>1
      <4>5. Known(v)'
        BY <2>1, <2>4, <4>2, <4>3 DEF Known, NoVersion
      <4>6. q.status = "active" => pipelines[v].status = "active"
        BY <4>1
      <4>. QED BY <2>1, <2>4, <4>1, <4>2, <4>3, <4>4, <4>5, <4>6, VersionStep DEF CatalogueInv
    <3>3. CASE pipelines[v] # NoVersion /\ ~(pipelines[v].digest # p.digest /\ p.status = "active")
      <4>1. pipelines' = pipelines
        BY <2>3, <3>3 DEF register_pipeline_definition
      <4>. QED BY <3>3, <4>1, PipelinesKept DEF CatalogueInv, Known
    <3>. QED BY <3>1, <3>2, <3>3
  <2>6. PICK q \in HostRequest :
          /\ q = [r EXCEPT !.todo = @ \ {v}] /\ q.at = "sync" /\ q.todo = r.todo \ {v}
          /\ hostReq' = [hostReq EXCEPT ![h] = q]
    BY <1>1, <1>2, <1>3, <1>6 DEF HostRequest, Serve
  <2>7. DOMAIN Installed[h] \subseteq Versions
    BY DEF Versions
  <2>8. HostRequestOK(h, q)'
    BY <1>1, <2>5, <2>6, <2>7 DEF HostRequestOK
  <2>. QED BY <2>5, <2>6, <2>8, HostStep DEF CatalogueInv
<1>. QED BY <1>5, <1>6

LEMMA ServeStep ==
    ASSUME CatalogueInv, NEW h \in Hosts,
           \/ \E v \in Versions, goal \in Goals : Ask(h, v, goal)
           \/ pipeline_definition(h) \/ resolve_pipeline_ref(h) \/ transition_pipeline(h)
    PROVE  VersionsSound' /\ HostsSound' /\ VersionMoves
<1>0. /\ UNCHANGED <<pipelines, datasetStatus, datasetVersions, saved, gone, ereq>>
      /\ DOMAIN Installed[h] \subseteq Versions
  BY DEF Ask, pipeline_definition, resolve_pipeline_ref, transition_pipeline, Versions
<1>1. Free \in HostRequest /\ HostRequestOK(h, Free)'
  BY DEF HostRequest, HostRequestOK, Free
<1>2. ASSUME NEW v \in Versions, NEW goal \in Goals, Ask(h, v, goal)
      PROVE  VersionsSound' /\ HostsSound' /\ VersionMoves
  <2>1. PICK q : q = [at |-> "sync", todo |-> DOMAIN Installed[h], version |-> v, goal |-> goal]
    OBVIOUS
  <2>2. q \in HostRequest /\ HostRequestOK(h, q)'
    BY <1>0, <2>1 DEF HostRequest, HostRequestOK
  <2>. QED BY <1>0, <1>2, <2>1, <2>2, AskingStep DEF Ask, Serve
<1>3. PICK r \in HostRequest : r = hostReq[h] /\ HostRequestOK(h, r)
  BY DEF CatalogueInv, HostsSound
<1>4. ASSUME SyncDone(h)
      PROVE  /\ r \in [at : {"sync", "transition"}, todo : SUBSET Versions, version : Versions, goal : Goals]
             /\ r.at = "sync" /\ \A v \in DOMAIN Installed[h] : Known(v)
  BY <1>3, <1>4 DEF HostRequest, Free, SyncDone, HostRequestOK
<1>5. CASE pipeline_definition(h)
  <2>1. PICK q : q = [at |-> "accepted", version |-> r.version]
    OBVIOUS
  <2>2. q \in HostRequest /\ HostRequestOK(h, q)'
    BY <1>4, <1>5, <2>1 DEF HostRequest, HostRequestOK, pipeline_definition
  <2>3. Serve(h, q) \/ Serve(h, Free)
    BY <1>3, <1>5, <2>1 DEF pipeline_definition
  <2>. QED BY <1>0, <1>1, <2>2, <2>3, AskingStep DEF Serve
<1>6. CASE resolve_pipeline_ref(h)
  <2>. DEFINE active == {v \in Versions : pipelines[v].status = "active"}
  <2>1. CASE Serve(h, Free)
    BY <1>0, <1>1, <2>1, AskingStep DEF Serve
  <2>2. CASE ~Serve(h, Free)
    <3>1. Cardinality(active) = 1 /\ SyncDone(h)
      BY <1>6, <2>2 DEF resolve_pipeline_ref
    <3>2. active # {}
      <4>1. PICK a : a = active
        OBVIOUS
      <4>2. Cardinality(a) = 1
        BY <3>1, <4>1
      <4>3. a # {}
        BY <4>2, FS_EmptySet
      <4>. QED BY <4>1, <4>3
    <3>3. PICK v : v = CHOOSE x \in active : TRUE
      OBVIOUS
    <3>4. v \in Versions
      BY <3>2, <3>3
    <3>5. PICK q : /\ q = [r EXCEPT !.goal = "run", !.todo = DOMAIN Installed[h], !.version = v]
                   /\ Serve(h, q)
      BY <1>3, <1>6, <2>2, <3>3 DEF resolve_pipeline_ref
    <3>6. q \in HostRequest /\ HostRequestOK(h, q)'
      BY <1>0, <1>4, <3>1, <3>4, <3>5 DEF HostRequest, HostRequestOK, Goals
    <3>. QED BY <1>0, <3>5, <3>6, AskingStep DEF Serve
  <2>. QED BY <2>1, <2>2
<1>7. CASE transition_pipeline(h)
  <2>1. PICK q : q = [r EXCEPT !.at = "transition"]
    OBVIOUS
  <2>2. CASE Serve(h, Free)
    BY <1>0, <1>1, <2>2, AskingStep DEF Serve
  <2>3. CASE ~Serve(h, Free)
    <3>1. SyncDone(h) /\ Serve(h, q) /\ r.version \in DOMAIN Installed[h] /\ r.goal \in DOMAIN pipeline_allowed
      BY <1>3, <1>7, <2>1, <2>3 DEF transition_pipeline, Matches
    <3>2. q \in HostRequest /\ q.at = "transition" /\ q.version = r.version /\ q.goal = r.goal
      BY <1>4, <2>1, <3>1 DEF HostRequest
    <3>3. Known(r.version)'
      BY <1>0, <1>4, <3>1 DEF Known
    <3>4. HostRequestOK(h, q)'
      BY <3>1, <3>2, <3>3 DEF HostRequestOK
    <3>. QED BY <1>0, <3>1, <3>2, <3>4, AskingStep DEF Serve
  <2>. QED BY <2>2, <2>3
<1>. QED BY <1>2, <1>5, <1>6, <1>7

LEMMA TransitionStep ==
    ASSUME CatalogueInv, NEW h \in Hosts, transition_pipeline_definition(h)
    PROVE  VersionsSound' /\ HostsSound' /\ VersionMoves
<1>1. PICK r \in HostRequest : r = hostReq[h] /\ HostRequestOK(h, r) /\ r.at = "transition"
  BY DEF CatalogueInv, HostsSound, transition_pipeline_definition
<1>2. PICK v \in Versions, t \in DOMAIN pipeline_allowed : v = r.version /\ t = r.goal
  BY <1>1 DEF HostRequest, Free, HostRequestOK
<1>3. /\ pipelines' = IF t \notin pipeline_allowed[pipelines[v].status] THEN pipelines
                      ELSE [(IF t = "active" THEN Activated(v) ELSE pipelines) EXCEPT ![v].status = t]
      /\ hostReq' = [hostReq EXCEPT ![h] = Free]
  BY <1>1, <1>2 DEF transition_pipeline_definition, Serve
<1>4. Free \in HostRequest /\ HostRequestOK(h, Free)'
  BY DEF HostRequest, HostRequestOK, Free
<1>5. VersionsSound' /\ VersionMoves /\ \A w \in Versions : Known(w) => Known(w)'
  <2>1. CASE t \notin pipeline_allowed[pipelines[v].status]
    BY <1>3, <2>1, PipelinesKept DEF CatalogueInv
  <2>2. CASE t \in pipeline_allowed[pipelines[v].status]
    <3>1. pipelines \in [Versions -> PipelineDefinition] /\ Activated(v) \in [Versions -> PipelineDefinition]
      BY PipelineFacts DEF CatalogueInv, VersionsSound, Activated, PipelineDefinition
    <3>2. PICK old \in [Versions -> PipelineDefinition] :
            /\ old = IF t = "active" THEN Activated(v) ELSE pipelines
            /\ pipelines' = [old EXCEPT ![v].status = t]
      BY <1>3, <2>2, <3>1
    <3>3. PICK p \in PipelineDefinition : p = [old[v] EXCEPT !.status = t] /\ p.status = t
      BY <1>2, <3>2 DEF PipelineDefinition
    <3>4. pipelines' = [old EXCEPT ![v] = p]
      BY <3>2, <3>3
    <3>5. p.status # "none" /\ p.status \in pipeline_allowed[pipelines[v].status]
      BY <1>2, <2>2, <3>3, PipelineFacts
    <3>6. /\ old = pipelines \/ old = Activated(v)
          /\ p.status = "active" => old = Activated(v) \/ pipelines[v].status = "active"
      BY <3>2, <3>3
    <3>. QED BY <3>4, <3>5, <3>6, VersionStep DEF CatalogueInv
  <2>. QED BY <2>1, <2>2
<1>. QED BY <1>3, <1>4, <1>5, HostStep DEF CatalogueInv

LEMMA PipelineStep ==
    ASSUME CatalogueInv, PipelineNext
    PROVE  CatalogueInv' /\ VersionMoves
<1>1. VersionsSound' /\ HostsSound' /\ VersionMoves
  BY SyncStep, ServeStep, TransitionStep DEF PipelineNext, Goals
<1>2. UNCHANGED <<datasetStatus, datasetVersions, saved, gone, ereq>>
  BY DEF PipelineNext, Ask, Sync, pipeline_definition, resolve_pipeline_ref, transition_pipeline,
         transition_pipeline_definition
<1>. QED BY <1>1, <1>2 DEF CatalogueInv, EditsSound, DatasetsSound, SearchesSound

\* An editor goes on with request r.
LEMMA EditStep ==
    ASSUME EditsSound, NEW e \in Editors, NEW r \in EditRequest, ereq' = [ereq EXCEPT ![e] = r],
           r.at = "version" /\ r.target = "published" => Publishable(r.version)
    PROVE  EditsSound'
BY DEF EditsSound

LEMMA DatasetStep ==
    ASSUME CatalogueInv,
           \/ \E d \in DOMAIN DatasetItems, available \in BOOLEAN : create_dataset_version(d, available)
           \/ \E e \in Editors, d \in DOMAIN DatasetItems, t \in DOMAIN dataset_allowed :
                  transition_version(e, d, t)
           \/ \E status \in {"draft", "active", "archived"} : update_dataset(status)
           \/ \E e \in Editors : save_dataset_version(e) \/ save_dataset(e)
    PROVE  EditsSound' /\ DatasetsSound' /\ UNCHANGED <<pipelines, hostReq, saved, gone>>
<1>0. UNCHANGED <<pipelines, hostReq, saved, gone>>
  BY DEF create_dataset_version, transition_version, update_dataset, save_dataset_version, save_dataset
<1>1. ASSUME NEW d \in DOMAIN DatasetItems, NEW available \in BOOLEAN, create_dataset_version(d, available)
      PROVE  EditsSound' /\ DatasetsSound'
  BY <1>1, PipelineFacts DEF CatalogueInv, EditsSound, DatasetsSound, create_dataset_version, DatasetVersion
<1>2. ASSUME NEW e \in Editors, NEW d \in DOMAIN DatasetItems, NEW t \in DOMAIN dataset_allowed,
             transition_version(e, d, t)
      PROVE  EditsSound' /\ DatasetsSound'
  <2>1. PICK r : r = [at |-> "version", version |-> d, target |-> t]
    OBVIOUS
  <2>2. r \in EditRequest /\ ereq' = [ereq EXCEPT ![e] = r]
        /\ (r.at = "version" /\ r.target = "published" => Publishable(r.version))
    BY <1>2, <2>1 DEF EditRequest, transition_version, Edit
  <2>. QED BY <1>2, <2>2, EditStep DEF CatalogueInv, DatasetsSound, transition_version
<1>3. ASSUME NEW status \in {"draft", "active", "archived"}, update_dataset(status)
      PROVE  EditsSound' /\ DatasetsSound'
  BY <1>3 DEF CatalogueInv, EditsSound, DatasetsSound, update_dataset, DatasetRecord
<1>4. Free \in EditRequest /\ [at |-> "dataset"] \in EditRequest
      /\ Free.at = "idle" /\ [at |-> "dataset"].at = "dataset"
  BY DEF EditRequest, Free
<1>5. ASSUME NEW e \in Editors, save_dataset_version(e) PROVE EditsSound' /\ DatasetsSound'
  <2>1. PICK r \in EditRequest : r = ereq[e] /\ r.at = "version"
    BY <1>5 DEF CatalogueInv, EditsSound, save_dataset_version
  <2>2. PICK d \in DOMAIN DatasetItems, t \in DOMAIN dataset_allowed : d = r.version /\ t = r.target
    BY <2>1 DEF EditRequest, Free
  <2>3. t = "published" => Publishable(d)
    BY <2>1, <2>2 DEF CatalogueInv, EditsSound
  <2>4. datasetVersions' = [datasetVersions EXCEPT ![d] = t] /\ UNCHANGED datasetStatus
    BY <1>5, <2>1, <2>2 DEF save_dataset_version
  <2>5. DatasetsSound'
    BY <2>3, <2>4 DEF CatalogueInv, DatasetsSound, DatasetVersion
  <2>6. ereq' = [ereq EXCEPT ![e] = [at |-> "dataset"]] \/ ereq' = [ereq EXCEPT ![e] = Free]
    BY <1>5 DEF save_dataset_version, Edit
  <2>. QED BY <1>4, <2>5, <2>6, EditStep DEF CatalogueInv
<1>6. ASSUME NEW e \in Editors, save_dataset(e) PROVE EditsSound' /\ DatasetsSound'
  <2>1. EditsSound'
    BY <1>4, <1>6, EditStep DEF CatalogueInv, save_dataset, Edit
  <2>. QED BY <1>6, <2>1 DEF CatalogueInv, DatasetsSound, save_dataset, DatasetRecord
<1>. QED BY <1>0, <1>1, <1>2, <1>3, <1>5, <1>6

\* Search s is given a name that is free.
LEMMA NameStep ==
    ASSUME SearchesSound, NEW s \in Searches, s \notin gone, NEW name \in SearchNames, NameFree(s, name),
           saved' = [saved EXCEPT ![s] = [name |-> name, revision |-> 1]], gone' = gone
    PROVE  SearchesSound'
<1>1. PICK x : x = [name |-> name, revision |-> 1]
  OBVIOUS
<1>2. x \in SavedSearch /\ x # NoSearch /\ x.name = name /\ NoSearch.name = "none" /\ name # "none"
  BY <1>1, CatalogueAssumption DEF SavedSearch, NoSearch
<1>3. /\ saved' \in [Searches -> SavedSearch] /\ saved'[s] = x
      /\ \A t \in Searches : t # s => saved'[t] = saved[t]
  BY <1>1, <1>2 DEF SearchesSound
<1>4. \A t \in Searches : t # s => saved[t].name # name
  BY DEF NameFree
<1>5. ASSUME NEW t \in Searches, NEW u \in Searches, saved'[t] # NoSearch, saved'[t].name = saved'[u].name
      PROVE  t = u
  BY <1>2, <1>3, <1>4, <1>5 DEF SearchesSound
<1>. QED BY <1>2, <1>3, <1>5 DEF SearchesSound

LEMMA SavedSearchStep ==
    ASSUME CatalogueInv,
           \/ \E s \in Searches, n \in SearchNames : create_saved_search(s, n)
           \/ \E e \in Editors, s \in Searches :
                  run_saved_search(e, s) \/ \E n \in SearchNames : update_saved_search(e, s, n)
           \/ \E e \in Editors : save_saved_search(e)
           \/ \E s \in Searches : delete_saved_search(s)
    PROVE  EditsSound' /\ SearchesSound' /\ UNCHANGED <<pipelines, hostReq, datasetStatus, datasetVersions>>
<1>0. UNCHANGED <<pipelines, hostReq, datasetStatus, datasetVersions>>
  BY DEF create_saved_search, run_saved_search, update_saved_search, save_saved_search, delete_saved_search
<1>1. ASSUME NEW s \in Searches, NEW n \in SearchNames, create_saved_search(s, n)
      PROVE  EditsSound' /\ SearchesSound'
  BY <1>1, NameStep DEF CatalogueInv, EditsSound, create_saved_search
<1>2. ASSUME NEW e \in Editors, NEW s \in Searches, NEW n \in SearchNames, update_saved_search(e, s, n)
      PROVE  EditsSound' /\ SearchesSound'
  <2>1. PICK r : r = [at |-> "search", id |-> s, name |-> n]
    OBVIOUS
  <2>2. r \in EditRequest /\ r.at = "search" /\ ereq' = [ereq EXCEPT ![e] = r]
    BY <1>2, <2>1 DEF EditRequest, update_saved_search, Edit
  <2>. QED BY <1>2, <2>2, EditStep DEF CatalogueInv, SearchesSound, update_saved_search
<1>3. ASSUME NEW e \in Editors, NEW s \in Searches, run_saved_search(e, s)
      PROVE  EditsSound' /\ SearchesSound'
  <2>1. saved[s].name \in SearchNames
    BY <1>3 DEF run_saved_search, update_saved_search, CatalogueInv, SearchesSound
  <2>. QED BY <1>2, <1>3, <2>1 DEF run_saved_search
<1>4. ASSUME NEW e \in Editors, save_saved_search(e) PROVE EditsSound' /\ SearchesSound'
  <2>1. EditsSound'
    <3>1. Free \in EditRequest /\ Free.at = "idle"
      BY DEF EditRequest, Free
    <3>. QED BY <1>4, <3>1, EditStep DEF CatalogueInv, save_saved_search, Edit
  <2>2. PICK r \in EditRequest : r = ereq[e] /\ r.at = "search"
    BY <1>4 DEF CatalogueInv, EditsSound, save_saved_search
  <2>3. PICK s \in Searches, n \in SearchNames : s = r.id /\ n = r.name
    BY <2>2 DEF EditRequest, Free
  <2>4. /\ gone' = gone
        /\ saved' = IF SearchExists(s) /\ NameFree(s, n)
                    THEN [saved EXCEPT ![s] = [name |-> n, revision |-> 1]] ELSE saved
    BY <1>4, <2>2, <2>3 DEF save_saved_search
  <2>5. CASE SearchExists(s) /\ NameFree(s, n)
    <3>1. s \notin gone
      BY <2>5 DEF SearchExists, CatalogueInv, SearchesSound
    <3>. QED BY <2>1, <2>4, <2>5, <3>1, NameStep DEF CatalogueInv
  <2>6. CASE ~(SearchExists(s) /\ NameFree(s, n))
    BY <2>1, <2>4, <2>6 DEF CatalogueInv, SearchesSound
  <2>. QED BY <2>5, <2>6
<1>5. ASSUME NEW s \in Searches, delete_saved_search(s) PROVE EditsSound' /\ SearchesSound'
  <2>1. saved' = [saved EXCEPT ![s] = NoSearch] /\ gone' = gone \cup {s} /\ ereq' = ereq
    BY <1>5 DEF delete_saved_search
  <2>2. NoSearch \in SavedSearch /\ NoSearch.name = "none" /\ "none" \notin SearchNames
    BY CatalogueAssumption DEF SavedSearch, NoSearch
  <2>3. /\ saved' \in [Searches -> SavedSearch] /\ saved'[s] = NoSearch
        /\ \A t \in Searches : t # s => saved'[t] = saved[t]
    BY <2>1, <2>2 DEF CatalogueInv, SearchesSound
  <2>4. ASSUME NEW t \in Searches, NEW u \in Searches, saved'[t] # NoSearch, saved'[t].name = saved'[u].name
        PROVE  t = u
    BY <2>2, <2>3, <2>4 DEF CatalogueInv, SearchesSound
  <2>5. SearchesSound'
    BY <2>1, <2>3, <2>4 DEF CatalogueInv, SearchesSound
  <2>. QED BY <2>1, <2>5 DEF CatalogueInv, EditsSound
<1>. QED BY <1>0, <1>1, <1>2, <1>3, <1>4, <1>5

LEMMA CatalogueStep ==
    ASSUME CatalogueInv, [PipelineNext \/ RecordsNext]_catalogueVars
    PROVE  CatalogueInv' /\ VersionMoves
<1>1. CASE PipelineNext
  BY <1>1, PipelineStep
<1>2. CASE RecordsNext
  <2>1. ASSUME EditsSound', DatasetsSound', UNCHANGED <<pipelines, hostReq, saved, gone>>
        PROVE  CatalogueInv' /\ VersionMoves
    BY <2>1, PipelinesKept DEF CatalogueInv, HostsSound, HostRequestOK, Known, SearchesSound
  <2>2. ASSUME EditsSound', SearchesSound', UNCHANGED <<pipelines, hostReq, datasetStatus, datasetVersions>>
        PROVE  CatalogueInv' /\ VersionMoves
    BY <2>2, PipelinesKept DEF CatalogueInv, HostsSound, HostRequestOK, Known, DatasetsSound
  <2>. QED BY <1>2, <2>1, <2>2, DatasetStep, SavedSearchStep DEF RecordsNext
<1>3. CASE UNCHANGED catalogueVars
  BY <1>3, PipelinesKept DEF catalogueVars, CatalogueInv, HostsSound, HostRequestOK, Known,
       EditsSound, DatasetsSound, SearchesSound
<1>. QED BY <1>1, <1>2, <1>3

LEMMA CatalogueInitInv == CatalogueInit => CatalogueInv
<1>. SUFFICES ASSUME CatalogueInit PROVE CatalogueInv
  OBVIOUS
<1>1. /\ NoVersion \in PipelineDefinition /\ NoVersion.status = "none"
      /\ NoSearch \in SavedSearch /\ Free.at = "idle" /\ Free \in HostRequest /\ Free \in EditRequest
  <2>1. NoVersion \in PipelineDefinition /\ NoVersion.status = "none"
    BY DEF NoVersion, PipelineDefinition
  <2>2. NoSearch \in SavedSearch
    BY DEF NoSearch, SavedSearch
  <2>3. Free.at = "idle" /\ Free \in HostRequest /\ Free \in EditRequest
    BY DEF Free, HostRequest, EditRequest
  <2>. QED BY <2>1, <2>2, <2>3
<1>2. VersionsSound /\ HostsSound
  BY <1>1 DEF CatalogueInit, VersionsSound, HostsSound, HostRequestOK
<1>3. EditsSound /\ DatasetsSound
  BY <1>1 DEF CatalogueInit, EditsSound, DatasetsSound, DatasetVersion, DatasetRecord
<1>4. SearchesSound
  BY <1>1 DEF CatalogueInit, SearchesSound
<1>. QED BY <1>2, <1>3, <1>4 DEF CatalogueInv

LEMMA SearchesStayGone ==
    ASSUME [PipelineNext \/ RecordsNext]_catalogueVars
    PROVE  gone \subseteq gone'
<1>1. CASE PipelineNext
  BY <1>1 DEF PipelineNext, Ask, Sync, pipeline_definition, resolve_pipeline_ref, transition_pipeline,
              transition_pipeline_definition
<1>2. CASE RecordsNext
  BY <1>2 DEF RecordsNext, create_dataset_version, transition_version, update_dataset, create_saved_search,
              run_saved_search, update_saved_search, save_dataset_version, save_dataset, save_saved_search,
              delete_saved_search
<1>3. CASE UNCHANGED catalogueVars
  BY <1>3 DEF catalogueVars
<1>. QED BY <1>1, <1>2, <1>3

\* However any number of processes of different releases synchronise, operators
\* move versions and editors write what they read before: one pipeline version is
\* active, a retired one stays so, a deleted search stays deleted, names are
\* unique, and what is published has assets and a score.
THEOREM CatalogueGoverned == CatalogueSpec => CatalogueLifecycle
<1>. DEFINE Step ==
       /\ CatalogueTypeOK'
       /\ Cardinality({v \in Versions : pipelines'[v].status = "active"}) <= 1
       /\ \A v \in Versions : pipelines[v] # pipelines'[v] /\ pipelines[v] # NoVersion =>
              \/ pipelines'[v].status \in pipeline_allowed[pipelines[v].status]
              \/ /\ pipelines'[v].status = pipelines[v].status
                 /\ \E h \in Hosts : v \in DOMAIN Installed[h] /\ Installed[h][v].status = "active"
                                     /\ pipelines'[v].digest = Installed[h][v].digest
       /\ \A s \in Searches : s \in gone => saved'[s] = NoSearch
       /\ \A s, t \in Searches : saved'[s] # NoSearch /\ saved'[s].name = saved'[t].name => s = t
       /\ \A d \in DOMAIN DatasetItems : datasetVersions'[d] = "published" => Publishable(d)
<1>1. CatalogueInv /\ [PipelineNext \/ RecordsNext]_catalogueVars => Step
  <2>. SUFFICES ASSUME CatalogueInv, [PipelineNext \/ RecordsNext]_catalogueVars PROVE Step
    OBVIOUS
  <2>1. CatalogueInv' /\ VersionMoves /\ gone \subseteq gone'
    BY CatalogueStep, SearchesStayGone
  <2>2. CatalogueTypeOK'
    BY <2>1 DEF CatalogueInv, VersionsSound, DatasetsSound, SearchesSound, CatalogueTypeOK
  <2>3. PICK A : A = {v \in Versions : pipelines'[v].status = "active"}
    OBVIOUS
  <2>4. A = {} \/ \E v \in Versions : A = {v}
    BY <2>1, <2>3 DEF CatalogueInv, VersionsSound
  <2>5. Cardinality(A) <= 1
    <3>1. CASE A = {}
      BY <3>1, FS_EmptySet
    <3>2. ASSUME NEW v \in Versions, A = {v} PROVE Cardinality(A) <= 1
      BY <3>2, FS_Singleton
    <3>. QED BY <2>4, <3>1, <3>2
  <2>6. /\ \A s \in Searches : s \in gone => saved'[s] = NoSearch
        /\ \A s, t \in Searches : saved'[s] # NoSearch /\ saved'[s].name = saved'[t].name => s = t
    BY <2>1 DEF CatalogueInv, SearchesSound
  <2>7. \A d \in DOMAIN DatasetItems : datasetVersions'[d] = "published" => Publishable(d)
    BY <2>1 DEF CatalogueInv, DatasetsSound, Publishable
  <2>. QED BY <2>1, <2>2, <2>3, <2>5, <2>6, <2>7 DEF VersionMoves
<1>2. CatalogueInv /\ [PipelineNext \/ RecordsNext]_catalogueVars => CatalogueInv'
  BY CatalogueStep
<1>3. CatalogueSpec => []CatalogueInv
  BY <1>2, CatalogueInitInv, PTL DEF CatalogueSpec
<1>. QED BY <1>1, <1>3, PTL DEF CatalogueSpec, CatalogueLifecycle
=============================================================================
