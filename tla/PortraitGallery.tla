-------------------------- MODULE PortraitGallery --------------------------
(***************************************************************************)
(* The gallery of known people: identities and enrolments in the portrait  *)
(* repository, their face vectors in the feature store and again in the    *)
(* vector index.  An enrolment and a deletion are several calls to three   *)
(* stores, without a transaction over them; a server restart abandons what *)
(* is under way.  The feature store is in memory, in Postgres or in        *)
(* Qdrant, where a feature space is a collection whose contract is a point *)
(* of it, found again through a cache in the process.                      *)
(***************************************************************************)
EXTENDS Naturals, FiniteSets

CONSTANTS Subjects, Faces,       \* Faces: the enrolment requests
          FeatureStores, GalleryClock, MaxRestarts

\* FeatureSpace.dimension is positive; expires_at is 0 for a face that never expires.
ASSUME GalleryAssumption ==
    \A e \in DOMAIN Faces : /\ Faces[e].identity \in Subjects /\ Faces[e].expires_at \in Nat
                            /\ Faces[e].contract.dimension \in Nat \ {0}

VARIABLES featureStore,          \* "memory", "postgres" or "qdrant"
          people,                \* of each identity: "new", "exists" or "gone"
          spaces,                \* the contract of each feature space
          collections,           \* Qdrant: spaces that have a collection
          cached,                \* Qdrant: spaces whose contract the server has read
          features,              \* requests whose vector is in the feature store
          faceIndexes,           \* the definition of each space's index
          entries,               \* the index record of each request: "none", "ready", "deleted"
          enrolments,            \* requests stored in the repository
          enrolling, removing, seeking, sweeping,     \* the tasks under way
          galleryTime, restarts,
          attempted, raced, blind                     \* history, see below
galleryVars == <<featureStore, people, spaces, collections, cached, features, faceIndexes, entries,
                 enrolments, enrolling, removing, seeking, sweeping, galleryTime, restarts,
                 attempted, raced, blind>>

Requests == DOMAIN Faces
FeatureSpaces == {Faces[e].space : e \in Requests}
NoContract == [dimension |-> 0, model |-> "none", threshold |-> "none"]
Contract(e) == Faces[e].contract
Subject(e) == Faces[e].identity
OfSubject(i) == {e \in Requests : Subject(e) = i}
Expired(e) == Faces[e].expires_at > 0 /\ Faces[e].expires_at <= galleryTime

EnrolStep(at, then) == [at |-> at, then |-> then]
NotEnrolling == EnrolStep("idle", "none")
Under_way(e) == enrolling[e].at \notin {"idle", "done", "failed"}
NoSearch == [at |-> "idle", mode |-> "none", found |-> {}, result |-> {}, gone |-> {}, started |-> 0]
stores == <<featureStore, people, spaces, collections, cached, features, faceIndexes, entries, enrolments>>

At(e, step) == enrolling' = [enrolling EXCEPT ![e].at = step]
------------------------------------------------------------------------------
create_identity(i) ==
    /\ people[i] = "new"
    /\ people' = [people EXCEPT ![i] = "exists"]
    /\ UNCHANGED <<featureStore, spaces, collections, cached, features, faceIndexes, entries,
                   enrolments, enrolling, removing, seeking, sweeping, galleryTime, restarts,
                   attempted, raced, blind>>

\* enroll and enroll_image read the identity first; an image is then encoded.
StartEnrolment(e) ==
    /\ enrolling[e] = NotEnrolling
    /\ IF people[Subject(e)] = "exists"
       THEN At(e, IF Faces[e].image THEN "encode" ELSE "space")
       ELSE At(e, "failed")
    /\ raced' = IF removing[Subject(e)].at # "idle" THEN raced \cup {e} ELSE raced
    /\ UNCHANGED <<stores, removing, seeking, sweeping, galleryTime, restarts, attempted, blind>>

\* _validate_encoding_contract.
Encodes(e, contract) ==
    contract.dimension = Contract(e).dimension /\ contract.model = Contract(e).model

\* An existing space must have the encoder's model; one asked for by name must exist.
enroll_image(e) ==
    /\ enrolling[e].at = "encode"
    /\ LET known == spaces[Faces[e].space]
       IN IF IF known = NoContract THEN ~Faces[e].named ELSE Encodes(e, known)
          THEN At(e, "ensure")
          ELSE At(e, "failed")
    /\ UNCHANGED <<stores, removing, seeking, sweeping, galleryTime, restarts, attempted, raced, blind>>

\* After _ensure_space, enroll reads the identity again.
EnrolAgain(e) ==
    /\ enrolling[e].at = "again"
    /\ At(e, IF people[Subject(e)] = "exists" THEN "space" ELSE "failed")
    /\ UNCHANGED <<stores, removing, seeking, sweeping, galleryTime, restarts, attempted, raced, blind>>

\* Postgres keeps one space per domain, modality, model, dimension and metric.
Duplicate(e) ==
    \E s \in FeatureSpaces \ {Faces[e].space} : spaces[s] # NoContract /\ Encodes(e, spaces[s])

AfterSpace(step) == IF step = "ensure" THEN "again" ELSE "feature"

\* A space that exists must have the same contract, whoever made it.
SameContract(e) ==
    /\ spaces[Faces[e].space] # NoContract
    /\ At(e, IF spaces[Faces[e].space] = Contract(e) THEN AfterSpace(enrolling[e].at) ELSE "failed")
    /\ UNCHANGED <<spaces, collections>>

\* In memory a space is an entry of a dictionary.
MemorySpace(e) ==
    /\ featureStore = "memory"
    /\ \/ SameContract(e)
       \/ /\ spaces[Faces[e].space] = NoContract
          /\ At(e, AfterSpace(enrolling[e].at))
          /\ spaces' = [spaces EXCEPT ![Faces[e].space] = Contract(e)]
          /\ UNCHANGED collections
    /\ UNCHANGED cached

\* In Postgres it is a row; ON CONFLICT only covers its id.
PostgresSpace(e) ==
    /\ featureStore = "postgres"
    /\ \/ SameContract(e)
       \/ /\ spaces[Faces[e].space] = NoContract
          /\ IF Duplicate(e)
             THEN At(e, "failed") /\ UNCHANGED spaces
             ELSE At(e, AfterSpace(enrolling[e].at)) /\ spaces' = [spaces EXCEPT ![Faces[e].space] = Contract(e)]
          /\ UNCHANGED collections
    /\ UNCHANGED cached

\* get_space remembers a contract it has found in Qdrant.
Remember(s) == cached' = IF featureStore = "qdrant" THEN cached \cup {s} ELSE cached

\* In Qdrant it is a collection: one that exists without a contract is an error.
QdrantSpace(e) ==
    /\ featureStore = "qdrant"
    /\ \/ SameContract(e) /\ Remember(Faces[e].space)
       \/ /\ spaces[Faces[e].space] = NoContract
          /\ IF Faces[e].space \in collections
             THEN At(e, "failed") /\ UNCHANGED collections
             ELSE /\ enrolling' = [enrolling EXCEPT ![e] = EnrolStep("contract", AfterSpace(enrolling[e].at))]
                  /\ collections' = collections \cup {Faces[e].space}
          /\ UNCHANGED <<spaces, cached>>

_ensure_space(e) ==
    /\ enrolling[e].at \in {"ensure", "space"}
    /\ MemorySpace(e) \/ PostgresSpace(e) \/ QdrantSpace(e)
    /\ UNCHANGED <<featureStore, people, features, faceIndexes, entries, enrolments, removing,
                   seeking, sweeping, galleryTime, restarts, attempted, raced, blind>>

\* Qdrant: the contract is a point written after the collection.
WriteContract(e) ==
    /\ enrolling[e].at = "contract"
    /\ spaces' = [spaces EXCEPT ![Faces[e].space] = Contract(e)]
    /\ cached' = cached \cup {Faces[e].space}
    /\ enrolling' = [enrolling EXCEPT ![e] = EnrolStep(enrolling[e].then, "none")]
    /\ UNCHANGED <<featureStore, people, collections, features, faceIndexes, entries, enrolments,
                   removing, seeking, sweeping, galleryTime, restarts, attempted, raced, blind>>

\* The vector enters the feature store.
add(e) ==
    /\ enrolling[e].at = "feature"
    /\ features' = features \cup {e}
    /\ At(e, "index")
    /\ UNCHANGED <<featureStore, people, spaces, collections, cached, faceIndexes, entries, enrolments,
                   removing, seeking, sweeping, galleryTime, restarts, attempted, raced, blind>>

\* _index_enrollment: the index's definition, which must agree, then its record.
create_index(e) ==
    /\ enrolling[e].at = "index"
    /\ LET s == Faces[e].space
       IN IF faceIndexes[s] \in {NoContract, [Contract(e) EXCEPT !.threshold = "0.8"]}
          THEN /\ faceIndexes' = [faceIndexes EXCEPT ![s] = [Contract(e) EXCEPT !.threshold = "0.8"]]
               /\ At(e, "record")
          ELSE At(e, "failed") /\ UNCHANGED faceIndexes
    /\ UNCHANGED <<featureStore, people, spaces, collections, cached, features, entries, enrolments,
                   removing, seeking, sweeping, galleryTime, restarts, attempted, raced, blind>>

_index_enrollment(e) ==
    /\ enrolling[e].at = "record"
    /\ entries' = [entries EXCEPT ![e] = "ready"]
    /\ At(e, "enrol")
    /\ UNCHANGED <<featureStore, people, spaces, collections, cached, features, faceIndexes, enrolments,
                   removing, seeking, sweeping, galleryTime, restarts, attempted, raced, blind>>

\* Mutant.
Storable_Unchecked(e) == TRUE

\* The row references its identity and a row of scenara_features, which Qdrant has not.
Storable(e) ==
    \/ featureStore = "memory"
    \/ featureStore = "postgres" /\ people[Subject(e)] = "exists" /\ e \in features

create_enrollment(e) ==
    /\ enrolling[e].at = "enrol"
    /\ IF Storable(e)
       THEN enrolments' = enrolments \cup {e} /\ At(e, "done")
       ELSE At(e, "failed") /\ UNCHANGED enrolments
    /\ UNCHANGED <<featureStore, people, spaces, collections, cached, features, faceIndexes, entries,
                   removing, seeking, sweeping, galleryTime, restarts, attempted, raced, blind>>
------------------------------------------------------------------------------
NotRemoving == [at |-> "idle", found |-> {}]

\* delete_identity reads the identity and audits before anything is deleted.
StartRemoval(i) ==
    /\ removing[i] = NotRemoving /\ people[i] = "exists"
    /\ removing' = [removing EXCEPT ![i].at = "features"]
    /\ attempted' = attempted \cup {i}
    /\ raced' = raced \cup {e \in OfSubject(i) : Under_way(e)}
    /\ UNCHANGED <<stores, enrolling, seeking, sweeping, galleryTime, restarts, blind>>

\* Deleting a feature takes its enrolment along in Postgres.
Without(gone) ==
    /\ features' = features \ gone
    /\ enrolments' = IF featureStore = "postgres" THEN enrolments \ gone ELSE enrolments

delete_subject(i) ==
    /\ removing[i].at = "features" /\ featureStore # "qdrant"
    /\ Without(OfSubject(i))
    /\ removing' = [removing EXCEPT ![i].at = "index"]
    /\ UNCHANGED <<featureStore, people, spaces, collections, cached, faceIndexes, entries, enrolling,
                   seeking, sweeping, galleryTime, restarts, attempted, raced, blind>>

\* Qdrant: the spaces of the collections listed, or only those the process knows when
\* the listing fails.
_all_spaces(listed) == IF listed THEN {s \in FeatureSpaces : spaces[s] # NoContract} ELSE cached

\* The vectors are looked for in every space that is seen.
_scroll_ids(i) ==
    /\ removing[i].at = "features" /\ featureStore = "qdrant"
    /\ \E listed \in BOOLEAN :
          LET seen == _all_spaces(listed)
          IN /\ removing' = [removing EXCEPT ![i] =
                   [at |-> "points", found |-> {e \in features : Subject(e) = i /\ Faces[e].space \in seen}]]
             /\ cached' = cached \cup seen
             /\ blind' = IF listed THEN blind ELSE blind \cup {i}
    /\ UNCHANGED <<featureStore, people, spaces, collections, features, faceIndexes, entries, enrolments,
                   enrolling, seeking, sweeping, galleryTime, restarts, attempted, raced>>

_delete_ids(i) ==
    /\ removing[i].at = "points"
    /\ Without(removing[i].found)
    /\ removing' = [removing EXCEPT ![i] = [at |-> "index", found |-> {}]]
    /\ UNCHANGED <<featureStore, people, spaces, collections, cached, faceIndexes, entries, enrolling,
                   seeking, sweeping, galleryTime, restarts, attempted, raced, blind>>

\* The index records are only marked deleted: row and vector stay.
delete_source(i) ==
    /\ removing[i].at = "index"
    /\ entries' = [e \in Requests |-> IF e \in OfSubject(i) /\ entries[e] = "ready" THEN "deleted" ELSE entries[e]]
    /\ removing' = [removing EXCEPT ![i].at = "row"]
    /\ UNCHANGED <<featureStore, people, spaces, collections, cached, features, faceIndexes, enrolments,
                   enrolling, seeking, sweeping, galleryTime, restarts, attempted, raced, blind>>

\* The row and its enrolments go last.
delete_identity(i) ==
    /\ removing[i].at = "row"
    /\ people' = [people EXCEPT ![i] = "gone"]
    /\ enrolments' = enrolments \ OfSubject(i)
    /\ removing' = [removing EXCEPT ![i] = NotRemoving]
    /\ UNCHANGED <<featureStore, spaces, collections, cached, features, faceIndexes, entries, enrolling,
                   seeking, sweeping, galleryTime, restarts, attempted, raced, blind>>
------------------------------------------------------------------------------
Searchable(s) == {e \in features : Faces[e].space = s /\ ~Expired(e)}

\* search looks at the vectors of a space that have not expired.
search(s) ==
    /\ seeking = NoSearch /\ spaces[s] # NoContract
    /\ seeking' = [at |-> "resolve", mode |-> "vector", result |-> {}, started |-> galleryTime,
                   found |-> Searchable(s),
                   gone |-> {i \in Subjects : people[i] = "gone"}]
    /\ Remember(s)
    /\ UNCHANGED <<featureStore, people, spaces, collections, features, faceIndexes, entries, enrolments,
                   enrolling, removing, sweeping, galleryTime, restarts, attempted, raced, blind>>

\* search_image looks at the index records that are not deleted, expired or not.
search_image(s) ==
    /\ seeking = NoSearch /\ spaces[s] # NoContract /\ faceIndexes[s] # NoContract
    /\ seeking' = [at |-> "resolve", mode |-> "image", result |-> {}, started |-> galleryTime,
                   found |-> {e \in Requests : Faces[e].space = s /\ entries[e] = "ready"},
                   gone |-> {i \in Subjects : people[i] = "gone"}]
    /\ Remember(s)
    /\ UNCHANGED <<featureStore, people, spaces, collections, features, faceIndexes, entries, enrolments,
                   enrolling, removing, sweeping, galleryTime, restarts, attempted, raced, blind>>

\* A match counts when its enrolment and its identity are still there.
_resolve_match(e) ==
    /\ seeking.at = "resolve" /\ e \in seeking.found
    /\ seeking' = [seeking EXCEPT !.found = @ \ {e},
                                  !.result = IF e \in enrolments /\ people[Subject(e)] = "exists"
                                             THEN @ \cup {e} ELSE @]
    /\ UNCHANGED <<stores, enrolling, removing, sweeping, galleryTime, restarts, attempted, raced, blind>>

SearchAnswered ==
    /\ seeking.at = "resolve" /\ seeking.found = {}
    /\ seeking' = NoSearch
    /\ UNCHANGED <<stores, enrolling, removing, sweeping, galleryTime, restarts, attempted, raced, blind>>

\* delete_expired: the vectors a sweep finds.
ExpiredSeen(listed) ==
    {e \in Requests : Expired(e) /\ (featureStore = "qdrant" => Faces[e].space \in _all_spaces(listed))}

\* _run_governance: expired vectors first, then expired index records.
_run_governance ==
    /\ \E e \in Requests : Expired(e)
    /\ \/ /\ sweeping = "features"
          /\ \E listed \in BOOLEAN : Without(ExpiredSeen(listed))
          /\ UNCHANGED entries
       \/ /\ sweeping = "indexes"
          /\ entries' = [e \in Requests |-> IF Expired(e) /\ entries[e] = "ready" THEN "deleted" ELSE entries[e]]
          /\ UNCHANGED <<features, enrolments>>
    /\ sweeping' = IF sweeping = "features" THEN "indexes" ELSE "features"
    /\ UNCHANGED <<featureStore, people, spaces, collections, cached, faceIndexes, enrolling, removing,
                   seeking, galleryTime, restarts, attempted, raced, blind>>

GalleryTick ==
    /\ galleryTime < GalleryClock
    /\ galleryTime' = galleryTime + 1
    /\ UNCHANGED <<stores, enrolling, removing, seeking, sweeping, restarts, attempted, raced, blind>>

\* The server goes down: every task is abandoned where it is, and its cache is lost.
Restart ==
    /\ restarts < MaxRestarts /\ featureStore # "memory"
    /\ restarts' = restarts + 1
    /\ enrolling' = [e \in Requests |-> IF Under_way(e) THEN EnrolStep("failed", "none") ELSE enrolling[e]]
    /\ removing' = [i \in Subjects |-> NotRemoving]
    /\ seeking' = NoSearch /\ cached' = {}
    /\ UNCHANGED <<featureStore, people, spaces, collections, features, faceIndexes, entries, enrolments,
                   sweeping, galleryTime, attempted, raced, blind>>
------------------------------------------------------------------------------
GalleryInit ==
    /\ featureStore \in FeatureStores
    /\ people = [i \in Subjects |-> "new"]
    /\ spaces = [s \in FeatureSpaces |-> NoContract] /\ faceIndexes = spaces
    /\ collections = {} /\ cached = {} /\ features = {} /\ enrolments = {}
    /\ entries = [e \in Requests |-> "none"]
    /\ enrolling = [e \in Requests |-> NotEnrolling]
    /\ removing = [i \in Subjects |-> NotRemoving]
    /\ seeking = NoSearch /\ sweeping = "features"
    /\ galleryTime = 0 /\ restarts = 0
    /\ attempted = {} /\ raced = {} /\ blind = {}

GalleryNext ==
    \/ \E i \in Subjects : \/ create_identity(i) \/ StartRemoval(i) \/ delete_subject(i) \/ _scroll_ids(i)
                          \/ _delete_ids(i) \/ delete_source(i) \/ delete_identity(i)
    \/ \E e \in Requests : \/ StartEnrolment(e) \/ enroll_image(e) \/ EnrolAgain(e) \/ _ensure_space(e)
                           \/ WriteContract(e) \/ add(e) \/ create_index(e) \/ _index_enrollment(e)
                           \/ create_enrollment(e) \/ _resolve_match(e)
    \/ \E s \in FeatureSpaces : search(s) \/ search_image(s)
    \/ SearchAnswered \/ _run_governance \/ GalleryTick \/ Restart

GallerySpec == GalleryInit /\ [][GalleryNext]_galleryVars

\* The three stores agree as far as calls without a common transaction allow.  A vector
\* of a deleted person is left searchable only by an enrolment that ran beside the
\* deletion, or by Qdrant failing to list its collections while it deleted.  An
\* enrolment in the repository has its vector and its index record until it expires or
\* its person is deleted, and in Postgres never outlives either.  Vectors of one space
\* come from one model whoever creates the space first and wherever it stops.  And a
\* search that starts after a deletion never names that person, nor an expired vector.
GallerySound ==
    /\ \A e \in Requests : people[Subject(e)] = "gone" =>
          /\ e \in features => e \in raced \/ Subject(e) \in blind
          /\ entries[e] = "ready" => e \in raced
    /\ \A e \in enrolments :
          /\ Subject(e) \notin attempted =>
                (e \in features \/ Expired(e)) /\ (entries[e] = "ready" \/ Expired(e))
          /\ featureStore = "postgres" => people[Subject(e)] = "exists" /\ e \in features
          /\ people[Subject(e)] = "gone" => e \in raced
    /\ \A e \in features : Encodes(e, spaces[Faces[e].space])
    /\ \A e \in seeking.result :
          /\ Subject(e) \notin seeking.gone
          /\ seeking.mode = "vector" => Faces[e].expires_at = 0 \/ Faces[e].expires_at > seeking.started
==============================================================================
