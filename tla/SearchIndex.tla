---------------------------- MODULE SearchIndex ----------------------------
(***************************************************************************)
(* The index of results and the searches over it.  Indexing a result       *)
(* removes the Run's records and writes the new ones in several calls; an  *)
(* asset's records and expired ones are deleted; a search reads the        *)
(* records page by page with LIMIT and OFFSET, newest first, each page in  *)
(* a transaction of its own in Postgres.                                   *)
(***************************************************************************)
EXTENDS Integers, FiniteSets

CONSTANTS Records,            \* run, asset, index, score, ... of each record, and the place of its id
          Attempts,           \* the executions of Runs: the Run and the records of its result
          IndexStores,        \* subset of {"memory", "postgres"}
          CreatedAt,          \* what the clock of a worker may show when it builds a record
          PageSize, HitLimit, FetchLimit, Cutoff, MaxSearches, IndexClock

VARIABLES indexStore,
          defined,            \* indexes that have a definition
          created,            \* created_at of each record that is not deleted
          indexing,           \* the step of each attempt
          indexedAssets,      \* of each asset: "kept", "deleting" or "deleted"
          query,              \* the search under way
          searches, indexTime,
          mixed               \* history: Runs indexed by two attempts at once, or beside a deletion
indexVars == <<indexStore, defined, created, indexing, indexedAssets, query, searches, indexTime, mixed>>

RecordIds == DOMAIN Records
IndexIds == {Records[r].index : r \in RecordIds}
IndexedAssets == {Records[r].asset : r \in RecordIds}
Ready == DOMAIN created
OfRun(run) == {r \in RecordIds : Records[r].run = run}
Stale(r) == Records[r].expires_at > 0 /\ Records[r].expires_at <= indexTime
Matches(r) == Records[r].score >= Cutoff
ResultRecords(a) == Attempts[a].records

\* A result is indexed under its own Run (source_id), and record ids are totally ordered.
ASSUME IndexAssumption ==
    /\ IsFiniteSet(RecordIds)
    /\ \A r \in RecordIds : /\ Records[r].score \in Int /\ Records[r].place \in Int
                            /\ Records[r].expires_at \in Nat /\ Records[r].vector \in BOOLEAN
    /\ \A r, s \in RecordIds : Records[r].place = Records[s].place => r = s
    /\ \A a \in DOMAIN Attempts : ResultRecords(a) \subseteq OfRun(Attempts[a].run)
    /\ CreatedAt \subseteq Int /\ PageSize \in Nat \ {0}
    /\ HitLimit \in Nat /\ FetchLimit \in Nat /\ HitLimit <= FetchLimit

NoQuery == [at |-> "idle", index |-> "none", media |-> "any", rows |-> {}, offset |-> 0,
            steady |-> {}, shifted |-> FALSE, hits |-> {}]
Indexer(a) == indexing[a] \notin {"idle", "done"}

\* A search under way while records go: what it has not read yet moves up.
Removing(gone) ==
    /\ created' = [r \in Ready \ gone |-> created[r]]
    /\ query' = IF query.at = "idle" \/ gone \cap Ready = {} THEN query
                ELSE [query EXCEPT !.steady = @ \ gone, !.shifted = TRUE]
------------------------------------------------------------------------------
\* _index_result starts by deleting what an earlier attempt of the Run has indexed.
delete_source_run(a) ==
    /\ indexing[a] = "idle"
    /\ Removing(OfRun(Attempts[a].run))
    /\ indexing' = [indexing EXCEPT ![a] = "define"]
    /\ mixed' = IF \/ \E b \in DOMAIN Attempts \ {a} : Attempts[b].run = Attempts[a].run /\ Indexer(b)
                   \/ \E r \in ResultRecords(a) : indexedAssets[Records[r].asset] # "kept"
                THEN mixed \cup {Attempts[a].run} ELSE mixed
    /\ UNCHANGED <<indexStore, defined, indexedAssets, searches, indexTime>>

\* The text records of the result are written first, then its vectors.
Part(a) == {r \in ResultRecords(a) :
               Records[r].vector = (indexing[a] \in {"define_vectors", "write_vectors"})}

\* create_index: a definition is only ever added; the same one is accepted again.
create_result_index(a) ==
    /\ indexing[a] \in {"define", "define_vectors"}
    /\ defined' = defined \cup {Records[r].index : r \in Part(a)}
    /\ indexing' = [indexing EXCEPT ![a] = IF @ = "define" THEN "write" ELSE "write_vectors"]
    /\ UNCHANGED <<indexStore, created, indexedAssets, query, searches, indexTime, mixed>>

\* upsert_many: one transaction; a record written again gets the new created_at.
upsert_many(part, at) ==
    created' = [r \in Ready \cup part |-> IF r \in part THEN at[r] ELSE created[r]]

\* created_at was set when the records were built, by this worker's clock: an attempt
\* that overlaps another may move a record back.
_index_result(a, at) ==
    /\ indexing[a] \in {"write", "write_vectors"}
    /\ upsert_many(Part(a), at)
    /\ query' = [query EXCEPT
           !.steady = @ \ Part(a),
           !.shifted = @ \/ (query.at # "idle" /\ \E r \in Part(a) \cap Ready : at[r] < created[r])]
    /\ indexing' = [indexing EXCEPT ![a] = IF @ = "write" THEN "define_vectors" ELSE "done"]
    /\ UNCHANGED <<indexStore, defined, indexedAssets, searches, indexTime, mixed>>

\* A worker dies or the store fails: the attempt stops where it is.
IndexingStops(a) ==
    /\ Indexer(a)
    /\ indexing' = [indexing EXCEPT ![a] = "done"]
    /\ mixed' = mixed \cup {Attempts[a].run}
    /\ UNCHANGED <<indexStore, defined, created, indexedAssets, query, searches, indexTime>>
------------------------------------------------------------------------------
Uses(a, asset) == \E r \in ResultRecords(a) : Records[r].asset = asset

\* The asset goes first; its records follow in a call of their own.
StateDeletesAsset(asset) ==
    /\ indexedAssets[asset] = "kept"
    /\ indexedAssets' = [indexedAssets EXCEPT ![asset] = "deleting"]
    /\ mixed' = mixed \cup {Attempts[a].run : a \in {b \in DOMAIN Attempts : Indexer(b) /\ Uses(b, asset)}}
    /\ UNCHANGED <<indexStore, defined, created, indexing, query, searches, indexTime>>

delete_asset_records(asset) ==
    /\ indexedAssets[asset] = "deleting"
    /\ indexedAssets' = [indexedAssets EXCEPT ![asset] = "deleted"]
    /\ Removing({r \in RecordIds : Records[r].asset = asset})
    /\ UNCHANGED <<indexStore, defined, indexing, searches, indexTime, mixed>>

delete_expired_records ==
    /\ \E r \in Ready : Stale(r)
    /\ Removing({r \in RecordIds : Stale(r)})
    /\ UNCHANGED <<indexStore, defined, indexing, indexedAssets, searches, indexTime, mixed>>

IndexTick ==
    /\ indexTime < IndexClock
    /\ indexTime' = indexTime + 1
    /\ UNCHANGED <<indexStore, defined, created, indexing, indexedAssets, query, searches, mixed>>
------------------------------------------------------------------------------
\* _enrich: what the hit is a piece of, asset first, then what its position tells.
_enrich(r) ==
    IF indexedAssets[Records[r].asset] = "kept" THEN Records[r].media ELSE Records[r].position

\* Mutant.
OfIndex_Unread(index) == {r \in Ready : Records[r].index = index /\ r \notin query.rows}

\* The records of an index that are not deleted.
OfIndex(index) == {r \in Ready : Records[r].index = index}

\* ORDER BY created_at DESC, record_id DESC: how many of them come before r.
Newer(r, s) ==
    created[r] > created[s] \/ (created[r] = created[s] /\ Records[r].place > Records[s].place)
Rank(index, r) == Cardinality({s \in OfIndex(index) : Newer(s, r)})

\* list_records: one page, LIMIT PageSize OFFSET offset.
list_records(index, offset) ==
    {r \in OfIndex(index) : offset <= Rank(index, r) /\ Rank(index, r) < offset + PageSize}

\* sorted(..., key=(-score, record_id))[:n].
Ahead(r, s) ==
    Records[r].score > Records[s].score
        \/ (Records[r].score = Records[s].score /\ Records[r].place < Records[s].place)
Best(ids, n) == {r \in ids : Cardinality({x \in ids : Ahead(x, r)}) < n}

\* text and portrait_image look at the indexes that are defined when they start.
StartSearch(index, media) ==
    /\ query.at \in {"idle", "answered"} /\ searches < MaxSearches
    /\ index \in defined
    /\ searches' = searches + 1
    /\ query' = [NoQuery EXCEPT !.at = "pages", !.index = index, !.media = media,
                                !.steady = OfIndex(index)]
    /\ UNCHANGED <<indexStore, defined, created, indexing, indexedAssets, indexTime, mixed>>

\* query_text and query_vector read until a page is not full, in memory in one go.
query_pages ==
    /\ query.at = "pages"
    /\ LET page == list_records(query.index, query.offset)
           rows == query.rows \cup page
       IN query' = IF indexStore = "memory"
                   THEN [query EXCEPT !.at = "enrich", !.rows = OfIndex(query.index)]
                   ELSE IF Cardinality(page) < PageSize
                   THEN [query EXCEPT !.at = "enrich", !.rows = rows]
                   ELSE [query EXCEPT !.rows = rows, !.offset = @ + Cardinality(page)]
    /\ UNCHANGED <<indexStore, defined, created, indexing, indexedAssets, searches, indexTime, mixed>>

\* The hits are scored and cut to FetchLimit, enriched and filtered by media, sorted
\* and cut again: the filter comes after the first cut.
AnswerSearch ==
    /\ query.at = "enrich"
    /\ query' = [query EXCEPT !.at = "answered",
                    !.hits = Best({r \in Best({x \in query.rows : Matches(x)}, FetchLimit) :
                                       query.media \in {"any", _enrich(r)}}, HitLimit)]
    /\ UNCHANGED <<indexStore, defined, created, indexing, indexedAssets, searches, indexTime, mixed>>

IndexInit ==
    /\ indexStore \in IndexStores
    /\ defined = {} /\ created = [r \in {} |-> 0]
    /\ indexing = [a \in DOMAIN Attempts |-> "idle"]
    /\ indexedAssets = [x \in IndexedAssets |-> "kept"]
    /\ query = NoQuery /\ searches = 0 /\ indexTime = 0 /\ mixed = {}

IndexNext ==
    \/ \E a \in DOMAIN Attempts :
          \/ delete_source_run(a) \/ create_result_index(a) \/ IndexingStops(a)
          \/ \E at \in [Part(a) -> CreatedAt] : _index_result(a, at)
    \/ \E x \in IndexedAssets : StateDeletesAsset(x) \/ delete_asset_records(x)
    \/ delete_expired_records \/ IndexTick
    \/ \E i \in IndexIds, m \in {"any", "video"} : StartSearch(i, m)
    \/ query_pages \/ AnswerSearch

IndexSpec == IndexInit /\ [][IndexNext]_indexVars

\* A record of the media asked for, whether or not its asset is still there to ask.
Wanted(r, media) == media = "any" \/ (Records[r].media = media /\ Records[r].position = media)

LastDone(run) == {a \in DOMAIN Attempts : Attempts[a].run = run /\ indexing[a] = "done"}

\* After a Run has been indexed, once or again, by attempts that neither overlapped nor
\* stopped half-way nor ran beside the deletion of their asset, the index holds the
\* records of one of its results and no other, less those that expired or whose asset
\* was deleted.  A search misses a matching record that was there from its beginning to
\* its end only when something was deleted or moved back meanwhile, which moves up what
\* OFFSET has not reached yet, or when HitLimit hits that rank before it, by score and
\* then by id, take its place.  A search for one kind of media may also miss it because
\* FetchLimit records of any kind rank before it: that cut comes before the filter.
IndexExact ==
    /\ \A a \in DOMAIN Attempts :
          LET run == Attempts[a].run
              others == {b \in DOMAIN Attempts : Attempts[b].run = run /\ Indexer(b)}
          IN indexing[a] = "done" /\ run \notin mixed /\ others = {} =>
                \E b \in LastDone(run) :
                   /\ Ready \cap OfRun(run) \subseteq ResultRecords(b)
                   /\ \A r \in ResultRecords(b) :
                         r \in Ready \/ Stale(r) \/ indexedAssets[Records[r].asset] = "deleted"
    /\ query.at = "answered" /\ ~query.shifted =>
          \A r \in query.steady : Matches(r) /\ Wanted(r, query.media) /\ r \notin query.hits =>
             \/ Cardinality({x \in query.hits : Ahead(x, r)}) >= HitLimit
             \/ /\ query.media # "any"
                /\ Cardinality({x \in query.rows : Matches(x) /\ Ahead(x, r)}) >= FetchLimit
==============================================================================
