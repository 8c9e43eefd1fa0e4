---------------------------- MODULE MemorySearch ----------------------------
(***************************************************************************)
(* The search of memory/store.py over its three caches: the results and    *)
(* the vector hits in the memory of each process, the results in Redis.    *)
(* A write clears them when its rows are committed, but a search may be    *)
(* under way, and another process keeps what it has.  One note is          *)
(* followed, in one query; its content is a version number.                *)
(***************************************************************************)
EXTENDS Integers

CONSTANTS
    Searchers,     \* processes, each with one MemoryStore, one search and one write at a time
    Recorders,     \* those of them that write
    CacheTtl,      \* _retrieval_cache_ttl, _vector_cache_ttl and ex=30 of Redis
    Slow,          \* what a search takes at most
    MaxWrites      \* bound: versions of the note

ASSUME SearchAssumption ==
    /\ Recorders \subseteq Searchers
    /\ CacheTtl \in Nat \ {0}
    /\ Slow \in Nat
    /\ MaxWrites \in Nat

VARIABLES
    indexed,       \* the version in the committed rows of SQLite
    begun,         \* versions that a write has put into its transaction
    sidecar,       \* the version in pgvector
    results,       \* _retrieval_cache of each process
    hits,          \* _vector_cache of each process
    shared,        \* the results in Redis
    search,        \* the search of each process
    writing,       \* the write of each process: its next step and its version
    outdatedFor    \* history: how long a version has been in neither index

searchVars == <<indexed, begun, sidecar, results, hits, shared, search, writing, outdatedFor>>

Versions == 0 .. MaxWrites

Nothing == [version |-> -1, age |-> 0]

Fresh(v) == [version |-> v, age |-> 0]

NoWrite == [step |-> "idle", version |-> 0]

NoSearch == [pc |-> "idle", text |-> -1, vector |-> -1, took |-> 0]

(* A chain of three caches, each filled at the last moment by a search that is *)
(* as slow as can be.                                                          *)
Staleness == 3 * (CacheTtl + Slow)

SearchInit ==
    /\ indexed = 0
    /\ begun = 0
    /\ sidecar = 0
    /\ results = [p \in Searchers |-> Nothing]
    /\ hits = [p \in Searchers |-> Nothing]
    /\ shared = Nothing
    /\ search = [p \in Searchers |-> NoSearch]
    /\ writing = [p \in Searchers |-> NoWrite]
    /\ outdatedFor = [v \in Versions |-> 0]

-----------------------------------------------------------------------------
SearchAt(p, pc) == search[p].pc = pc

Goes(p, pc) == search' = [search EXCEPT ![p].pc = pc]

(* The search returns what it has found. *)
Returns(p) == search' = [search EXCEPT ![p] = NoSearch]

(* _cache_get and the answer of Redis: there, and not too old. *)
Hit(entry) == entry.version # -1 /\ entry.age <= CacheTtl

(* A bug: a hit makes the entry young again. *)
AfterHitRenewed(entry) == Fresh(entry.version)

(* A hit leaves the entry as it is. *)
AfterHit(entry) == entry

(* The results of this process, which end the search. *)
LookResults(p) ==
    /\ SearchAt(p, "idle")
    /\ IF Hit(results[p])
       THEN /\ Returns(p)
            /\ results' = [results EXCEPT ![p] = AfterHit(@)]
       ELSE /\ Goes(p, "redis")
            /\ UNCHANGED results
    /\ UNCHANGED <<indexed, begun, sidecar, hits, shared, writing, outdatedFor>>

(* GET: a hit is copied to the results of this process. *)
LookShared(p) ==
    /\ SearchAt(p, "redis")
    /\ Hit(shared)
    /\ search' = [search EXCEPT ![p].pc = "copy", ![p].vector = shared.version]
    /\ UNCHANGED <<indexed, begun, sidecar, results, hits, shared, writing, outdatedFor>>

(* Nothing there, or no Redis. *)
MissShared(p) ==
    /\ SearchAt(p, "redis")
    /\ Goes(p, "text")
    /\ UNCHANGED <<indexed, begun, sidecar, results, hits, shared, writing, outdatedFor>>

Copy(p) ==
    /\ SearchAt(p, "copy")
    /\ results' = [results EXCEPT ![p] = Fresh(search[p].vector)]
    /\ Returns(p)
    /\ UNCHANGED <<indexed, begun, sidecar, hits, shared, writing, outdatedFor>>

(* The rows as the connection of p reads them: a write of p that has failed leaves *)
(* its rows in the transaction, without the lock, until it takes them back.        *)
View(p) == IF writing[p].step = "failed" THEN writing[p].version ELSE indexed

(* _search_bm25_raw *)
ReadText(p) ==
    /\ SearchAt(p, "text")
    /\ search' = [search EXCEPT ![p].pc = "hits", ![p].text = View(p)]
    /\ UNCHANGED <<indexed, begun, sidecar, results, hits, shared, writing, outdatedFor>>

(* vector_search: its own cache, *)
LookHits(p) ==
    /\ SearchAt(p, "hits")
    /\ IF Hit(hits[p])
       THEN /\ search' = [search EXCEPT ![p].pc = "merge", ![p].vector = hits[p].version]
            /\ hits' = [hits EXCEPT ![p] = AfterHit(@)]
       ELSE /\ Goes(p, "vectors")
            /\ UNCHANGED hits
    /\ UNCHANGED <<indexed, begun, sidecar, results, shared, writing, outdatedFor>>

(* the sidecar if it answers with the note, else the rows, *)
ReadVectors(p) ==
    /\ SearchAt(p, "vectors")
    /\ \E v \in {View(p), sidecar} :
          search' = [search EXCEPT ![p].pc = "keep", ![p].vector = v]
    /\ UNCHANGED <<indexed, begun, sidecar, results, hits, shared, writing, outdatedFor>>

KeepHits(p) ==
    /\ SearchAt(p, "keep")
    /\ hits' = [hits EXCEPT ![p] = Fresh(search[p].vector)]
    /\ Goes(p, "merge")
    /\ UNCHANGED <<indexed, begun, sidecar, results, shared, writing, outdatedFor>>

(* or nothing at all: then the text hits are kept in this process only. *)
WithoutVectors(p) ==
    /\ SearchAt(p, "vectors")
    /\ results' = [results EXCEPT ![p] = Fresh(search[p].text)]
    /\ Returns(p)
    /\ UNCHANGED <<indexed, begun, sidecar, hits, shared, writing, outdatedFor>>

(* The note as the vector hits have it, where it is one of them. *)
Merge(p) ==
    /\ SearchAt(p, "merge")
    /\ \E v \in {search[p].text, search[p].vector} :
          /\ results' = [results EXCEPT ![p] = Fresh(v)]
          /\ search' = [search EXCEPT ![p].pc = "share", ![p].text = -1, ![p].vector = v]
    /\ UNCHANGED <<indexed, begun, sidecar, hits, shared, writing, outdatedFor>>

(* SET EX, whose failure is swallowed. *)
Share(p) ==
    /\ SearchAt(p, "share")
    /\ shared' \in {Fresh(search[p].vector), shared}
    /\ Returns(p)
    /\ UNCHANGED <<indexed, begun, sidecar, results, hits, writing, outdatedFor>>

-----------------------------------------------------------------------------
WriteAt(p, step) == writing[p].step = step

WriteGoes(p, step) == writing' = [writing EXCEPT ![p].step = step]

WriteEnds(p) == writing' = [writing EXCEPT ![p] = NoWrite]

Begins(p, step) ==
    /\ WriteAt(p, "idle")
    /\ begun < MaxWrites
    /\ begun' = begun + 1
    /\ writing' = [writing EXCEPT ![p] = [step |-> step, version |-> begun + 1]]

CommitRows(p) ==
    /\ Begins(p, "sidecar")
    /\ indexed' = begun + 1
    /\ UNCHANGED <<sidecar, results, hits, shared, search, outdatedFor>>

(* The INSERT or the commit fails, and the lock is released. *)
RowsFail(p) ==
    /\ Begins(p, "failed")
    /\ UNCHANGED <<indexed, sidecar, results, hits, shared, search, outdatedFor>>

RollBackRows(p) ==
    /\ WriteAt(p, "failed")
    /\ WriteEnds(p)
    /\ UNCHANGED <<indexed, begun, sidecar, results, hits, shared, search, outdatedFor>>

(* _pgvector_upsert, whose failure is swallowed: it may come after that of a *)
(* later write.                                                              *)
Upsert(p) ==
    /\ WriteAt(p, "sidecar")
    /\ sidecar' \in {sidecar, writing[p].version}
    /\ outdatedFor' = [outdatedFor EXCEPT ![sidecar'] = 0]
    /\ writing' = [writing EXCEPT ![p] = [step |-> "clear", version |-> 0]]
    /\ UNCHANGED <<indexed, begun, results, hits, shared, search>>

(* clear_retrieval_cache: both caches of this process, *)
Clear(p) ==
    /\ WriteAt(p, "clear")
    /\ results' = [results EXCEPT ![p] = Nothing]
    /\ hits' = [hits EXCEPT ![p] = Nothing]
    /\ WriteGoes(p, "scan")
    /\ UNCHANGED <<indexed, begun, sidecar, shared, search, outdatedFor>>

(* SCAN: the key is found, or it is not there, or there is no Redis; *)
Scan(p) ==
    /\ WriteAt(p, "scan")
    /\ \/ Hit(shared) /\ WriteGoes(p, "delete")
       \/ WriteEnds(p)
    /\ UNCHANGED <<indexed, begun, sidecar, results, hits, shared, search, outdatedFor>>

(* DELETE of the key that was found. *)
DeleteShared(p) ==
    /\ WriteAt(p, "delete")
    /\ shared' \in {Nothing, shared}
    /\ WriteEnds(p)
    /\ UNCHANGED <<indexed, begun, sidecar, results, hits, search, outdatedFor>>

(* _cache_set keeps 256 entries: other queries push the oldest out; where the *)
(* hits go as well, answers are only younger.                                  *)
Evict(p) ==
    /\ Hit(results[p])
    /\ results' = [results EXCEPT ![p] = Nothing]
    /\ UNCHANGED <<indexed, begun, sidecar, hits, shared, search, writing, outdatedFor>>

-----------------------------------------------------------------------------
ToBeRead == {sidecar} \cup {View(p) : p \in Searchers} \cup {indexed}

Older(entry) ==
    IF Hit(entry) /\ entry.age < CacheTtl THEN [entry EXCEPT !.age = @ + 1] ELSE Nothing

(* Time passes: the searches under way stay within Slow. *)
SearchTick ==
    /\ \A p \in Searchers : search[p].pc # "idle" => search[p].took < Slow
    /\ search' = [p \in Searchers |->
                     IF SearchAt(p, "idle") THEN search[p]
                     ELSE [search[p] EXCEPT !.took = @ + 1]]
    /\ results' = [p \in Searchers |-> Older(results[p])]
    /\ hits' = [p \in Searchers |-> Older(hits[p])]
    /\ shared' = Older(shared)
    /\ outdatedFor' = [v \in Versions |->
                          IF v \in ToBeRead \/ v > begun THEN 0
                          ELSE IF outdatedFor[v] > Staleness THEN outdatedFor[v]
                          ELSE outdatedFor[v] + 1]
    /\ UNCHANGED <<indexed, begun, sidecar, writing>>

SearchStep(p) ==
    \/ LookResults(p)
    \/ LookShared(p)
    \/ MissShared(p)
    \/ Copy(p)
    \/ ReadText(p)
    \/ LookHits(p)
    \/ ReadVectors(p)
    \/ KeepHits(p)
    \/ WithoutVectors(p)
    \/ Merge(p)
    \/ Share(p)

WriteStep(p) ==
    \/ CommitRows(p)
    \/ RowsFail(p)
    \/ RollBackRows(p)
    \/ Upsert(p)
    \/ Clear(p)
    \/ Scan(p)
    \/ DeleteShared(p)

SearchNext ==
    \/ SearchTick
    \/ \E p \in Searchers : SearchStep(p) \/ Evict(p)
    \/ \E p \in Recorders : WriteStep(p)

SearchSpec == SearchInit /\ [][SearchNext]_searchVars

-----------------------------------------------------------------------------
(* A search may miss a note that was written before it began: its own process *)
(* may have cached the answer while the write was clearing the caches, and    *)
(* another may hand it an old one through Redis.  But what a search may answer *)
(* could be read in the rows or the sidecar no longer ago than three cache    *)
(* times and the time of three searches.                                      *)
SearchInv ==
    \A p \in Searchers :
        /\ Hit(results[p]) => outdatedFor[results[p].version] <= Staleness
        /\ search[p].pc \in {"copy", "share"} => outdatedFor[search[p].vector] <= Staleness
=============================================================================
