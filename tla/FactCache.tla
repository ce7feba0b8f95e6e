----------------------------- MODULE FactCache -----------------------------
(***************************************************************************)
(* The injectable facts (services/distilled_fact_store.py): consolidation  *)
(* replaces the facts of a topic in MongoDB call by call, a background     *)
(* thread rebuilds the in-memory snapshot every                            *)
(* DISTILLED_DEDUP_CACHE_SECONDS or when record_run pokes it, and a Holmes *)
(* thread that finds the snapshot empty computes and seeds it itself.      *)
(*                                                                         *)
(* The writer runs on the event loop, the others are threads: every call   *)
(* to MongoDB and every critical section is a step.  A fact is the number  *)
(* of its insertion, so that a larger number is newer.                     *)
(*                                                                         *)
(* External: MongoDB, which is up or down; the embedding service, which    *)
(* may fail for any text.                                                  *)
(***************************************************************************)
EXTENDS Integers, Sequences, FiniteSets

CONSTANTS
    Topics,         \* topics that are consolidated
    Texts,          \* texts of facts
    SimilarTexts,   \* pairs of texts whose cosine reaches the threshold
    HardTexts,      \* texts the embedding service may fail for
    Readers,        \* Holmes threads that ask for the facts
    MaxRuns,        \* bound of the model: consolidations
    MaxFacts        \* bound of the model: facts ever inserted

ASSUME ConstantsAssumption ==
    /\ SimilarTexts \subseteq SUBSET Texts /\ HardTexts \subseteq Texts
    /\ MaxRuns \in Nat /\ MaxFacts \in Nat

VARIABLES
    mongo,          \* MongoDB answers
    journal,        \* every fact ever inserted, in order
    live,           \* those still in collection distilled_facts
    embedded,       \* those with a vector in their document
    latest,         \* latest[k]: latest_run_id of topic k, 0 for none
    recorded,       \* history: runs that record_run made the latest
    runs,           \* the topics of the consolidations so far, in order
    writing,        \* the last of them is being written
    todo,           \* its facts that are not added yet
    poked,          \* _refresh_event
    cache,          \* _injectable_cache
    at,             \* at[p]: where thread p is
    ids,            \* ids[p]: the run ids thread p has read
    snapshot        \* snapshot[p]: the facts thread p has computed

cacheVars == <<mongo, journal, live, embedded, latest, recorded, runs, writing,
          todo, poked, cache, at, ids, snapshot>>

store == <<mongo, journal, live, embedded, latest, recorded, runs, writing,
           todo>>

(* The refresh thread and the readers. *)
Refresher == "refresher"
Threads == Readers \cup {Refresher}

Fact == DOMAIN journal

CacheTypeOK ==
    /\ mongo \in BOOLEAN /\ poked \in BOOLEAN
    /\ journal \in Seq([text : Texts, run : 1 .. Len(runs)])
    /\ live \subseteq Fact /\ embedded \subseteq Fact /\ cache \subseteq Fact
    /\ runs \in Seq(Topics) /\ writing \in BOOLEAN /\ todo \subseteq Texts
    /\ latest \in [Topics -> 0 .. Len(runs)] /\ recorded \subseteq 1 .. Len(runs)
    /\ at \in [Threads -> {"idle", "facts", "publish"}]
    /\ ids \in [Threads -> SUBSET (1 .. Len(runs))]
    /\ snapshot \in [Threads -> SUBSET Fact]
    /\ \A f, g \in live : journal[f].text = journal[g].text => f = g

(* start_background_refresh: the thread begins with a refresh, as if poked. *)
CacheInit ==
    /\ mongo = TRUE
    /\ journal = <<>> /\ live = {} /\ embedded = {}
    /\ latest = [k \in Topics |-> 0]
    /\ recorded = {} /\ runs = <<>>
    /\ writing = FALSE /\ todo = {}
    /\ poked = TRUE
    /\ cache = {}
    /\ at = [p \in Threads |-> "idle"]
    /\ ids = [p \in Threads |-> {}]
    /\ snapshot = [p \in Threads |-> {}]

----------------------------------------------------------------------------
(* Operators named Wrong... are deliberately wrong variants of the one     *)
(* that follows, used to show that the properties notice them.             *)

(* f, with a vector, is close to one of these kept facts.                  *)
NearDuplicate(f, kept, V) ==
    f \in V /\ \E g \in kept \cap V :
        {journal[f].text, journal[g].text} \in SimilarTexts

(* _dedup_facts_by_cosine: from the newest fact of F to the oldest, a fact *)
(* is kept unless it is close to a newer one that is kept; V: the facts    *)
(* with a vector.                                                          *)
Dedup(F, V) ==
    CHOOSE kept \in SUBSET F :
        \A f \in F :
            f \in kept <=> ~NearDuplicate(f, {g \in kept : g > f}, V)

(* What deduplicating F can give: missing vectors are computed, all, some  *)
(* or none of them; without any the facts are returned as they are.        *)
DedupOutcomes(F) ==
    LET missing == F \ embedded
    IN IF missing = {} THEN {Dedup(F, F)}
       ELSE {F} \cup {Dedup(F, (F \cap embedded) \cup S) :
                          S \in SUBSET missing \ {{}}}

Injectable(runIds) == {f \in live : journal[f].run \in runIds}

LatestRuns == {latest[k] : k \in Topics} \ {0}

----------------------------------------------------------------------------
(* The writer: ConsolidatorService calls retire_topic_facts, add for every *)
(* fact, and record_run.  A call that fails is logged and passed over.     *)

Retire(k, S) ==
    /\ ~writing /\ Len(runs) < MaxRuns
    /\ runs' = Append(runs, k)
    /\ writing' = TRUE /\ todo' = S
    /\ live' = IF mongo THEN {f \in live : runs[journal[f].run] # k} ELSE live
    /\ UNCHANGED <<mongo, journal, embedded, latest, recorded, poked, cache,
                   at, ids, snapshot>>

(* The unique index on text: it is stored already, for whichever topic.    *)
Taken(t) == \E f \in live : journal[f].text = t

(* add: the text is unique in the collection; the vector may be missing.   *)
Add(t) ==
    /\ t \in todo
    /\ todo' = todo \ {t}
    /\ IF /\ mongo
          /\ ~Taken(t)
          /\ Len(journal) < MaxFacts
       THEN /\ journal' = Append(journal, [text |-> t, run |-> Len(runs)])
            /\ live' = live \cup {Len(journal) + 1}
            /\ \/ embedded' = embedded \cup {Len(journal) + 1}
               \/ t \in HardTexts /\ UNCHANGED embedded
       ELSE UNCHANGED <<journal, live, embedded>>
    /\ UNCHANGED <<mongo, latest, recorded, runs, writing, poked, cache, at, ids,
                   snapshot>>

Recorded ==
    /\ latest' = [latest EXCEPT ![runs[Len(runs)]] = Len(runs)]
    /\ recorded' = recorded \cup {Len(runs)}
    /\ poked' = TRUE

(* A run may be recorded while facts of it are still to be added.          *)
WrongRecordRun ==
    /\ writing
    /\ writing' = (todo # {})
    /\ IF mongo THEN Recorded ELSE UNCHANGED <<latest, recorded, poked>>
    /\ UNCHANGED <<mongo, journal, live, embedded, runs, todo, cache, at, ids,
                   snapshot>>

(* record_run: the run becomes the topic's latest and the refresh thread   *)
(* is poked; when the write fails neither happens.                         *)
RecordRun ==
    /\ writing /\ todo = {}
    /\ writing' = FALSE
    /\ IF mongo THEN Recorded ELSE UNCHANGED <<latest, recorded, poked>>
    /\ UNCHANGED <<mongo, journal, live, embedded, runs, todo, cache, at, ids,
                   snapshot>>

(* backfill_embeddings, run by hand: vectors are written to some of the    *)
(* documents that lack one.                                                *)
BackfillEmbeddings ==
    /\ mongo
    /\ \E S \in SUBSET (live \ embedded) \ {{}} : embedded' = embedded \cup S
    /\ UNCHANGED <<mongo, journal, live, latest, recorded, runs, writing,
                   todo, poked, cache, at, ids, snapshot>>

----------------------------------------------------------------------------
(* _fetch_injectable_facts_raw, by the refresh thread or a reader. *)

Goto(p, where) == at' = [at EXCEPT ![p] = where]

(* The first query: the latest run of every topic.  A failure, like having *)
(* no run, makes the result empty.                                         *)
ReadRuns(p) ==
    /\ at[p] = "idle"
    /\ LET found == IF mongo THEN LatestRuns ELSE {}
       IN /\ ids' = [ids EXCEPT ![p] = found]
          /\ Goto(p, IF found = {} THEN "publish" ELSE "facts")
    /\ UNCHANGED <<store, poked, cache, snapshot>>

(* The second query, and the deduplication of what it finds.               *)
ReadFacts(p) ==
    /\ at[p] = "facts"
    /\ \E S \in DedupOutcomes(IF mongo THEN Injectable(ids[p]) ELSE {}) :
          snapshot' = [snapshot EXCEPT ![p] = S]
    /\ ids' = [ids EXCEPT ![p] = {}]
    /\ Goto(p, "publish")
    /\ UNCHANGED <<store, poked, cache>>

(* The refresh thread rebuilds because of a poke ...                       *)
Wake == poked /\ ReadRuns(Refresher)

(* ... or because its interval is over.                                    *)
IntervalOver == ReadRuns(Refresher)

(* A good snapshot is kept when the rebuild finds nothing.                 *)
WrongPublish ==
    /\ at[Refresher] = "publish"
    /\ cache' = IF snapshot[Refresher] = {} THEN cache ELSE snapshot[Refresher]
    /\ snapshot' = [snapshot EXCEPT ![Refresher] = {}]
    /\ poked' = FALSE
    /\ Goto(Refresher, "idle")
    /\ UNCHANGED <<store, ids>>

(* _refresh_snapshot replaces the cache under its lock, and _refresh_loop  *)
(* clears the event before it waits again.                                 *)
Publish ==
    /\ at[Refresher] = "publish"
    /\ cache' = snapshot[Refresher]
    /\ snapshot' = [snapshot EXCEPT ![Refresher] = {}]
    /\ poked' = FALSE
    /\ Goto(Refresher, "idle")
    /\ UNCHANGED <<store, ids>>

(* get_injectable_facts: a reader that finds the cache empty computes the  *)
(* facts itself ...                                                        *)
ColdRead(r) == cache = {} /\ ReadRuns(r)

(* ... and seeds the cache unless it has been filled meanwhile.            *)
Seed(r) ==
    /\ at[r] = "publish"
    /\ cache' = IF cache = {} THEN snapshot[r] ELSE cache
    /\ snapshot' = [snapshot EXCEPT ![r] = {}]
    /\ Goto(r, "idle")
    /\ UNCHANGED <<store, poked, ids>>

(* MongoDB goes down or comes back. *)
MongoTurns ==
    /\ mongo' = ~mongo
    /\ UNCHANGED <<journal, live, embedded, latest, recorded, runs, writing,
                   todo, poked, cache, at, ids, snapshot>>

Writer ==
    \/ \E k \in Topics, S \in SUBSET Texts : Retire(k, S)
    \/ \E t \in Texts : Add(t)
    \/ RecordRun

Refresh == ReadFacts(Refresher) \/ Publish

CacheNext ==
    \/ Writer
    \/ BackfillEmbeddings
    \/ Refresh
    \/ Wake
    \/ IntervalOver
    \/ \E r \in Readers : ColdRead(r) \/ ReadFacts(r) \/ Seed(r)
    \/ MongoTurns

CacheSpec == CacheInit /\ [][CacheNext]_cacheVars

(* The refresh thread runs, and a poke wakes it.                           *)
PokedSpec == CacheSpec /\ WF_cacheVars(Refresh) /\ WF_cacheVars(Wake)

(* Moreover its interval ends, even when nobody pokes it.                  *)
TimedSpec == PokedSpec /\ WF_cacheVars(IntervalOver)

----------------------------------------------------------------------------
(* Properties *)

(* The snapshot holds whole runs that were recorded: no half-written run   *)
(* is injected, and a fact of an injected run is left out only for a newer *)
(* similar fact that is injected itself, however the two queries of a      *)
(* rebuild interleave with the writes (_fetch_injectable_facts_raw,        *)
(* _dedup_facts_by_cosine).                                                *)
CachedRunsAreWhole ==
    \A f \in cache, g \in Fact :
        /\ journal[f].run \in recorded
        /\ journal[g].run = journal[f].run =>
              g \in cache \/ \E h \in cache :
                  h > g /\ {journal[g].text, journal[h].text} \in SimilarTexts

(* The facts now injectable, or a deduplication of them.                   *)
Fresh ==
    LET F == Injectable(LatestRuns)
    IN /\ cache \subseteq F
       /\ \A f \in F \ cache : \E g \in cache :
              g > f /\ {journal[f].text, journal[g].text} \in SimilarTexts

(* The snapshot catches up with the store again and again, unless MongoDB  *)
(* keeps failing or the store keeps changing: neither a lost poke nor a    *)
(* stale seed nor an empty result stays (_refresh_loop).                   *)
CatchesUp == []<>(Fresh \/ ~mongo \/ writing)

(* While MongoDB works, a recorded run reaches the snapshot without waiting *)
(* for the interval (the docstring of _refresh_loop).                      *)
PokeIsPrompt == []mongo => []<>(Fresh \/ writing)

=============================================================================
