--------------------------- MODULE RetrievalService ---------------------------
(***************************************************************************)
(* RetrievalPipeline.run over its sources and its LRU cache.  The event    *)
(* loop runs one request at a time: fetchers are synchronous and the lock  *)
(* of the cache is never held over an await, so a request is one step.     *)
(* Between requests the catalogue and the vector index change, and the     *)
(* vector index comes and goes.                                            *)
(***************************************************************************)
EXTENDS Naturals, FiniteSets, SequencesExt

CONSTANTS Assets,     \* asset_rk
          PointOf,    \* [Assets -> ids]: the id Qdrant keeps an asset under
          TTL,        \* [Kinds -> seconds] of cache_ttl_seconds
          MaxEntries, \* max_entries of the cache
          MaxTime     \* bound on the clock

VARIABLES catalog, \* assets that have a row in Postgres
          index,   \* assets that have a point in Qdrant
          up,      \* Qdrant and the embedder can be reached
          cache,   \* the cache, oldest use first
          now,     \* monotonic clock
          reply,   \* the last answer a caller got
          asked    \* history: the inputs answered, each at its last use

serviceVars == <<catalog, index, up, cache, now, reply, asked>>

Kinds == {"asset_search", "asset_vector_search", "asset_by_rk"}
Inputs == {[kind |-> "asset_search"], [kind |-> "asset_vector_search"]}
            \union {[kind |-> "asset_by_rk", rk |-> a] : a \in Assets}
Times == 0 .. MaxTime
NoReply == [input |-> [kind |-> "none"], hit |-> FALSE, assets |-> {}, at |-> 0, via |-> "none"]

ASSUME ServiceAssumption ==
  /\ \A a \in Assets : PointOf[a] \notin Assets
  /\ \A a, b \in Assets : a # b => PointOf[a] # PointOf[b]
  /\ TTL \in [Kinds -> Nat \ {0}]
  /\ MaxEntries \in Nat \ {0} /\ MaxTime \in Nat

Answers == [assets : SUBSET Assets, at : Times, via : {"postgres", "qdrant", "fallback"}]
Entries == [input : Inputs, expires : Nat, answer : Answers]

ServiceTypeOK ==
  /\ catalog \subseteq Assets /\ index \subseteq Assets /\ up \in BOOLEAN
  /\ now \in Times
  /\ IsInjective([i \in DOMAIN cache |-> cache[i].input])
  /\ Len(cache) <= MaxEntries
  /\ \A i \in DOMAIN cache : cache[i] \in Entries
  /\ reply = NoReply \/ [assets |-> reply.assets, at |-> reply.at, via |-> reply.via] \in Answers

ServiceInit ==
  /\ catalog = {} /\ index = {} /\ up = TRUE
  /\ cache = <<>> /\ now = 0 /\ reply = NoReply /\ asked = <<>>

-----------------------------------------------------------------------------
(* LRUCache. *)

\* A sequence without the element at one of the places, if there is one.
Erased(s, places) == IF places = {} THEN s ELSE RemoveAt(s, CHOOSE i \in places : TRUE)

\* The cache without the entry of a key; it has one at most.
Without(input) == Erased(cache, {i \in DOMAIN cache : cache[i].input = input})

\* The entry of a key, unless it has expired (which is noticed when it is read).
Live(input) == {e \in ToSet(cache) : e.input = input /\ now <= e.expires}

\* Mutant of Touched: what is read is fresh again.
TouchedAnew(e) == Append(Without(e.input), [e EXCEPT !.expires = now + TTL[e.input.kind]])

\* A read moves the entry to the end.
Touched(e) == Append(Without(e.input), e)

\* Mutant of Remember: the newest entry makes room.
RememberLast(e) ==
  LET kept == Without(e.input) IN
  IF Len(kept) >= MaxEntries THEN Append(SubSeq(kept, 1, MaxEntries - 1), e) ELSE Append(kept, e)

\* The last elements of a sequence, as many as the cache has room for.
Window(s) == SubSeq(s, 1 + (IF Len(s) > MaxEntries THEN Len(s) - MaxEntries ELSE 0), Len(s))

\* A write goes to the end; the oldest entries go while there are too many.
Remember(e) == Window(Append(Without(e.input), e))

-----------------------------------------------------------------------------
(* The fetchers. *)

Answer(assets, via) == [assets |-> assets, at |-> now, via |-> via]

\* QdrantSource.search, if it returns: the ids of points, or nothing when the call of
\* client.search fails, the one failure that is caught.
Hits == {{PointOf[a] : a \in index}, {}}

\* Each hit is looked up in Postgres by its id; hits without a row are dropped.
Hydrated(hits) == hits \intersect catalog

\* _fetch_asset_vector_search.
VectorSearch(hits) ==
  IF hits = {} THEN Answer(catalog, "fallback") ELSE Answer(Hydrated(hits), "qdrant")

\* What a fetcher can return.  A vector search starts with collection_exists and the
\* embedding of the query, outside the try: it returns only while both are reachable.
Fetch(input) ==
  CASE input.kind = "asset_search" -> {Answer(catalog, "postgres")}
    [] input.kind = "asset_vector_search" -> {VectorSearch(hits) : hits \in {h \in Hits : up}}
    [] OTHER -> {Answer({input.rk} \intersect catalog, "postgres")}

-----------------------------------------------------------------------------
Reply(input, hit, answer) ==
  /\ reply' = [input |-> input, hit |-> hit,
               assets |-> answer.assets, at |-> answer.at, via |-> answer.via]
  /\ asked' = Append(Erased(asked, {i \in DOMAIN asked : asked[i] = input}), input)

\* An input that got no answer is as if never asked for; those the cache had no room for
\* do not come back in its place.
Unanswered(input) ==
  LET held == Window(asked) IN asked' = Erased(held, {i \in DOMAIN held : held[i] = input})

\* RetrievalPipeline.run answered by the cache.
HitCache(input) ==
  /\ \E e \in Live(input) : cache' = Touched(e) /\ Reply(input, TRUE, e.answer)
  /\ UNCHANGED <<catalog, index, up, now>>

\* RetrievalPipeline.run that has to fetch; what it got is kept, an empty answer
\* and one of the fallback too.
MissCache(input) ==
  /\ Live(input) = {}
  /\ \E answer \in Fetch(input) :
       /\ cache' = Remember([input |-> input, expires |-> now + TTL[input.kind], answer |-> answer])
       /\ Reply(input, FALSE, answer)
  /\ UNCHANGED <<catalog, index, up, now>>

\* Mutant of FetchRaises: the entry that has expired stays in its place.
FetchRaisesUnread(input) ==
  /\ Live(input) = {} /\ Unanswered(input)
  /\ UNCHANGED <<catalog, index, up, cache, now, reply>>

\* RetrievalPipeline.run whose fetcher raises (Postgres, Qdrant or the embedder; the latter
\* two come back between any two calls, so `up` does not matter): the caller gets the
\* exception, and the read of the cache has already dropped an entry that had expired.
FetchRaises(input) ==
  /\ Live(input) = {}
  /\ cache' = Without(input) /\ Unanswered(input)
  /\ UNCHANGED <<catalog, index, up, now, reply>>

Ingest(a) == catalog' = catalog \union {a} /\ UNCHANGED <<index, up, cache, now, reply, asked>>
Drop(a) == catalog' = catalog \ {a} /\ UNCHANGED <<index, up, cache, now, reply, asked>>
Index(a) == up /\ index' = index \union {a} /\ UNCHANGED <<catalog, up, cache, now, reply, asked>>
Outage == up' = ~up /\ UNCHANGED <<catalog, index, cache, now, reply, asked>>
Tick == now < MaxTime /\ now' = now + 1 /\ UNCHANGED <<catalog, index, up, cache, reply, asked>>

ServiceNext ==
  \/ \E input \in Inputs : HitCache(input) \/ MissCache(input) \/ FetchRaises(input)
  \/ \E a \in Assets : Ingest(a) \/ Drop(a) \/ Index(a)
  \/ Outage \/ Tick

-----------------------------------------------------------------------------
(* Properties. *)

\* What a caller gets is never older than the time to live of its kind, however
\* often it is read from the cache (reading moves an entry but does not renew it).
AnswersAreRecent ==
  [][\A input \in Inputs : reply' # reply /\ reply'.input = input =>
       now - reply'.at <= TTL[input.kind]]_serviceVars

\* The cache is a least recently used cache: it has the inputs answered last, as many as
\* it has room for, in the order of their last use; one whose fetch raised when it had
\* expired leaves its place empty, and none of the others moves or is lost for it.
CacheIsLRU == [i \in 1 .. Len(cache) |-> cache[i].input] = Window(asked)

\* A search that Qdrant has hits for finds the assets that are both indexed and
\* stored ("For each hit, hydrate via PostgresAssetSource.get_asset(rk)").
HitsAreHydrated ==
  [][reply' # reply /\ reply'.via = "qdrant" /\ ~reply'.hit =>
       index \intersect catalog \subseteq reply'.assets]_serviceVars
=============================================================================
