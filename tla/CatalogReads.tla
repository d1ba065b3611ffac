---------------------------- MODULE CatalogReads ----------------------------
(***************************************************************************)
(* What the retrieval service reads out of the hierarchy store: lineage    *)
(* walks, the scope of a search on its two routes, the translation of      *)
(* legacy calls, and a caller who pages through a listing while assets     *)
(* come and go.                                                            *)
(***************************************************************************)
EXTENDS Naturals, FiniteSets, Sequences, SequencesExt

-----------------------------------------------------------------------------
(* PostgresLineageSource.trace over a set of edges <<from, to>>. *)

\* What a hop does: the rows fetched for both frontiers are listed; a node not seen
\* yet is added and belongs to the frontier whose rows came first.
Hop(edges, walk) ==
  LET up == {e \in edges : e[2] \in walk.up}
      down == {e \in edges : e[1] \in walk.down}
      newUp == {e[1] : e \in up} \ DOMAIN walk.hop
      newDown == {e[2] : e \in down} \ (DOMAIN walk.hop \union newUp)
      n == walk.hops + 1
  IN [hops |-> n, up |-> newUp, down |-> newDown,
      hop |-> [x \in DOMAIN walk.hop \union newUp \union newDown |->
                 IF x \in DOMAIN walk.hop THEN walk.hop[x] ELSE n],
      rows |-> walk.rows \o SetToSeq(up) \o SetToSeq(down)]

\* Mutant of Seed: a walk in both directions starts with one of them.
SeedUp(root, direction) ==
  [hops |-> 0, hop |-> [x \in {root} |-> 0], rows |-> <<>>,
   up |-> IF direction # "downstream" THEN {root} ELSE {},
   down |-> IF direction = "downstream" THEN {root} ELSE {}]

Seed(root, direction) ==
  [hops |-> 0, hop |-> [x \in {root} |-> 0], rows |-> <<>>,
   up |-> IF direction # "downstream" THEN {root} ELSE {},
   down |-> IF direction # "upstream" THEN {root} ELSE {}]

trace(edges, root, direction, max_hops) ==
  LET walk[n \in 0 .. max_hops] ==
        IF n = 0 THEN Seed(root, direction) ELSE Hop(edges, walk[n - 1])
  IN walk[max_hops]

\* The nodes a walk along the edges reaches in at most n steps.
Within(edges, root, n) ==
  LET reach[i \in 0 .. n] ==
        IF i = 0 THEN {root}
        ELSE reach[i - 1] \union {e[2] : e \in {x \in edges : x[1] \in reach[i - 1]}}
  IN reach[n]
Reversed(edges) == {<<e[2], e[1]>> : e \in edges}
Sides(edges, root, n, direction) ==
  (IF direction # "downstream" THEN Within(Reversed(edges), root, n) ELSE {})
    \union (IF direction # "upstream" THEN Within(edges, root, n) ELSE {})

\* No node is both above and below the root.
Apart(edges, root, n) == Within(Reversed(edges), root, n) \intersect Within(edges, root, n) = {root}
                           /\ <<root, root>> \notin edges

-----------------------------------------------------------------------------
(* The scope of a search.  An asset without a table_ext row has neither stage nor tags;
   it belongs to one schema, which has one catalog at most. *)

AssetKinds == {"table", "view", "materialized_view"}
AssetRows(Tags, Schemas, Catalogs) ==
  {a \in [kind : AssetKinds, stage : {"production", "deprecated", "none"}, tags : SUBSET Tags,
           schema : Schemas, catalogs : {{}} \union {{c} : c \in Catalogs}] :
     a.stage = "none" => a.tags = {}}
Scopes(Tags, Schemas, Catalogs) ==
  [kinds : SUBSET {"table", "view", "materialized_view", "function"}, tags : SUBSET Tags,
   stages : SUBSET {"production", "deprecated"}, deprecated : BOOLEAN,
   schema_rks : SUBSET Schemas, catalog_uids : SUBSET Catalogs]

Overlaps(xs, ys) == xs = {} \/ xs \intersect ys # {}

\* AssetReader._base_select_for_scope; tags stand for concepts, key areas and causal
\* relations, which are filtered alike.  (source_ids, a prefix here and a field of the
\* payload there, are left out.)
BaseSelectForScope(a, scope) ==
  /\ Overlaps(scope.schema_rks, {a.schema}) /\ Overlaps(scope.catalog_uids, a.catalogs)
  /\ Overlaps(scope.tags, a.tags)
  /\ IF scope.stages # {} THEN a.stage \in scope.stages
     ELSE scope.deprecated \/ a.stage # "deprecated"
  /\ "table" \in scope.kinds /\ "view" \notin scope.kinds => a.kind = "table"
  /\ "view" \in scope.kinds /\ "table" \notin scope.kinds => a.kind # "table"

\* The payload filter of _fetch_asset_vector_search, over the payload the reindex
\* worker takes from get_asset: an asset without table_ext counts as production, and
\* schemas and catalogs of the scope are not looked at.
PayloadFilter(a, scope) ==
  LET stage == IF a.stage = "none" THEN "production" ELSE a.stage IN
  /\ Overlaps(scope.tags, a.tags)
  /\ scope.kinds # {} => a.kind \in scope.kinds
  /\ scope.stages # {} => stage \in scope.stages

\* What the vector route does not look at, or sees otherwise: schemas and catalogs,
\* deprecated assets when no stages are given, the stage of an asset without one.
Unfiltered(a, scope) ==
  \/ scope.schema_rks # {} \/ scope.catalog_uids # {}
  \/ scope.stages = {} /\ ~scope.deprecated
  \/ scope.stages # {} /\ a.stage = "none"

\* A scope that wants tables, views of both kinds, or both, has every asset on the vector
\* route that it has on the relational one; and no other, except where the vector route
\* does not filter.
RoutesAgree(a, scope) ==
  scope.kinds \in {{}, {"table"}, {"view", "materialized_view"}, AssetKinds} =>
    /\ BaseSelectForScope(a, scope) => PayloadFilter(a, scope)
    /\ PayloadFilter(a, scope) => BaseSelectForScope(a, scope) \/ Unfiltered(a, scope)

\* The relational route shows a deprecated asset only to those who ask for it.
DeprecatedIsAskedFor(a, scope) ==
  BaseSelectForScope(a, scope) /\ a.stage = "deprecated" =>
    scope.deprecated \/ "deprecated" \in scope.stages

-----------------------------------------------------------------------------
(* compat._translate_kwargs: the names of the arguments. *)

ScopeNames == {"concepts", "key_areas", "source_ids", "lifecycle_stages"}
KNames == {"top_k", "max_retrieval_size", "table_retrieval_size"}
DroppedNames == {"similarity_threshold", "histories", "tables", "table_retrieval"}
LegacyNames == {"query", "project_id", "scope", "k"} \union ScopeNames \union KNames
                 \union DroppedNames

TranslateKwargs(names) ==
  (names \ (DroppedNames \union KNames \union {"project_id"}
              \union IF "scope" \in names THEN {} ELSE ScopeNames))
    \union {"scope"} \union IF names \intersect KNames # {} THEN {"k"} ELSE {}

\* The kinds of retrieval that legacy callers reach, and what their inputs take; all
\* but two are stubs that answer with nothing.  Inputs forbid names they do not know.
RetrievalKinds ==
  [kind \in {"asset_search", "lineage_trace", "metrics_search", "sql_pairs_search",
             "instructions_search", "historical_qa_search"} |->
     IF kind = "asset_search" THEN [needs |-> {"scope"}, takes |-> {"query", "scope", "k"}]
     ELSE IF kind = "lineage_trace"
       THEN [needs |-> {"asset_rk"}, takes |-> {"asset_rk", "direction", "edge_kinds", "max_hops"}]
     ELSE [needs |-> {"query", "scope"}, takes |-> {"query", "scope", "k"}]]
Accepted(kind, names) == RetrievalKinds[kind].needs \subseteq names /\ names \subseteq RetrievalKinds[kind].takes

\* The names under which the legacy pipeline runs a kind.
Aliases ==
  [database_schemas |-> "asset_search", views |-> "asset_search", metrics |-> "metrics_search",
   sql_pairs |-> "sql_pairs_search", instructions |-> "instructions_search",
   historical_questions |-> "historical_qa_search"]

\* The methods of the legacy helper: the kind each runs, and the sorts of assets to
\* which it narrows the scope, if it does.
Helpers ==
  LET runs(kind, narrowed) == [kind |-> kind, narrowed |-> narrowed] IN
  [get_database_schemas |-> runs("asset_search", {}),
   get_views |-> runs("asset_search", {"view", "materialized_view"}),
   get_sql_functions |-> runs("asset_search", {"function"}),
   get_metrics |-> runs("metrics_search", {}), get_sql_pairs |-> runs("sql_pairs_search", {}),
   get_instructions |-> runs("instructions_search", {}),
   get_historical_questions |-> runs("historical_qa_search", {})]
HelperCall(names) == TranslateKwargs(names \union {"project_id", "query"})
HelperScope(method, scope) ==
  IF Helpers[method].narrowed = {} THEN scope ELSE [scope EXCEPT !.kinds = Helpers[method].narrowed]

\* A legacy call - of the pipeline with a query, or of a method of the helper - is
\* accepted, and the number of hits it asks for is asked for, unless it gives a scope and
\* parts of one at once.
LegacyCallIsServed(names) ==
  LET clean == "scope" \notin names \/ names \intersect ScopeNames = {} IN
  /\ \A alias \in DOMAIN Aliases : LET kind == Aliases[alias] IN
       Accepted(kind, TranslateKwargs(names)) <=> clean /\ ("query" \in RetrievalKinds[kind].needs => "query" \in names)
  /\ \A method \in DOMAIN Helpers : Accepted(Helpers[method].kind, HelperCall(names)) <=> clean
  /\ names \intersect (KNames \union {"k"}) # {} <=> "k" \in TranslateKwargs(names)

\* Whoever asks the helper for views gets views only, and all of those that the scope
\* of the call has (get_views).
HelperGivesViews(a, scope) ==
  /\ BaseSelectForScope(a, HelperScope("get_views", scope)) => a.kind # "table"
  /\ a.kind # "table" /\ BaseSelectForScope(a, [scope EXCEPT !.kinds = {}])
       => BaseSelectForScope(a, HelperScope("get_views", scope))

-----------------------------------------------------------------------------
(* A caller who lists all assets, page by page. *)

CONSTANTS Shelf,    \* assets
          NameOf,   \* [Shelf -> names]: the sort key, which assets may share
          PageSize, \* limit
          MaxMoves  \* bound: assets that come or go while a caller pages

VARIABLES shelf, \* assets that are in scope
          pages, \* what the caller has: where it goes on and what it has seen
          moves

readVars == <<shelf, pages, moves>>

ASSUME ReadAssumption ==
  /\ IsFiniteSet(Shelf)
  /\ NameOf \in [Shelf -> Nat] /\ PageSize \in Nat \ {0} /\ MaxMoves \in Nat

NoPages == [offset |-> 0, seen |-> <<>>, over |-> FALSE]
ReadInit == shelf \in SUBSET Shelf /\ pages = NoPages /\ moves = 0

\* The orders the database may give: by name, and any order of equal names, which
\* may differ from query to query.
Orders == {s \in SetToSeqs(shelf) : \A i, j \in DOMAIN s : i < j => NameOf[s[i]] <= NameOf[s[j]]}

\* _fetch_asset_list: one row more than the limit says whether there is more.
NextPage ==
  /\ ~pages.over
  /\ \E order \in Orders :
       LET rows == SubSeq(order, pages.offset + 1,
                     IF pages.offset + PageSize + 1 < Len(order)
                     THEN pages.offset + PageSize + 1 ELSE Len(order))
           more == Len(rows) > PageSize IN
       pages' = [offset |-> pages.offset + PageSize, over |-> ~more,
                 seen |-> pages.seen \o (IF more THEN Front(rows) ELSE rows)]
  /\ UNCHANGED <<shelf, moves>>

Arrive(a) == a \notin shelf /\ moves < MaxMoves /\ moves' = moves + 1
               /\ shelf' = shelf \union {a} /\ UNCHANGED pages
Leave(a) == a \in shelf /\ moves < MaxMoves /\ moves' = moves + 1
               /\ shelf' = shelf \ {a} /\ UNCHANGED pages

ReadNext == NextPage \/ \E a \in Shelf : Arrive(a) \/ Leave(a)

-----------------------------------------------------------------------------
(* Properties. *)

\* A walk finds the nodes within max_hops, each at its distance and with the rows of
\* its edges once - in both directions only if no node lies on both sides of the root,
\* where the walk goes on along the side that found it (trace).
TraceIsExact(edges, root, direction, max_hops) ==
  LET walk == trace(edges, root, direction, max_hops) IN
  direction # "both" \/ Apart(edges, root, max_hops) =>
    /\ DOMAIN walk.hop = Sides(edges, root, max_hops, direction)
    /\ \A x \in DOMAIN walk.hop : walk.hop[x] # 0 =>
         x \notin Sides(edges, root, walk.hop[x] - 1, direction)
    /\ IsInjective(walk.rows)

\* A caller who pages through to the end has seen every asset once if none came or went
\* and no two share a name, over which the order of the pages would not be one.
PagesCoverTheList ==
  pages.over /\ moves = 0 /\ (\A a, b \in shelf : a # b => NameOf[a] # NameOf[b]) =>
    IsInjective(pages.seen) /\ ToSet(pages.seen) = shelf
=============================================================================
