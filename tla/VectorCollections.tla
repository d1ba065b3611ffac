-------------------------- MODULE VectorCollections --------------------------
(***************************************************************************)
(* One Qdrant collection and the processes that use it through             *)
(* QdrantDocumentStore: each keeps the store object it made at first use.  *)
(* A delete is a scroll followed by a delete of the ids it returned, and   *)
(* the other processes write between the two.                              *)
(***************************************************************************)
EXTENDS Naturals, FiniteSets

CONSTANTS MaxId,    \* point ids, in the order of a scroll
          KeyValues,   \* values of the one payload key that is filtered on
          Payloads, \* the values that points are written with
          DeleteBy, \* the filters that deletes are given
          StoreUsers,  \* processes
          PageLimit,\* limit of the scroll of a filtered delete (10_000)
          SweepPage,\* limit of the scrolls of an unfiltered one (200)
          MaxWrites \* bound on points written and collections dropped

VARIABLES exists, \* the collection exists
          points, \* [ids of its points -> values of the key, {} if it is missing]
          opened, \* clients that have a store object
          delete, \* [StoreUsers -> what its delete is about]
          writes,
          orphans \* history: clients whose collection was dropped since they opened it

vectorVars == <<exists, points, opened, delete, writes, orphans>>

PointIds == 1 .. MaxId
ASSUME VectorAssumption ==
  /\ Payloads \subseteq SUBSET KeyValues
  /\ MaxId \in Nat \ {0} /\ MaxWrites \in Nat
  /\ PageLimit \in Nat \ {0} /\ SweepPage \in Nat \ {0}

\* The shapes of a `where`: conditions on the key, alone or under "$and", and then
\* beside a condition that is not.
Clauses == [op : {"value", "$eq", "$in", "list"}, any : SUBSET KeyValues \ {{}}]
             \union [op : {"$ne"}, any : {{v} : v \in KeyValues}] \union [op : {"$gt"}, any : {{}}]
Wheres == [form : {"flat"}, clauses : {{}} \union {{c} : c \in Clauses}]
            \union [form : {"$and"}, clauses : {{c, d} : c, d \in Clauses},
                    beside : {{}} \union {{c} : c \in Clauses}]

\* No delete under way: NoDelete; else the ids still to remove, where the next scroll
\* starts (0: nowhere), what the caller meant, the points it found at the start and
\* that nobody has written since, and the ids written since the scroll.
NoDelete == [op |-> "none"]
Sweep == [form |-> "sweep", clauses |-> {}]

VectorTypeOK ==
  /\ exists \in BOOLEAN /\ writes \in 0 .. MaxWrites
  /\ DOMAIN points \subseteq PointIds /\ \A i \in DOMAIN points : points[i] \subseteq KeyValues
  /\ ~exists => DOMAIN points = {}
  /\ opened \subseteq StoreUsers /\ orphans \subseteq opened
  /\ \A c \in StoreUsers : delete[c] = NoDelete \/
       delete[c] \in [op : {"scroll", "delete"}, page : SUBSET PointIds, offset : 0 .. MaxId,
                      where : DeleteBy \union {Sweep}, targets : SUBSET PointIds,
                      rewritten : SUBSET PointIds]

VectorInit ==
  /\ exists = FALSE /\ points = <<>> /\ opened = {}
  /\ delete = [c \in StoreUsers |-> NoDelete]
  /\ writes = 0 /\ orphans = {}

-----------------------------------------------------------------------------
(* Filters. *)

\* What the caller asks for: a value of the key that the clause admits.
Satisfies(values, clause) ==
  /\ clause.op # "$gt"
  /\ clause.op = "$ne" <=> values \intersect clause.any = {}
Meant(values, where) ==
  /\ \A c \in where.clauses : Satisfies(values, c)
  /\ where.form = "$and" => \A c \in where.beside : Satisfies(values, c)

Translated(clause) == clause.op \notin {"$ne", "$gt"}
Expressible(where) ==
  /\ \A c \in where.clauses : Translated(c)
  /\ where.form = "$and" => where.beside = {}

\* Mutant of build_qdrant_filter: the last condition on a key replaces the others.
BuildLast(where) == IF where.clauses = {} THEN {} ELSE {CHOOSE c \in where.clauses : TRUE}

\* build_qdrant_filter and _collect_conditions: the conditions sent to Qdrant, {} if
\* there is no filter.  What stands beside "$and" is dropped, and so are clauses with
\* an operator it does not know.
build_qdrant_filter(where) == {c \in where.clauses : Translated(c)}

Passes(values, filter) == \A c \in filter : values \intersect c.any # {}
Matching(filter) == {i \in DOMAIN points : Passes(points[i], filter)}

-----------------------------------------------------------------------------
(* Store objects, writes and drops. *)

\* _get_or_make_store: a client that has an object does not look again.
GetStore(c) ==
  /\ c \notin opened
  /\ opened' = opened \union {c} /\ exists' = TRUE
  /\ UNCHANGED <<points, delete, writes, orphans>>

Written(i) ==
  delete' = [c \in StoreUsers |->
    IF delete[c] = NoDelete THEN NoDelete
    ELSE [delete[c] EXCEPT !.targets = @ \ {i}, !.rewritten = @ \union {i}]]
Count == writes < MaxWrites /\ writes' = writes + 1

\* upsert_points of one point: a refusal of Qdrant is logged and counted only.
Upsert(c, i, values) ==
  /\ c \in opened /\ delete[c] = NoDelete /\ Count
  /\ points' = IF exists THEN [x \in DOMAIN points \union {i} |->
                                 IF x = i THEN values ELSE points[x]] ELSE points
  /\ Written(i)
  /\ UNCHANGED <<exists, opened, orphans>>

\* drop, by a bootstrap script or another process.
DropCollection ==
  /\ exists /\ Count
  /\ exists' = FALSE /\ points' = <<>>
  /\ orphans' = opened
  /\ UNCHANGED <<opened, delete>>

\* A process starts anew, without store objects.
RestartClient(c) ==
  /\ c \in opened
  /\ opened' = opened \ {c} /\ orphans' = orphans \ {c}
  /\ delete' = [delete EXCEPT ![c] = NoDelete]
  /\ UNCHANGED <<exists, points, writes>>

-----------------------------------------------------------------------------
(* Deletes. *)

\* The ids of a scroll: the first n of the ids.
First(n, ids) == {i \in ids : Cardinality({j \in ids : j < i}) < n}
Erase(ids) == points' = [i \in DOMAIN points \ ids |-> points[i]]

\* delete_by_filter (and the adapter's delete with a filter) scrolls one page.
ScrollMatches(c, where) ==
  LET filter == build_qdrant_filter(where) page == First(PageLimit, Matching(filter)) IN
  /\ c \in opened /\ delete[c] = NoDelete /\ exists
  /\ filter # {} /\ page # {}
  /\ delete' = [delete EXCEPT ![c] =
       [op |-> "delete", page |-> page, offset |-> 0, where |-> where,
        targets |-> {i \in DOMAIN points : Meant(points[i], where)}, rewritten |-> {}]]
  /\ UNCHANGED <<exists, points, opened, writes, orphans>>

\* The adapter's delete without a filter: it was given none, one of which nothing
\* could be translated, or an empty list of ids.
BeginSweep(c) ==
  /\ c \in opened /\ delete[c] = NoDelete
  /\ delete' = [delete EXCEPT ![c] =
       [op |-> "scroll", page |-> {}, offset |-> 1, where |-> Sweep,
        targets |-> DOMAIN points, rewritten |-> {}]]
  /\ UNCHANGED <<exists, points, opened, writes, orphans>>

\* Mutant of SweepScroll: the pages are counted, not begun at an id.
SweepScrollCounted(c) ==
  LET d == delete[c] rest == DOMAIN points \ First(d.offset - 1, DOMAIN points) page == First(SweepPage, rest) IN
  /\ d # NoDelete /\ d.op = "scroll" /\ exists
  /\ delete' = [delete EXCEPT ![c] = IF page = {} THEN NoDelete
                 ELSE [d EXCEPT !.op = "delete", !.page = page, !.rewritten = {},
                         !.offset = IF page = rest \/ d.offset + SweepPage > MaxId THEN 0
                                    ELSE d.offset + SweepPage]]
  /\ UNCHANGED <<exists, points, opened, writes, orphans>>

\* The next page, from the id at which the last one ended.
SweepScroll(c) ==
  LET d == delete[c]
      rest == {i \in DOMAIN points : i >= d.offset}
      page == First(SweepPage, rest)
      more == rest \ page IN
  /\ d # NoDelete /\ d.op = "scroll" /\ exists
  /\ delete' = [delete EXCEPT ![c] = IF page = {} THEN NoDelete
                 ELSE [d EXCEPT !.op = "delete", !.page = page, !.rewritten = {},
                         !.offset = IF more = {} THEN 0
                                    ELSE CHOOSE i \in more : \A j \in more : i <= j]]
  /\ UNCHANGED <<exists, points, opened, writes, orphans>>

\* The ids of the page are deleted, whatever is stored under them by now.
DeletePage(c) ==
  LET d == delete[c] IN
  /\ d # NoDelete /\ d.op = "delete" /\ exists
  /\ Erase(d.page)
  /\ delete' = [delete EXCEPT ![c] = IF d.offset = 0 THEN NoDelete
                                     ELSE [d EXCEPT !.op = "scroll", !.page = {}]]
  /\ UNCHANGED <<exists, opened, writes, orphans>>

\* The collection is gone: the call raises.
DeleteRaises(c) ==
  /\ delete[c] # NoDelete /\ ~exists
  /\ delete' = [delete EXCEPT ![c] = NoDelete]
  /\ UNCHANGED <<exists, points, opened, writes, orphans>>

VectorNext ==
  \/ \E c \in StoreUsers :
       \/ GetStore(c) \/ RestartClient(c) \/ BeginSweep(c) \/ SweepScroll(c)
       \/ DeletePage(c) \/ DeleteRaises(c)
       \/ \E i \in PointIds, values \in Payloads : Upsert(c, i, values)
       \/ \E where \in DeleteBy : ScrollMatches(c, where)
  \/ DropCollection

-----------------------------------------------------------------------------
(* Properties. *)

\* A filtered read loses nothing the caller asked for, and gives exactly that when
\* every clause can be expressed; else it gives more (build_qdrant_filter skips).
FiltersOnlyWiden ==
  \A where \in Wheres, values \in SUBSET KeyValues :
    LET passes == Passes(values, build_qdrant_filter(where)) IN
    /\ Meant(values, where) => passes
    /\ Expressible(where) => (passes = Meant(values, where))

\* A filtered delete removes only points that the caller meant, unless the filter
\* says more than could be translated, or a point was written again between the
\* scroll and the delete (delete_by_filter).
DeletesAreMeant ==
  [][\A c \in StoreUsers : delete[c] # NoDelete /\ delete[c].op = "delete" /\ delete[c].where # Sweep
       /\ points' # points /\ delete'[c] = NoDelete /\ c \in opened' /\ exists' =>
         \A i \in DOMAIN points \ DOMAIN points' :
           \/ i \in delete[c].rewritten \/ ~Expressible(delete[c].where)
           \/ Meant(points[i], delete[c].where)]_vectorVars

\* When a delete is over, no point it was meant for is left that was there all the
\* time - unless a filtered one met its page limit ("Delete every point matching the
\* filter"), or the collection was dropped under it.
DeletesAreComplete ==
  [][\A c \in StoreUsers : delete[c] # NoDelete /\ delete'[c] = NoDelete /\ exists /\ c \in opened' =>
       \/ delete[c].targets \intersect DOMAIN points' = {}
       \/ delete[c].where # Sweep /\ Cardinality(delete[c].page) = PageLimit]_vectorVars

\* A point that is upserted is stored under its id alone, unless the collection was
\* dropped since the client opened it: its store object never looks again.
WritesLand ==
  [][\A c \in opened, i \in PointIds, values \in Payloads :
       Upsert(c, i, values) => exists \/ c \in orphans]_vectorVars

\* What filters mean to those who read (build_qdrant_filter).
VectorInv == VectorTypeOK /\ FiltersOnlyWiden

\* What a collection promises to those who write and delete in it.
VectorSteps == DeletesAreMeant /\ DeletesAreComplete /\ WritesLand
=============================================================================
