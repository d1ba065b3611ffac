------------------------------ MODULE MCTables ------------------------------
(* A table: how a source is read and a dump of it, what enriches it, how its   *)
(* points are kept and how it is read back.  Only the part that question.about *)
(* names takes steps; a question about a calculation is an initial state with  *)
(* no step.                                                                    *)
EXTENDS MCReindexWorker, VectorCollections, CatalogReads, EvalScorers, LexiconMatches,
        AssetClusters, TableEnrichment, Introspection

CONSTANTS c1, c2, n1, n2, n3, v, u, default, pg, None
VARIABLE question

Nodes == {n1, n2, n3}
Lists(S, n) == UNION {[1 .. m -> S] : m \in 0 .. n}

\* Words of names, "id" being a stop word and "of" a short one; a column of one table.
LexiconNames == {<<"risk">>, <<"risk", "score">>, <<"id">>, <<"score", "id", "risk">>}
LexiconCards == [id : LexiconNames \ {<<"id">>}, title : {<<>>, <<"risk">>, <<"score">>}]
LexiconColumns == [name : LexiconNames \union {<<"of", "risk">>}, description : {<<>>, <<"of", "score">>, <<"risk", "id">>}]
DistinctIds(cards) == \A i, j \in DOMAIN cards : i # j => cards[i].id # cards[j].id

\* Three assets, two of them of one name, and what an LLM says about them.
TagLists == {<<>>, <<u>>, <<v>>, <<u, v>>, <<v, v>>}
Asset(i, tags) == [rk |-> i, name |-> IF i = 3 THEN n1 ELSE n2, concepts |-> tags[1], key_areas |-> tags[2]]
Links == [subject : {n1, n2, n3}, object : {n1, n3, None}, node : {v, u, None}, known : BOOLEAN, sure : {TRUE}]
ClusterOfAll == [key |-> <<"concept", v>>, members |-> [i \in 1 .. 3 |-> Asset(i, <<<<v>>, <<>>>>)]]

\* Two stages are configured, or the three whose order matters; the lexicon finds everything, something or nothing.
Configurations == {g \in
  {[native |-> native, declared |-> declared, wanted |-> wanted, rich |-> rich, drafts |-> drafts, provider |-> llm,
    mode |-> mode, vocabulary |-> cards[1], found |-> cards[2]] :
     native \in {{}, {n1}, {pg, n1}, {pg, n1, n2}}, declared \in {{}, {n2}},
     wanted \in {w \in SUBSET {StageOrder[i] : i \in 1 .. 6} : Cardinality(w) <= 2 \/ w = {"protection", "relationships", "causal"}},
     rich \in BOOLEAN, drafts \in BOOLEAN, llm \in BOOLEAN, mode \in {"ner_then_llm", "ner_only", "llm_only"},
     cards \in {<<{}, {}>>, <<{v, u}, {}>>, <<{v, u}, {u}>>, <<{v, u}, {v, u}>>}} :
   /\ "describe" \in g.wanted \/ (g.native = {} /\ ~g.rich)
   /\ "relationships" \in g.wanted \/ g.declared = {}
   /\ "causal" \in g.wanted \/ ~g.drafts
   /\ "annotate" \in g.wanted \/ (g.found = {} /\ g.mode = "llm_only")
   /\ "annotate" \in g.wanted \/ "causal" \in g.wanted \/ g.vocabulary = {}}
NothingConfigured ==
  [native |-> {}, declared |-> {}, wanted |-> {}, rich |-> FALSE, drafts |-> FALSE, provider |-> FALSE, mode |-> "llm_only",
   vocabulary |-> {}, found |-> {}]
\* Up to three relations, of which two may share a name in two schemas; up to two constraints.
MCRelations == {<<"a", "t">>, <<"a", "u">>, <<"b", "t">>, <<"b", "v">>}
MCConstraints ==
  {[kind |-> "key", name |-> k[1], table |-> k[2], columns |-> <<k[3]>>] :
     k \in {<<"k1", <<"a", "t">>, "x">>, <<"k2", <<"a", "u">>, "y">>, <<"k1", <<"b", "t">>, "x">>, <<"k3", <<"b", "v">>, "x">>}}
    \union [kind : {"reference"}, name : {"k1", "k3"}, table : {<<"a", "u">>}, target : {<<"a", "t">>, <<"b", "t">>},
            columns : {<<"y">>}, references : {<<"x">>}]
    \union [kind : {"reference"}, name : {"k4"}, table : {<<"a", "u">>}, target : {<<"a", "t">>},
            columns : {<<"y">>}, references : {<<"y">>}]
    \union [kind : {"reference"}, name : {"k1"}, table : {<<"a", "t">>}, target : {<<"a", "u">>},
            columns : {<<"x", "y">>}, references : {<<"y", "x">>}]
NoDatabase == [tables |-> {}, views |-> {}, constraints |-> {}, columns |-> [r \in MCRelations |-> {}]]
MCDatabases ==
  {db \in [tables : SUBSET MCRelations, views : {{}, {<<"a", "u">>}}, constraints : {{}} \union {{j, k} : j, k \in MCConstraints},
           columns : [MCRelations -> {{}, {"x"}, {"x", "y"}}]] :
     /\ \A r \in MCRelations : db.columns[r] = {"x"} => r = <<"a", "u">>
     /\ ~({<<"b", "t">>, <<"b", "v">>} \subseteq db.tables)
     /\ \A r \in MCRelations : r \in db.tables <=> db.columns[r] # {}
     /\ IsDatabase(db)}

\* Up to three statements about a table of two columns, in any order.
MCParts ==
  {<<[part |-> "column", name |-> "x", key |-> key, to |-> to], [part |-> "column", name |-> "y", key |-> FALSE, to |-> <<>>]>> \o more :
     key \in BOOLEAN, to \in {<<>>, <<<<"a", "u">>, "y">>},
     more \in {<<>>, <<[part |-> "key", columns |-> <<"y", "x">>]>>, <<[part |-> "constraint"]>>}}
MCStatements ==
  [op : {"create"}, table : {<<"a", "t">>, <<"b", "t">>}, parts : MCParts]
    \union [op : {"key"}, table : {<<"a", "t">>}, columns : {<<"x">>, <<"x", "y">>}]
    \union [op : {"reference"}, table : {<<"a", "t">>}, columns : {<<"x">>, <<"x", "y">>}, target : {<<"b", "t">>},
            references : {<<>>, <<"y">>, <<"y", "x">>}]
MCManifests == {<<>>, [t |-> [pk |-> <<"y">>, fk |-> <<"x", "y">>]]}

\* A table has one key, is created once, and a reference names as many columns as it has.
IsDump(dump) ==
  LET of(op) == {i \in DOMAIN dump : dump[i].op = op}
      keyed(p) == p.part = "key" \/ (p.part = "column" /\ p.key)
  IN /\ \A i, j \in of("create") : i # j => dump[i].table # dump[j].table
     /\ \A i \in of("create") :
          LET keys == SelectSeq(dump[i].parts, keyed)
              altered == {j \in of("key") : dump[j].table = dump[i].table} IN
          Len(keys) + Cardinality(altered) <= 1
     /\ Cardinality(of("key")) <= 1
     /\ \A i \in of("reference") : Len(dump[i].references) \in {0, Len(dump[i].columns)}
MCDumps == {dump \in Lists(MCStatements, 3) : IsDump(dump)}

Questions ==
  [about : {"reindex", "vectors", "list", "enrichment", "introspection"}]
    \union [about : {"trace"}, edges : SUBSET (Nodes \X Nodes), root : {n1},
            direction : {"upstream", "downstream", "both"}, hops : 1 .. 3]
    \union [about : {"scope"}, asset : AssetRows({"t"}, {n1, n2}, {u}), scope : Scopes({"t"}, {n1}, {u})]
    \union [about : {"legacy"},
            names : SUBSET (LegacyNames \ {"histories", "tables", "table_retrieval", "key_areas", "source_ids"})]
    \union [about : {"scores"}, list : Lists(Nodes, 3), expected : SUBSET Nodes,
            grades : [Nodes -> 0 .. 2], k : 1 .. 3]
    \union [about : {"judge"}, list : Lists(Nodes, 3), coverage : {2, 3},
            ratings : Lists([rk : Nodes, rating : 0 .. 2], 2)]
    \union [about : {"lexicon"}, cards : {cs \in Lists(LexiconCards, 2) : DistinctIds(cs)},
            table : [name : LexiconNames, columns : Lists(LexiconColumns, 1)]]
    \union [about : {"clusters"}, tags : [1 .. 3 -> TagLists \X {<<>>, <<u>>}], max : {2, 3}]
    \union [about : {"dump"}, dump : MCDumps, manifest : MCManifests]
    \union [about : {"links"}, answer : Lists(Links, 2), nodes : {{}, {v}}]

TablesInit ==
  /\ question \in Questions
  /\ Init /\ VectorInit /\ ReadInit
  /\ question.about # "list" => shelf = {}
  /\ IF question.about = "enrichment" THEN given \in Configurations ELSE given = NothingConfigured
  /\ EnrichInit
  /\ question.about # "introspection" => database = NoDatabase
  /\ IntrospectInit

TablesNext ==
  \/ /\ question.about = "reindex" /\ LoudNext
     /\ UNCHANGED <<question, vectorVars, readVars, enrichVars, introspectVars>>
  \/ /\ question.about = "vectors" /\ VectorNext
     /\ UNCHANGED <<question, vars, readVars, enrichVars, introspectVars>>
  \/ /\ question.about = "list" /\ ReadNext
     /\ UNCHANGED <<question, vars, vectorVars, enrichVars, introspectVars>>
  \/ /\ question.about = "enrichment" /\ EnrichNext
     /\ UNCHANGED <<question, vars, vectorVars, readVars, introspectVars>>
  \/ /\ question.about = "introspection" /\ IntrospectNext
     /\ UNCHANGED <<question, vars, vectorVars, readVars, enrichVars>>

\* The fairness of LoudSpec, while the worker is asked about.
TablesSpec ==
  /\ TablesInit
  /\ [][TablesNext]_<<question, vars, vectorVars, readVars, enrichVars, introspectVars>>
  /\ \A w \in Workers : WF_vars(question.about = "reindex" /\ Work(w))

\* What is made of a table on its way into the store: its description by the source, the
\* cards its names point to, the stages, and the clusters of annotated tables and their
\* links.
EnrichmentOK ==
  /\ question.about = "lexicon" => MatchesAreExact(question.table, question.cards)
  /\ question.about = "clusters" =>
       ClustersAreMeant([i \in 1 .. 3 |-> Asset(i, question.tags[i])], question.max)
  /\ question.about = "links" => LinksStayInside(ClusterOfAll, question.nodes, question.answer, 1)
  /\ TableEnriched
  /\ UntouchedTablesAreRead
  /\ question.about = "dump" => DumpIsRead(question.dump, question.manifest)

\* The calculations of a read agree with what they are documented to return.
ReadsOK ==
  /\ question.about = "trace" => TraceIsExact(question.edges, question.root, question.direction, question.hops)
  /\ question.about = "scope" => /\ RoutesAgree(question.asset, question.scope)
                                 /\ DeprecatedIsAskedFor(question.asset, question.scope)
                                 /\ HelperGivesViews(question.asset, question.scope)
  /\ question.about = "legacy" => LegacyCallIsServed(question.names)
  /\ question.about = "scores" =>
       /\ ScoresAreFractions(question.list, question.expected, question.k)
       /\ BestOrderIsOne(question.list, question.expected, question.grades, question.k)
  /\ question.about = "judge" => JudgeIsStrict(question.list, question.ratings, question.coverage)
  /\ PagesCoverTheList

MCNames == (n1 :> 1) @@ (n2 :> 2) @@ (n3 :> 2)
MCPayloads == {{v}, {v, u}}
MCDeleteBy ==
  {[form |-> "flat", clauses |-> {[op |-> "list", any |-> {u}]}],
   [form |-> "$and", clauses |-> {[op |-> "value", any |-> {v}], [op |-> "$ne", any |-> {u}]}, beside |-> {}]}
=============================================================================
