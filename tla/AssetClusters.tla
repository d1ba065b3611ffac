--------------------------- MODULE AssetClusters ---------------------------
(***************************************************************************)
(* CrossAssetCausalEnricher: the tables of a run are grouped by what they  *)
(* are annotated with, an LLM proposes causal links within each group, and *)
(* what it says is resolved to the members of the group.  An asset is      *)
(* [rk, name, concepts, key_areas], its annotations the lists that the     *)
(* annotation stage left, in which an LLM may have named a card twice.     *)
(***************************************************************************)
EXTENDS Naturals, FiniteSets, Sequences
LOCAL INSTANCE SequencesExt

-----------------------------------------------------------------------------
(* cluster_assets. *)

\* The keys of the buckets, concepts before key areas (and each in a fixed order).
BucketKeys(assets) ==
  LET keys(kind, lists(_)) ==
        SetToSeq({<<kind, tag>> : tag \in UNION {ToSet(lists(assets[i])) : i \in DOMAIN assets}})
  IN keys("concept", LAMBDA a : a.concepts) \o keys("key_area", LAMBDA a : a.key_areas)

Tags(asset, kind) == IF kind = "concept" THEN asset.concepts ELSE asset.key_areas

\* An asset is put into a bucket once for every time its list has the tag.
Bucket(assets, key) ==
  FlattenSeq([i \in DOMAIN assets |->
    LET hits == SelectSeq(Tags(assets[i], key[1]), LAMBDA tag : tag = key[2])
    IN [n \in DOMAIN hits |-> assets[i]]])

\* The assets with most annotations first, those with as many in the order they had.
Weight(asset) == Len(asset.concepts) + Len(asset.key_areas)
BySpecificity(bucket) ==
  LET before(i, j) == \/ Weight(bucket[i]) > Weight(bucket[j])
                      \/ Weight(bucket[i]) = Weight(bucket[j]) /\ i < j
      places == SetToSortSeq(DOMAIN bucket, before)
  IN [n \in DOMAIN places |-> bucket[places[n]]]

Cut(members, size) == SubSeq(members, 1, IF Len(members) < size THEN Len(members) ELSE size)
Rks(cluster) == {cluster.members[i].rk : i \in DOMAIN cluster.members}

\* The clusters of at least min entries, cut to max, of which none has the assets of an
\* earlier one.
cluster_assets(assets, min, max) ==
  FoldLeft(LAMBDA clusters, key :
             LET bucket == Bucket(assets, key)
                 cluster == [key |-> key, members |-> Cut(BySpecificity(bucket), max)]
             IN IF Len(bucket) < min \/ \E i \in DOMAIN clusters : Rks(clusters[i]) = Rks(cluster)
                THEN clusters ELSE Append(clusters, cluster),
           <<>>, BucketKeys(assets))

-----------------------------------------------------------------------------
(* _apply_cluster: what an LLM answers is a sequence of links [subject,    *)
(* object, node, known, sure]; known: the predicate is one of the list,    *)
(* sure: the confidence is high enough; NoName where it names nothing.     *)

CONSTANT NoName

\* The member a name means: the last one, if members of two schemas share it.
Named(cluster, name) ==
  LET ms == cluster.members
      last == CHOOSE i \in DOMAIN ms : ms[i].name = name /\ \A j \in DOMAIN ms : ms[j].name = name => j <= i
  IN ms[last].rk
Has(cluster, name) == \E i \in DOMAIN cluster.members : cluster.members[i].name = name

\* A link leads to a member, or else to a causal node - of the vocabulary, if there is one.
Kept(cluster, nodes, link) ==
  /\ link.known /\ link.sure /\ Has(cluster, link.subject)
  /\ IF link.object # NoName THEN Has(cluster, link.object)
     ELSE link.node # NoName /\ (nodes = {} \/ link.node \in nodes)

\* At most `most' links are looked at.
Normalized(cluster, nodes, answer, most) ==
  LET links == SelectSeq(Cut(answer, most), LAMBDA link : Kept(cluster, nodes, link))
  IN [n \in DOMAIN links |->
        [subject |-> Named(cluster, links[n].subject),
         object |-> IF links[n].object # NoName THEN Named(cluster, links[n].object) ELSE links[n].node]]

-----------------------------------------------------------------------------
(* What clusters and links promise. *)

Tagged(asset, key) == key[2] \in ToSet(Tags(asset, key[1]))
Repeats(asset) == ~IsInjective(asset.concepts) \/ ~IsInjective(asset.key_areas)

\* Two assets that share an annotation meet in a cluster unless their bucket was cut; the
\* members of a cluster share its annotation, no two clusters have the same members, none
\* is larger than the limit, and none is one asset against itself - unless a list has a
\* card twice (cluster_assets).
ClustersAreMeant(assets, max) ==
  LET clusters == cluster_assets(assets, 2, max)
      all == ToSet(assets) IN
  /\ \A a, b \in all : \A key \in ToSet(BucketKeys(assets)) :
       /\ a # b /\ Tagged(a, key) /\ Tagged(b, key)
       /\ Len(Bucket(assets, key)) <= max
       => \E i \in DOMAIN clusters : {a.rk, b.rk} \subseteq Rks(clusters[i])
  /\ \A i \in DOMAIN clusters :
       /\ Len(clusters[i].members) <= max
       /\ \A n \in DOMAIN clusters[i].members : Tagged(clusters[i].members[n], clusters[i].key)
       /\ (\A a \in all : ~Repeats(a)) => Cardinality(Rks(clusters[i])) >= 2
       /\ \A j \in DOMAIN clusters : i # j => Rks(clusters[i]) # Rks(clusters[j])

\* What is kept of an answer links a member to a member or to a known node
\* (_apply_cluster).
LinksStayInside(cluster, nodes, answer, most) ==
  LET links == Normalized(cluster, nodes, answer, most) IN
  /\ Len(links) <= most
  /\ \A n \in DOMAIN links : /\ links[n].subject \in Rks(cluster)
                             /\ nodes # {} => links[n].object \in Rks(cluster) \union nodes
=============================================================================
