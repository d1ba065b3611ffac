---------------------------- MODULE SourceProofs ----------------------------
(***************************************************************************)
(* Proofs about what is asked of a source and made of its tables: how its  *)
(* tables are read (Introspection), what enriches one of them on its way   *)
(* into the store (TableEnrichment), and the queries submitted to a source *)
(* on a lakehouse, for any number of them and of threads (LakehouseDriver).*)
(*                                                                         *)
(* A reader of a source asks several queries; each says of a table that is *)
(* left alone what its part of the database says, whatever becomes of the  *)
(* rest.  What a stage of the enrichment relies on is said by how far the  *)
(* table has come.  And what is checked of queries does not say why a late *)
(* success cannot overwrite a cancellation; Accounted does: where the task *)
(* of a query is, and whether it has a cancellation to see, bounds its     *)
(* status.                                                                 *)
(***************************************************************************)
EXTENDS Introspection, TableEnrichment, LakehouseDriver,
        FiniteSetTheorems, SequenceTheorems, WellFoundedInduction, TLAPS

-----------------------------------------------------------------------------
(* Introspection: what each query returns of a table depends, for a table    *)
(* that is left alone, on that table only - in a plain source - or includes  *)
(* what does.                                                              *)

IntrospectSpec == IntrospectInit /\ [][IntrospectNext]_introspectVars

\* The rows of a query that are about a table whose part is p.
TablesRead(rows, r, p) ==
  /\ [table |-> r, comment |-> r, view |-> p.view] \in rows
  /\ plain => \A t \in rows : t.table = r => t = [table |-> r, comment |-> r, view |-> p.view]
ColumnsRead(rows, r, p) ==
  /\ \A c \in p.columns : [table |-> r, column |-> c, comment |-> r] \in rows
  /\ plain => \A x \in rows : x.table = r => x.comment = r /\ x.column \in p.columns
KeysRead(rows, r, p) ==
  /\ \A c \in KeyOf(p) : [table |-> r, column |-> c] \in rows
  /\ plain => \A x \in rows : x.table = r => x.column \in KeyOf(p)
ReferencesRead(rows, r, p) ==
  /\ \A c : \A t \in TargetsOf(p, c) : t[1][1] = r[1] => \E x \in rows : x.table = r /\ x.column = c
  /\ \A x, y \in rows : x.table = y.table /\ x.column = y.column => x = y
  /\ plain => /\ \A x \in rows : x.table = r => x.to \in TargetsOf(p, x.column)
              /\ \A c : \A t \in TargetsOf(p, c) : t[1][1] = r[1]
ViewsRead(rows, r, p) == r \in rows <=> p.view

LEMMA TablesAnswer ==
  ASSUME NEW db, IsDatabase(db), plain => Plain(db), NEW r \in InScope(db)
  PROVE  TablesRead(_fetch_tables(db), r, Part(db, r))
<1>1. Part(db, r).view = (r \in db.views) /\ r \in db.tables
  BY DEF Part, InScope
<1>2. r \in Namesakes(db, r) /\ (plain => Namesakes(db, r) = {r})
  BY <1>1 DEF Namesakes, Plain
<1>3. [table |-> r, comment |-> r, view |-> r \in db.views] \in _fetch_tables(db)
  BY <1>2 DEF _fetch_tables
<1>4. ASSUME NEW t \in _fetch_tables(db), t.table = r, plain
      PROVE  t = [table |-> r, comment |-> r, view |-> r \in db.views]
  <2>1. PICK x \in InScope(db) : t \in {[table |-> x, comment |-> c, view |-> x \in db.views] : c \in Namesakes(db, x)}
    BY DEF _fetch_tables
  <2>2. PICK c \in Namesakes(db, x) : t = [table |-> x, comment |-> c, view |-> x \in db.views]
    BY <2>1
  <2>3. x = r /\ c = r
    BY <1>2, <1>4, <2>2
  <2> QED
    BY <2>2, <2>3
<1> QED
  BY <1>1, <1>3, <1>4 DEF TablesRead

LEMMA ColumnsAnswer ==
  ASSUME NEW db, IsDatabase(db), plain => Plain(db), NEW r \in InScope(db)
  PROVE  ColumnsRead(_fetch_columns(db), r, Part(db, r))
<1>1. Part(db, r).columns = db.columns[r] /\ r \in db.tables
  BY DEF Part, InScope
<1>2. r \in Namesakes(db, r) /\ (plain => Namesakes(db, r) = {r})
  BY <1>1 DEF Namesakes, Plain
<1>3. ASSUME NEW c \in db.columns[r] PROVE [table |-> r, column |-> c, comment |-> r] \in _fetch_columns(db)
  BY <1>2 DEF _fetch_columns
<1>4. ASSUME NEW x \in _fetch_columns(db), x.table = r, plain
      PROVE  x.comment = r /\ x.column \in db.columns[r]
  <2>1. PICK y \in InScope(db) : x \in [table : {y}, column : db.columns[y], comment : Namesakes(db, y)]
    BY DEF _fetch_columns
  <2>2. y = r
    BY <1>4, <2>1
  <2> QED
    BY <1>2, <1>4, <2>1, <2>2
<1> QED
  BY <1>1, <1>3, <1>4 DEF ColumnsRead

LEMMA KeysAnswer ==
  ASSUME NEW db, IsDatabase(db), plain => Plain(db), NEW r \in InScope(db)
  PROVE  KeysRead(_fetch_primary_keys(db), r, Part(db, r))
<1> DEFINE p == Part(db, r)
           of(k) == {[table |-> k.table, column |-> c] : c \in UNION {ToSet(j.columns) : j \in SameName(db, k)}}
           ks == {x \in db.constraints : x.kind = "key" /\ x.table \in InScope(db)}
<1>1. p.constraints = {k \in db.constraints : k.table = r} /\ r \in db.tables
  BY DEF Part, InScope
<1>2. \A x : x \in _fetch_primary_keys(db) <=> \E k \in ks : x \in of(k)
  BY DEF _fetch_primary_keys
<1> HIDE DEF p
<1>3. ASSUME NEW c \in KeyOf(p) PROVE [table |-> r, column |-> c] \in _fetch_primary_keys(db)
  <2>1. PICK k \in p.constraints : k.kind = "key" /\ c \in ToSet(k.columns)
    BY DEF KeyOf
  <2>2. k \in ks /\ k.table = r /\ k \in SameName(db, k)
    BY <1>1, <2>1 DEF SameName
  <2>3. [table |-> r, column |-> c] \in of(k)
    BY <2>1, <2>2
  <2> HIDE DEF of, ks
  <2> QED
    BY <1>2, <2>2, <2>3
<1>4. ASSUME NEW x \in _fetch_primary_keys(db), x.table = r, plain PROVE x.column \in KeyOf(p)
  <2>1. PICK k \in ks : x \in of(k)
    <3> HIDE DEF of, ks
    <3> QED
      BY <1>2
  <2>2. PICK j \in SameName(db, k) : k.table = r /\ x.column \in ToSet(j.columns)
    BY <1>4, <2>1
  <2>3. j = k
    BY <1>4, <2>1, <2>2 DEF SameName, Plain
  <2>4. k \in {y \in p.constraints : y.kind = "key"}
    BY <1>1, <2>1, <2>2
  <2> QED
    BY <2>2, <2>3, <2>4 DEF KeyOf
<1> QED
  BY <1>3, <1>4 DEF KeysRead, p

\* Of the rows of a column one is kept.
LEMMA LastOfRows ==
  ASSUME NEW db, NEW kept \in _fetch_foreign_keys(db)
  PROVE  /\ kept \subseteq ReferenceRows(db)
         /\ \A x \in ReferenceRows(db) : \E y \in kept : y.table = x.table /\ y.column = x.column
         /\ \A x, y \in kept : x.table = y.table /\ x.column = y.column => x = y
<1> DEFINE rows == ReferenceRows(db)
           row(x, to) == [x EXCEPT !.to = to]
           plain_row(x, to) == [table |-> x.table, column |-> x.column, to |-> to]
           columns == {row(x, <<>>) : x \in rows}
<1>1. ASSUME NEW x \in rows, NEW to PROVE x = plain_row(x, x.to) /\ row(x, to) = plain_row(x, to)
  <2>1. PICK k \in db.constraints :
          x \in [table : {k.table}, column : UNION {ToSet(j.columns) : j \in SameName(db, k)}, to : Used(db, k)]
    BY DEF ReferenceRows
  <2> QED
    BY <2>1
<1>2. PICK to \in [columns -> {x.to : x \in rows}] :
        /\ \A x \in columns : row(x, to[x]) \in rows
        /\ kept = {row(x, to[x]) : x \in columns}
  BY DEF _fetch_foreign_keys
<1>3. ASSUME NEW x \in columns, NEW t
      PROVE  x = plain_row(x, <<>>) /\ row(x, t) = plain_row(x, t)
  <2>1. PICK y \in rows : x = row(y, <<>>)
    OBVIOUS
  <2>2. x = plain_row(y, <<>>)
    BY <1>1, <2>1
  <2> QED
    BY <2>2
<1>4. \A x \in rows : row(x, <<>>) \in columns /\ row(x, <<>>) = plain_row(x, <<>>)
  BY <1>1
<1> HIDE DEF columns, row
<1>5. kept \subseteq rows
  BY <1>2
<1>6. ASSUME NEW x \in rows PROVE \E y \in kept : y.table = x.table /\ y.column = x.column
  <2> DEFINE c == row(x, <<>>)
  <2>1. c \in columns /\ c.table = x.table /\ c.column = x.column
    BY <1>4
  <2> HIDE DEF c
  <2>2. row(c, to[c]) \in kept /\ row(c, to[c]) = plain_row(c, to[c])
    BY <1>2, <1>3, <2>1
  <2> QED
    BY <2>1, <2>2
<1>7. ASSUME NEW x \in kept, NEW y \in kept, x.table = y.table, x.column = y.column PROVE x = y
  <2>1. PICK c \in columns, d \in columns : x = row(c, to[c]) /\ y = row(d, to[d])
    BY <1>2
  <2>2. x = plain_row(c, to[c]) /\ y = plain_row(d, to[d])
    BY <1>3, <2>1
  <2>3. c.table = d.table /\ c.column = d.column
    BY <1>7, <2>2
  <2>4. c = d
    BY <1>3, <2>3
  <2> QED
    BY <2>1, <2>4
<1> QED
  BY <1>5, <1>6, <1>7

LEMMA ReferencesAnswer ==
  ASSUME NEW db, IsDatabase(db), plain => Plain(db), NEW r \in InScope(db),
         NEW kept \in _fetch_foreign_keys(db)
  PROVE  ReferencesRead(kept, r, Part(db, r))
<1> DEFINE p == Part(db, r)
           of(k) == [table : {k.table}, column : UNION {ToSet(j.columns) : j \in SameName(db, k)}, to : Used(db, k)]
           ks == {x \in db.constraints : x.kind = "reference" /\ x.table \in InScope(db)}
<1>1. p.constraints = {k \in db.constraints : k.table = r} /\ r \in db.tables
  BY DEF Part, InScope
<1>2. \A x : x \in ReferenceRows(db) <=> \E k \in ks : x \in of(k)
  BY DEF ReferenceRows
<1> HIDE DEF p
<1>3. ASSUME NEW c, NEW t \in TargetsOf(p, c)
      PROVE  \E k \in ks : \E i \in DOMAIN k.columns :
               /\ k.table = r /\ k.columns[i] = c /\ t = <<k.target, k.references[i]>>
               /\ k.references[i] \in ToSet(k.references) /\ c \in ToSet(k.columns)
  <2>1. PICK k \in p.constraints : k.kind = "reference"
            /\ t \in {<<k.target, k.references[i]>> : i \in {n \in DOMAIN k.columns : k.columns[n] = c}}
    BY DEF TargetsOf
  <2>2. PICK i \in DOMAIN k.columns : k.columns[i] = c /\ t = <<k.target, k.references[i]>>
    BY <2>1
  <2>3. k \in ks /\ k.table = r /\ OnItsTables(db, k)
    BY <1>1, <2>1 DEF IsDatabase
  <2>4. i \in DOMAIN k.references
    BY <2>1, <2>3 DEF OnItsTables
  <2> QED
    BY <2>2, <2>3, <2>4 DEF ToSet
<1>4. ASSUME NEW c, NEW t \in TargetsOf(p, c), t[1][1] = r[1]
      PROVE  [table |-> r, column |-> c, to |-> t] \in ReferenceRows(db)
  <2>1. PICK k \in ks : \E i \in DOMAIN k.columns :
               /\ k.table = r /\ k.columns[i] = c /\ t = <<k.target, k.references[i]>>
               /\ k.references[i] \in ToSet(k.references) /\ c \in ToSet(k.columns)
    BY <1>3
  <2>2. k \in SameName(db, k) /\ c \in UNION {ToSet(j.columns) : j \in SameName(db, k)}
    BY <2>1 DEF SameName
  <2>3. t \in Uses(k)
    <3>1. Uses(k) = {<<k.target, x>> : x \in ToSet(k.references)}
      BY <2>1 DEF Uses
    <3> QED
      BY <2>1, <3>1
  <2>4. t \in Used(db, k)
    BY <1>4, <2>1, <2>3 DEF Used
  <2>5. [table |-> r, column |-> c, to |-> t] \in of(k)
    BY <2>1, <2>2, <2>4
  <2> HIDE DEF of, ks
  <2> QED
    BY <1>2, <2>1, <2>5
<1>5. ASSUME NEW x \in ReferenceRows(db), x.table = r, plain PROVE x.to \in TargetsOf(p, x.column)
  <2>1. PICK k \in ks : x \in of(k)
    <3> HIDE DEF of, ks
    <3> QED
      BY <1>2
  <2>2. PICK j \in SameName(db, k) : k.table = r /\ x.column \in ToSet(j.columns) /\ x.to \in Used(db, k)
    BY <1>5, <2>1
  <2>3. j = k /\ Plain(db) /\ k \in db.constraints /\ k.kind = "reference" /\ OnItsTables(db, k)
    BY <1>5, <2>1, <2>2 DEF SameName, Plain, IsDatabase
  <2>4. Len(k.columns) = 1 /\ k.target[1] = k.table[1]
    BY <2>3 DEF Plain
  <2>5. k.columns \in Seq(db.columns[k.table]) /\ k.references \in Seq(db.columns[k.target])
        /\ Len(k.references) = Len(k.columns)
    BY <2>3 DEF OnItsTables
  <2>6. DOMAIN k.columns = {1} /\ DOMAIN k.references = {1}
    BY <2>4, <2>5
  <2>7. PICK y \in db.constraints : y.name = k.name /\ x.to \in Uses(y) /\ x.to[1][1] = k.table[1]
    BY <2>2 DEF Used
  <2>8. y = k
    <3>1. CASE y.kind = "key"
      <4>1. x.to[1] = y.table
        BY <2>7, <3>1 DEF Uses
      <4> QED
        BY <2>3, <2>7, <4>1 DEF Plain
    <3>2. CASE y.kind # "key"
      <4>1. y.kind = "reference"
        BY <3>2 DEF IsDatabase, OnItsTables
      <4>2. x.to[1] = y.target
        BY <2>7, <3>2 DEF Uses
      <4>3. y.target[1] = y.table[1]
        BY <2>3, <4>1 DEF Plain
      <4> QED
        BY <2>3, <2>7, <4>2, <4>3 DEF Plain
    <3> QED
      BY <3>1, <3>2
  <2>9. x.to = <<k.target, k.references[1]>> /\ x.column = k.columns[1]
    <3>1. Uses(k) = {<<k.target, z>> : z \in ToSet(k.references)}
      BY <2>3 DEF Uses
    <3>2. ToSet(k.references) = {k.references[1]} /\ ToSet(k.columns) = {k.columns[1]}
      BY <2>6 DEF ToSet
    <3> QED
      BY <2>2, <2>3, <2>7, <2>8, <3>1, <3>2
  <2>10. k \in {z \in p.constraints : z.kind = "reference"}
    BY <1>1, <2>2, <2>3
  <2>11. x.to \in {<<k.target, k.references[i]>> : i \in {n \in DOMAIN k.columns : k.columns[n] = x.column}}
    BY <2>6, <2>9
  <2> QED
    BY <2>10, <2>11 DEF TargetsOf
<1>6. ASSUME NEW c, NEW t \in TargetsOf(p, c), plain PROVE t[1][1] = r[1]
  BY <1>3, <1>6 DEF Plain
<1>7. ASSUME NEW c, NEW t \in TargetsOf(p, c), t[1][1] = r[1]
      PROVE  \E x \in kept : x.table = r /\ x.column = c
  <2> DEFINE y == [table |-> r, column |-> c, to |-> t]
  <2>1. y \in ReferenceRows(db) /\ y.table = r /\ y.column = c
    BY <1>4, <1>7
  <2> HIDE DEF y
  <2> QED
    BY <2>1, LastOfRows
<1>8. /\ kept \subseteq ReferenceRows(db)
      /\ \A x, y \in kept : x.table = y.table /\ x.column = y.column => x = y
  BY LastOfRows
<1>9. plain => \A x \in kept : x.table = r => x.to \in TargetsOf(p, x.column)
  BY <1>5, <1>8
<1> QED
  BY <1>6, <1>7, <1>8, <1>9 DEF ReferencesRead, p

LEMMA ViewsAnswer ==
  ASSUME NEW db, IsDatabase(db), NEW r \in InScope(db)
  PROVE  ViewsRead(_fetch_view_definitions(db), r, Part(db, r))
  BY DEF ViewsRead, _fetch_view_definitions, Part

\* What has been read of every table that was left alone since the first query.
LeftAlone == InScope(database) \ touched
Learnt(r, p) ==
  /\ read.queries >= 1 => TablesRead(read.tables, r, p)
  /\ read.queries >= 2 => ColumnsRead(read.columns, r, p)
  /\ read.queries >= 3 => KeysRead(read.keys, r, p)
  /\ read.queries >= 4 => ReferencesRead(read.references, r, p)
  /\ read.queries >= 5 => ViewsRead(read.views, r, p)
ReadShape ==
  read \in [queries : 0 .. 5, tables : {read.tables}, columns : {read.columns}, keys : {read.keys},
            references : {read.references}, views : {read.views}]
IntrospectInv ==
  /\ database \in Databases /\ ReadShape
  /\ plain => Plain(database)
  /\ \A r \in LeftAlone : Learnt(r, Part(database, r))

LEMMA IntrospectBegins == IntrospectInit => IntrospectInv
<1> SUFFICES ASSUME IntrospectInit PROVE IntrospectInv
  OBVIOUS
<1>1. ReadShape /\ read.queries = 0
  BY DEF IntrospectInit, NothingRead, ReadShape
<1> QED
  BY <1>1 DEF IntrospectInit, IntrospectInv, Learnt

\* A query adds what it is about, and leaves what was read before.
LEMMA QueryKeeps ==
  ASSUME IntrospectInv, UNCHANGED <<database, ddl, touched, plain>>, NEW n \in 0 .. 4,
         read.queries = n, read'.queries = n + 1, ReadShape',
         n # 0 => read'.tables = read.tables, n # 1 => read'.columns = read.columns,
         n # 2 => read'.keys = read.keys, n # 3 => read'.references = read.references,
         n # 4 => read'.views = read.views,
         \A r \in InScope(database) :
           /\ n = 0 => TablesRead(read'.tables, r, Part(database, r))
           /\ n = 1 => ColumnsRead(read'.columns, r, Part(database, r))
           /\ n = 2 => KeysRead(read'.keys, r, Part(database, r))
           /\ n = 3 => ReferencesRead(read'.references, r, Part(database, r))
           /\ n = 4 => ViewsRead(read'.views, r, Part(database, r))
  PROVE  IntrospectInv'
<1>1. database' = database /\ touched' = touched /\ plain' = plain /\ LeftAlone' = LeftAlone
  BY DEF LeftAlone, InScope
<1>2. ASSUME NEW r \in LeftAlone PROVE Learnt(r, Part(database, r))'
  <2> DEFINE p == Part(database, r)
  <2>1. r \in InScope(database) /\ Learnt(r, p)
    BY DEF LeftAlone, IntrospectInv
  <2>2. Part(database, r)' = p
    BY <1>1 DEF Part
  <2> HIDE DEF p
  <2> QED
    BY <1>1, <2>1, <2>2 DEF Learnt, TablesRead, ColumnsRead, KeysRead, ReferencesRead, ViewsRead
<1> QED
  BY <1>1, <1>2 DEF IntrospectInv

LEMMA ReturnsShape ==
  ASSUME ReadShape, NEW n \in 0 .. 4, NEW result, Returns(n, result),
         result = [queries |-> read.queries, tables |-> result.tables, columns |-> result.columns,
                   keys |-> result.keys, references |-> result.references, views |-> result.views]
  PROVE  /\ UNCHANGED <<database, ddl, touched, plain>> /\ ReadShape'
         /\ read.queries = n /\ read'.queries = n + 1
         /\ read'.tables = result.tables /\ read'.columns = result.columns /\ read'.keys = result.keys
         /\ read'.references = result.references /\ read'.views = result.views
<1>1. PICK tables, columns, keys, references, views :
        result = [queries |-> read.queries, tables |-> tables, columns |-> columns, keys |-> keys,
                  references |-> references, views |-> views]
  OBVIOUS
<1>2. read' = [queries |-> n + 1, tables |-> tables, columns |-> columns, keys |-> keys,
               references |-> references, views |-> views]
  BY <1>1 DEF Returns
<1> QED
  BY <1>1, <1>2 DEF Returns, ReadShape

LEMMA AskKeeps ==
  ASSUME IntrospectInv, AskTables \/ AskColumns \/ AskKeys \/ AskReferences \/ AskViews
  PROVE  IntrospectInv'
<1>1. ReadShape /\ IsDatabase(database) /\ (plain => Plain(database))
  BY IntrospectAssumption DEF IntrospectInv
<1>2. CASE AskTables
  <2> DEFINE result == [read EXCEPT !.tables = _fetch_tables(database)]
  <2>1. Returns(0, result)
    BY <1>2 DEF AskTables
  <2>2. /\ result.columns = read.columns /\ result.keys = read.keys /\ result.references = read.references
        /\ result.views = read.views /\ result.tables = _fetch_tables(database)
        /\ result = [queries |-> read.queries, tables |-> result.tables, columns |-> result.columns,
                     keys |-> result.keys, references |-> result.references, views |-> result.views]
    BY <1>1 DEF ReadShape
  <2> HIDE DEF result
  <2>3. /\ UNCHANGED <<database, ddl, touched, plain>> /\ ReadShape'
        /\ read.queries = 0 /\ read'.queries = 0 + 1
        /\ read'.tables = result.tables /\ read'.columns = result.columns /\ read'.keys = result.keys
        /\ read'.references = result.references /\ read'.views = result.views
    BY <1>1, <2>1, <2>2, ReturnsShape
  <2>4. \A r \in InScope(database) : TablesRead(read'.tables, r, Part(database, r))
    BY <1>1, <2>2, <2>3, TablesAnswer
  <2> QED
    BY <2>2, <2>3, <2>4, QueryKeeps
<1>3. CASE AskColumns
  <2> DEFINE result == [read EXCEPT !.columns = _fetch_columns(database)]
  <2>1. Returns(1, result)
    BY <1>3 DEF AskColumns
  <2>2. /\ result.tables = read.tables /\ result.keys = read.keys /\ result.references = read.references
        /\ result.views = read.views /\ result.columns = _fetch_columns(database)
        /\ result = [queries |-> read.queries, tables |-> result.tables, columns |-> result.columns,
                     keys |-> result.keys, references |-> result.references, views |-> result.views]
    BY <1>1 DEF ReadShape
  <2> HIDE DEF result
  <2>3. /\ UNCHANGED <<database, ddl, touched, plain>> /\ ReadShape'
        /\ read.queries = 1 /\ read'.queries = 1 + 1
        /\ read'.tables = result.tables /\ read'.columns = result.columns /\ read'.keys = result.keys
        /\ read'.references = result.references /\ read'.views = result.views
    BY <1>1, <2>1, <2>2, ReturnsShape
  <2>4. \A r \in InScope(database) : ColumnsRead(read'.columns, r, Part(database, r))
    BY <1>1, <2>2, <2>3, ColumnsAnswer
  <2> QED
    BY <2>2, <2>3, <2>4, QueryKeeps
<1>4. CASE AskKeys
  <2> DEFINE result == [read EXCEPT !.keys = _fetch_primary_keys(database)]
  <2>1. Returns(2, result)
    BY <1>4 DEF AskKeys
  <2>2. /\ result.tables = read.tables /\ result.columns = read.columns /\ result.references = read.references
        /\ result.views = read.views /\ result.keys = _fetch_primary_keys(database)
        /\ result = [queries |-> read.queries, tables |-> result.tables, columns |-> result.columns,
                     keys |-> result.keys, references |-> result.references, views |-> result.views]
    BY <1>1 DEF ReadShape
  <2> HIDE DEF result
  <2>3. /\ UNCHANGED <<database, ddl, touched, plain>> /\ ReadShape'
        /\ read.queries = 2 /\ read'.queries = 2 + 1
        /\ read'.tables = result.tables /\ read'.columns = result.columns /\ read'.keys = result.keys
        /\ read'.references = result.references /\ read'.views = result.views
    BY <1>1, <2>1, <2>2, ReturnsShape
  <2>4. \A r \in InScope(database) : KeysRead(read'.keys, r, Part(database, r))
    BY <1>1, <2>2, <2>3, KeysAnswer
  <2> QED
    BY <2>2, <2>3, <2>4, QueryKeeps
<1>5. CASE AskReferences
  <2>0. PICK kept \in _fetch_foreign_keys(database) : Returns(3, [read EXCEPT !.references = kept])
    BY <1>5 DEF AskReferences
  <2> DEFINE result == [read EXCEPT !.references = kept]
  <2>1. Returns(3, result)
    BY <2>0
  <2>2. /\ result.tables = read.tables /\ result.columns = read.columns /\ result.keys = read.keys
        /\ result.views = read.views /\ result.references = kept
        /\ result = [queries |-> read.queries, tables |-> result.tables, columns |-> result.columns,
                     keys |-> result.keys, references |-> result.references, views |-> result.views]
    BY <1>1 DEF ReadShape
  <2> HIDE DEF result
  <2>3. /\ UNCHANGED <<database, ddl, touched, plain>> /\ ReadShape'
        /\ read.queries = 3 /\ read'.queries = 3 + 1
        /\ read'.tables = result.tables /\ read'.columns = result.columns /\ read'.keys = result.keys
        /\ read'.references = result.references /\ read'.views = result.views
    BY <1>1, <2>1, <2>2, ReturnsShape
  <2>4. \A r \in InScope(database) : ReferencesRead(read'.references, r, Part(database, r))
    BY <1>1, <2>2, <2>3, ReferencesAnswer
  <2> QED
    BY <2>2, <2>3, <2>4, QueryKeeps
<1>6. CASE AskViews
  <2> DEFINE result == [read EXCEPT !.views = _fetch_view_definitions(database)]
  <2>1. Returns(4, result)
    BY <1>6 DEF AskViews
  <2>2. /\ result.tables = read.tables /\ result.columns = read.columns /\ result.keys = read.keys
        /\ result.references = read.references /\ result.views = _fetch_view_definitions(database)
        /\ result = [queries |-> read.queries, tables |-> result.tables, columns |-> result.columns,
                     keys |-> result.keys, references |-> result.references, views |-> result.views]
    BY <1>1 DEF ReadShape
  <2> HIDE DEF result
  <2>3. /\ UNCHANGED <<database, ddl, touched, plain>> /\ ReadShape'
        /\ read.queries = 4 /\ read'.queries = 4 + 1
        /\ read'.tables = result.tables /\ read'.columns = result.columns /\ read'.keys = result.keys
        /\ read'.references = result.references /\ read'.views = result.views
    BY <1>1, <2>1, <2>2, ReturnsShape
  <2>4. \A r \in InScope(database) : ViewsRead(read'.views, r, Part(database, r))
    BY <1>1, <2>2, <2>3, ViewsAnswer
  <2> QED
    BY <2>2, <2>3, <2>4, QueryKeeps
<1> QED
  BY <1>2, <1>3, <1>4, <1>5, <1>6

\* An alteration of one table leaves the parts of the others.
LEMMA AlterKeeps ==
  ASSUME IntrospectInv, NEW x \in Relations, Alter(x)
  PROVE  IntrospectInv'
<1>1. PICK part \in Parts[x] : With(database, x, part) \in Databases /\ database' = With(database, x, part)
  BY DEF Alter
<1>2. read' = read /\ touched' = touched \union {x} /\ (plain' => plain /\ Plain(database'))
  BY DEF Alter
<1>3. PICK db \in Databases : part = Part(db, x)
  BY <1>1 DEF Parts
<1>4. \A k \in part.constraints : k.table = x
  BY <1>3 DEF Part
<1>5. /\ database'.tables = IF part.there THEN database.tables \union {x} ELSE database.tables \ {x}
      /\ database'.views = IF part.view THEN database.views \union {x} ELSE database.views \ {x}
      /\ database'.columns = [database.columns EXCEPT ![x] = part.columns]
      /\ database'.constraints = {k \in database.constraints : k.table # x} \union part.constraints
  BY <1>1 DEF With
<1>6. ASSUME NEW r \in LeftAlone' PROVE Learnt(r, Part(database, r))'
  <2> DEFINE p == Part(database, r)
  <2>1. r # x /\ r \in InScope(database) /\ r \notin touched
    BY <1>2, <1>5 DEF LeftAlone, InScope
  <2>2. Learnt(r, p) /\ r \in DOMAIN database.columns
    BY <2>1, IntrospectAssumption DEF LeftAlone, IntrospectInv, IsDatabase, InScope
  <2>3. /\ (r \in database'.tables) = (r \in database.tables) /\ (r \in database'.views) = (r \in database.views)
        /\ database'.columns[r] = database.columns[r]
        /\ {k \in database'.constraints : k.table = r} = {k \in database.constraints : k.table = r}
    BY <1>4, <1>5, <2>1, <2>2
  <2>4. Part(database, r)' = p
    BY <2>3 DEF Part
  <2> HIDE DEF p
  <2> QED
    BY <1>2, <2>2, <2>4 DEF Learnt, TablesRead, ColumnsRead, KeysRead, ReferencesRead, ViewsRead
<1> QED
  BY <1>1, <1>2, <1>6 DEF IntrospectInv, ReadShape

LEMMA IntrospectStep == IntrospectInv /\ [IntrospectNext]_introspectVars => IntrospectInv'
<1> SUFFICES ASSUME IntrospectInv, [IntrospectNext]_introspectVars PROVE IntrospectInv'
  OBVIOUS
<1>1. CASE UNCHANGED introspectVars
  <2>1. LeftAlone' = LeftAlone /\ database' = database /\ read' = read /\ plain' = plain
    BY <1>1 DEF introspectVars, LeftAlone, InScope
  <2> QED
    BY <2>1 DEF IntrospectInv, ReadShape, Learnt, TablesRead, ColumnsRead, KeysRead, ReferencesRead, ViewsRead
<1>2. CASE IntrospectNext
  BY <1>2, AskKeeps, AlterKeeps DEF IntrospectNext
<1> QED
  BY <1>1, <1>2

\* What is put together of a row of a table.
InfoKey(t) == {k.column : k \in {x \in read.keys : x.table = t.table}}
InfoTo(t, c) == {f.to : f \in {x \in read.references : x.table = t.table /\ x.column = c.column}}
InfoColumn(t, c) == [name |-> c.column, comment |-> c.comment,
                     key |-> [table |-> t.table, column |-> c.column] \in read.keys, to |-> InfoTo(t, c)]
InfoColumns(t) == {InfoColumn(t, c) : c \in {x \in read.columns : x.table = t.table}}
Info(t) == [table |-> t.table, comment |-> t.comment, view |-> t.view, definition |-> t.table \in read.views,
            primary_key |-> InfoKey(t), columns |-> InfoColumns(t)]

LEMMA InfosAre == TableInfos = {Info(t) : t \in read.tables}
  BY DEF TableInfos, Info, InfoColumns, InfoColumn, InfoTo, InfoKey

LEMMA LearntIsRead == IntrospectInv => UntouchedTablesAreRead
<1> SUFFICES ASSUME IntrospectInv, read.queries = 5, NEW r \in InScope(database) \ touched
             PROVE  LET found == {i \in TableInfos : i.table = r}
                        p == Part(database, r) IN
                    /\ plain => \E true \in Truths(r, p) : found = {true}
                    /\ \E i \in found :
                         /\ i.comment = r /\ i.view = p.view /\ i.definition = p.view
                         /\ KeyOf(p) \subseteq i.primary_key
                         /\ \A c \in p.columns : \E d \in i.columns :
                              /\ d.name = c /\ d.comment = r /\ (c \in KeyOf(p) => d.key)
                              /\ (\E t \in TargetsOf(p, c) : t[1][1] = r[1]) => d.to # {}
  BY DEF UntouchedTablesAreRead
<1> DEFINE p == Part(database, r)
           t0 == [table |-> r, comment |-> r, view |-> p.view]
           row(c) == [table |-> r, column |-> c, comment |-> r]
<1>1. Learnt(r, p)
  BY DEF IntrospectInv, LeftAlone
<1> HIDE DEF p
<1>2. /\ TablesRead(read.tables, r, p) /\ ColumnsRead(read.columns, r, p) /\ KeysRead(read.keys, r, p)
      /\ ReferencesRead(read.references, r, p) /\ ViewsRead(read.views, r, p)
  BY <1>1 DEF Learnt
<1>3. p.view \in BOOLEAN
  BY DEF p, Part
<1>4. t0 \in read.tables /\ t0.table = r /\ Info(t0) \in TableInfos /\ Info(t0).table = r
  BY <1>2, InfosAre DEF TablesRead, Info
<1>5. Info(t0).comment = r /\ Info(t0).view = p.view /\ Info(t0).definition = p.view
  BY <1>2, <1>3 DEF Info, ViewsRead
<1>6. KeyOf(p) \subseteq InfoKey(t0) /\ (plain => InfoKey(t0) = KeyOf(p))
  <2>1. \A c \in KeyOf(p) : [table |-> r, column |-> c] \in read.keys
    BY <1>2 DEF KeysRead
  <2>2. KeyOf(p) \subseteq InfoKey(t0)
    <3> SUFFICES ASSUME NEW c \in KeyOf(p) PROVE c \in InfoKey(t0)
      OBVIOUS
    <3>1. [table |-> r, column |-> c] \in {x \in read.keys : x.table = t0.table}
      BY <2>1
    <3>2. [table |-> r, column |-> c].column = c
      OBVIOUS
    <3> QED
      BY <3>1, <3>2 DEF InfoKey
  <2>3. ASSUME plain, NEW c \in InfoKey(t0) PROVE c \in KeyOf(p)
    BY <1>2, <2>3 DEF InfoKey, KeysRead
  <2> QED
    BY <2>2, <2>3
<1>7. ASSUME NEW x \in read.columns, x.table = r
      PROVE  /\ (\E t \in TargetsOf(p, x.column) : t[1][1] = r[1]) => InfoTo(t0, x) # {}
             /\ plain => IF TargetsOf(p, x.column) = {} THEN InfoTo(t0, x) = {}
                         ELSE \E t \in TargetsOf(p, x.column) : InfoTo(t0, x) = {t}
  <2> DEFINE fs == {y \in read.references : y.table = t0.table /\ y.column = x.column}
  <2>1. InfoTo(t0, x) = {f.to : f \in fs} /\ \A f, g \in fs : f = g
    BY <1>2 DEF InfoTo, ReferencesRead
  <2>2. ASSUME NEW t \in TargetsOf(p, x.column), t[1][1] = r[1] PROVE fs # {}
    BY <1>2, <2>2 DEF ReferencesRead
  <2>3. ASSUME plain PROVE \A f \in fs : f.to \in TargetsOf(p, x.column)
    BY <1>2, <2>3 DEF ReferencesRead
  <2>4. plain => \A t \in TargetsOf(p, x.column) : t[1][1] = r[1]
    BY <1>2 DEF ReferencesRead
  <2> HIDE DEF fs
  <2>5. ASSUME NEW f \in fs PROVE InfoTo(t0, x) = {f.to}
    BY <2>1
  <2>6. fs = {} => InfoTo(t0, x) = {}
    BY <2>1
  <2> QED
    BY <2>2, <2>3, <2>4, <2>5, <2>6
<1>8. ASSUME NEW c \in p.columns
      PROVE  LET x == [table |-> r, column |-> c, comment |-> r] IN
             x \in read.columns /\ x.table = t0.table /\ InfoColumn(t0, x) \in InfoColumns(t0)
  <2>1. [table |-> r, column |-> c, comment |-> r] \in read.columns
    BY <1>2 DEF ColumnsRead
  <2> QED
    BY <2>1 DEF InfoColumns
<1>10. ASSUME NEW c \in p.columns
       PROVE  \E d \in Info(t0).columns :
                /\ d.name = c /\ d.comment = r /\ (c \in KeyOf(p) => d.key)
                /\ (\E t \in TargetsOf(p, c) : t[1][1] = r[1]) => d.to # {}
  <2> DEFINE x == row(c)
             d == InfoColumn(t0, x)
  <2>2. x \in read.columns /\ x.table = r /\ x.column = c /\ x.comment = r /\ d \in Info(t0).columns
    BY <1>8 DEF Info
  <2>3. d.name = c /\ d.comment = r /\ d.to = InfoTo(t0, x) /\ d.key = ([table |-> r, column |-> c] \in read.keys)
    BY <2>2 DEF InfoColumn
  <2>4. c \in KeyOf(p) => [table |-> r, column |-> c] \in read.keys
    BY <1>2 DEF KeysRead
  <2>5. (\E t \in TargetsOf(p, c) : t[1][1] = r[1]) => InfoTo(t0, x) # {}
    BY <1>7, <2>2
  <2> HIDE DEF x, d
  <2> QED
    BY <2>2, <2>3, <2>4, <2>5
<1>11. ASSUME plain PROVE Info(t0) \in Truths(r, p)
  <2> DEFINE to == [c \in p.columns |-> InfoTo(t0, row(c))]
             said(c) == [name |-> c, comment |-> r, key |-> c \in KeyOf(p), to |-> to[c]]
  <2>0. ASSUME NEW c \in p.columns
        PROVE  row(c) \in read.columns /\ row(c).table = r /\ row(c).column = c /\ row(c).comment = r
    BY <1>8
  <2>1. ASSUME NEW x \in read.columns, x.table = r PROVE x.column \in p.columns /\ InfoColumn(t0, x) = InfoColumn(t0, row(x.column))
    <3>1. x.comment = r /\ x.column \in p.columns
      BY <1>2, <1>11, <2>1 DEF ColumnsRead
    <3>2. InfoTo(t0, x) = InfoTo(t0, row(x.column))
      BY DEF InfoTo
    <3> QED
      BY <3>1, <3>2 DEF InfoColumn
  <2>2. ASSUME NEW c \in p.columns PROVE InfoColumn(t0, row(c)) = said(c)
    <3>1. ([table |-> r, column |-> c] \in read.keys) = (c \in KeyOf(p))
      <4>1. [table |-> r, column |-> c].table = r /\ [table |-> r, column |-> c].column = c
        OBVIOUS
      <4> QED
        BY <1>2, <1>11, <4>1 DEF KeysRead
    <3> QED
      BY <2>0, <3>1 DEF InfoColumn
  <2>3. InfoColumns(t0) = {said(c) : c \in p.columns}
    <3> HIDE DEF row, to, said
    <3>1. ASSUME NEW d \in InfoColumns(t0) PROVE d \in {said(c) : c \in p.columns}
      <4>1. PICK x \in read.columns : x.table = r /\ d = InfoColumn(t0, x)
        BY DEF InfoColumns
      <4>2. x.column \in p.columns /\ d = said(x.column)
        BY <2>1, <2>2, <4>1
      <4> QED
        BY <4>2
    <3>2. ASSUME NEW c \in p.columns PROVE said(c) \in InfoColumns(t0)
      BY <2>0, <2>2, <3>2 DEF InfoColumns
    <3> QED
      BY <3>1, <3>2
  <2>4. ASSUME NEW c \in p.columns
        PROVE  /\ IF TargetsOf(p, c) = {} THEN to[c] = {} ELSE \E t \in TargetsOf(p, c) : to[c] = {t}
               /\ to[c] \subseteq UNION {TargetsOf(p, b) : b \in p.columns}
    <3>1. to[c] = InfoTo(t0, row(c))
      OBVIOUS
    <3> HIDE DEF row, to
    <3>2. IF TargetsOf(p, c) = {} THEN to[c] = {} ELSE \E t \in TargetsOf(p, c) : to[c] = {t}
      BY <1>7, <1>11, <2>0, <3>1
    <3> QED
      BY <3>2
  <2>5. to \in Targets(p)
    <3>1. to \in [p.columns -> SUBSET UNION {TargetsOf(p, c) : c \in p.columns}]
      <4>1. \A c \in p.columns : to[c] \in SUBSET UNION {TargetsOf(p, b) : b \in p.columns}
        BY <2>4
      <4> QED
        BY <4>1
    <3> HIDE DEF to
    <3> QED
      BY <2>4, <3>1 DEF Targets
  <2> HIDE DEF to
  <2>6. Info(t0) = [table |-> r, comment |-> r, view |-> p.view, definition |-> p.view,
                    primary_key |-> KeyOf(p), columns |-> {said(c) : c \in p.columns}]
    <3> HIDE DEF said
    <3> QED
      BY <1>2, <1>3, <1>6, <1>11, <2>3 DEF Info, ViewsRead
  <2> QED
    BY <2>5, <2>6 DEF Truths
<1>12. ASSUME plain, NEW i \in TableInfos, i.table = r PROVE i = Info(t0)
  <2>1. PICK t \in read.tables : i = Info(t)
    BY InfosAre
  <2>2. t.table = r
    BY <1>12, <2>1 DEF Info
  <2> QED
    BY <1>2, <1>12, <2>1, <2>2 DEF TablesRead
<1>13. Info(t0).primary_key = InfoKey(t0)
  BY DEF Info
<1>14. \E i \in {j \in TableInfos : j.table = r} :
         /\ i.comment = r /\ i.view = p.view /\ i.definition = p.view
         /\ KeyOf(p) \subseteq i.primary_key
         /\ \A c \in p.columns : \E d \in i.columns :
              /\ d.name = c /\ d.comment = r /\ (c \in KeyOf(p) => d.key)
              /\ (\E t \in TargetsOf(p, c) : t[1][1] = r[1]) => d.to # {}
  <2>1. Info(t0) \in {j \in TableInfos : j.table = r}
    BY <1>4
  <2> HIDE DEF t0
  <2> QED
    BY <1>5, <1>6, <1>10, <1>13, <2>1
<1>15. plain => \E true \in Truths(r, p) : {j \in TableInfos : j.table = r} = {true}
  <2> HIDE DEF t0
  <2>1. plain => {j \in TableInfos : j.table = r} = {Info(t0)}
    BY <1>4, <1>12
  <2> QED
    BY <1>11, <2>1
<1> QED
  BY <1>14, <1>15 DEF p

\* A table that nobody alters while its source is introspected is described as it is:
\* exactly, in a source where names tell relations and constraints apart and a reference has
\* one column - of several targets of a column one is told - and in any source with all its
\* columns and keys and some target for each reference within its schema - whatever is done
\* to other tables between the five queries (PostgresIntrospector.introspect).
THEOREM IntrospectionIsTrue == IntrospectSpec => []UntouchedTablesAreRead
  BY IntrospectBegins, IntrospectStep, LearntIsRead, PTL DEF IntrospectSpec

-----------------------------------------------------------------------------
(* The enrichment of a table: what each stage may rely on is said by how far *)
(* the table has come.                                                     *)

\* The place of the stage that is next.
Place(s) == CHOOSE i \in 1 .. 7 : StageOrder[i] = s
Open(s) == s \in given.wanted \union {"done"}

LEMMA Stages ==
  /\ \A i \in 1 .. 7 : Place(StageOrder[i]) = i
  /\ Place("describe") = 1 /\ Place("semantics") = 2 /\ Place("protection") = 3
  /\ Place("relationships") = 4 /\ Place("causal") = 5 /\ Place("annotate") = 6
  /\ Place("done") = 7 /\ StageOrder[7] = "done" /\ StageOrder[6] = "annotate"
  /\ \A i \in 1 .. 6 : StageOrder[i] # "done"
<1>1. \A i, j \in 1 .. 7 : StageOrder[i] = StageOrder[j] => i = j
  BY DEF StageOrder
<1>2. \A i \in 1 .. 7 : Place(StageOrder[i]) = i
  BY <1>1 DEF Place
<1>3. /\ StageOrder[1] = "describe" /\ StageOrder[2] = "semantics" /\ StageOrder[3] = "protection"
      /\ StageOrder[4] = "relationships" /\ StageOrder[5] = "causal" /\ StageOrder[6] = "annotate"
      /\ StageOrder[7] = "done"
  BY DEF StageOrder
<1>4. 1 \in 1 .. 7 /\ 2 \in 1 .. 7 /\ 3 \in 1 .. 7 /\ 4 \in 1 .. 7 /\ 5 \in 1 .. 7 /\ 6 \in 1 .. 7 /\ 7 \in 1 .. 7
  OBVIOUS
<1>5. \A i \in 1 .. 6 : StageOrder[i] # "done"
  BY DEF StageOrder
<1> QED
  BY <1>2, <1>3, <1>4, <1>5

\* The next stage is one that is wanted, and none that is wanted is passed over.
LEMMA NextStage ==
  ASSUME NEW i \in 1 .. 7
  PROVE  /\ FirstFrom(i) \in {StageOrder[j] : j \in i .. 7}
         /\ Place(FirstFrom(i)) \in i .. 7
         /\ "annotate" \in given.wanted /\ i <= 6 => FirstFrom(i) # "done"
<1> DEFINE wanted == {j \in i .. 7 : Open(StageOrder[j])}
           Next(s) == Open(s) /\ \A j \in i .. Place(s) - 1 : ~ Open(StageOrder[j])
<1>1. 7 \in wanted
  BY Stages DEF Open
<1>2. PICK m \in wanted : \A j \in wanted : m <= j
  <2>1. wanted \in SUBSET Nat
    OBVIOUS
  <2> HIDE DEF wanted
  <2>2. PICK m \in wanted : \A j \in wanted : ~ (<<j, m>> \in OpToRel(<, Nat))
    BY <1>1, <2>1, NatLessThanWellFounded, WFMin
  <2>3. \A j \in wanted : ~ (j < m)
    BY <2>1, <2>2 DEF OpToRel
  <2> QED
    BY <2>1, <2>3
<1>3. m \in i .. 7 /\ m \in 1 .. 7 /\ Place(StageOrder[m]) = m
  BY <1>2, Stages
<1>4. Next(StageOrder[m])
  BY <1>2, <1>3
<1>5. FirstFrom(i) = CHOOSE s \in {StageOrder[j] : j \in i .. 7} : Next(s)
  BY DEF FirstFrom, Open, Place
<1>6. FirstFrom(i) \in {StageOrder[j] : j \in i .. 7} /\ Next(FirstFrom(i))
  <2> HIDE DEF Next
  <2> QED
    BY <1>3, <1>4, <1>5
<1>7. Place(FirstFrom(i)) \in i .. 7
  BY <1>6, Stages
<1>8. "annotate" \in given.wanted /\ i <= 6 => FirstFrom(i) # "done"
  <2> SUFFICES ASSUME "annotate" \in given.wanted, i <= 6, FirstFrom(i) = "done" PROVE FALSE
    OBVIOUS
  <2>1. \A j \in i .. 6 : ~ Open(StageOrder[j])
    BY <1>6, Stages
  <2> QED
    BY <2>1, Stages DEF Open
<1> QED
  BY <1>6, <1>7, <1>8

\* What the stages rely on: none has shown a column before it was classified, no card
\* was given before the causal stage and no record made before the annotation; a call is
\* made by a stage that is over.
EnrichInv ==
  /\ TableEnriched
  /\ Place(stage) \in 1 .. 7
  /\ out.asked < Place(stage)
  /\ Place(stage) <= 3 => out.shown = {}
  /\ Place(stage) <= 5 => mdl.tags = {} /\ out.took = {}
  /\ Place(stage) <= 6 => ~ out.record.written
  /\ mdl.tags = IF out.record.written THEN out.record.tags ELSE out.took

EnrichSpec == EnrichInit /\ [][EnrichNext]_enrichVars

\* A stage that is over leads to a later one; the annotation is not passed over.
LEMMA Onwards ==
  ASSUME EnrichInv, NEW s \in {StageOrder[j] : j \in 1 .. 6}, Onto(s)
  PROVE  /\ stage = s /\ given' = given
         /\ stage' \in {StageOrder[i] : i \in 1 .. 7}
         /\ Place(s) \in 1 .. 6 /\ Place(stage') \in Place(s) + 1 .. 7
         /\ "annotate" \in given.wanted /\ stage' = "done" => s = "annotate"
<1>1. PICK j \in 1 .. 6 : s = StageOrder[j] /\ j \in 1 .. 7
  OBVIOUS
<1>2. Place(s) = j
  BY <1>1, Stages
<1>3. (CHOOSE i \in 1 .. 6 : StageOrder[i] = s) = j
  <2>1. \A i \in 1 .. 6 : StageOrder[i] = s => i = j
    BY <1>1, Stages
  <2> QED
    BY <1>1, <2>1
<1>4. stage = s /\ stage' = FirstFrom(1 + j) /\ given' = given
  BY <1>3 DEF Onto
<1>5. 1 + j \in 1 .. 7 /\ (j # 6 => 1 + j <= 6)
  OBVIOUS
<1>6. /\ FirstFrom(1 + j) \in {StageOrder[k] : k \in 1 + j .. 7} /\ Place(FirstFrom(1 + j)) \in 1 + j .. 7
      /\ "annotate" \in given.wanted /\ 1 + j <= 6 => FirstFrom(1 + j) # "done"
  BY <1>5, NextStage
<1>7. j = 6 => s = "annotate"
  BY <1>1, Stages
<1> QED
  BY <1>1, <1>2, <1>4, <1>5, <1>6, <1>7

\* What is left to show of a stage that did what it did.
LEMMA StageOver ==
  ASSUME EnrichInv, NEW s \in {StageOrder[j] : j \in 1 .. 6}, Onto(s),
         mdl' \in [text : [Describable -> {"none", "native", "llm"}], unit : SUBSET Fields,
                   flag : [Fields -> {"unset", "plain", "pii"}],
                   references : [Fields -> {"none", "declared", "inferred"}], tags : SUBSET Cards],
         out' \in [inferred : BOOLEAN, shown : SUBSET SUBSET Fields, took : SUBSET CausalNodes,
                   heard : BOOLEAN, record : [written : BOOLEAN, tags : SUBSET Cards],
                   asked : Nat, counted : Nat],
         \A d \in Describable : mdl'.text[d] = "native" <=> mdl.text[d] = "native",
         \A c \in Fields : mdl'.references[c] = "declared" <=> mdl.references[c] = "declared",
         given.declared # {} => ~ out'.inferred,
         \A marked \in out'.shown : marked = {c \in Fields : mdl'.flag[c] = "pii"},
         Place(s) < 4 => out'.shown = {},
         out'.asked \in {out.asked, out.asked + 1}, out'.counted <= out'.asked,
         out'.counted \in {out.counted, out.counted + 1},
         ~ given.provider => out'.asked = out.asked,
         mdl'.tags \subseteq given.vocabulary,
         Place(s) < 5 => mdl'.tags = {} /\ out'.took = {},
         Place(s) < 6 => ~ out'.record.written,
         mdl'.tags = IF out'.record.written THEN out'.record.tags ELSE out'.took,
         s = "annotate" => LexiconStandsIn' \/ given.found = {}
  PROVE  EnrichInv'
<1>1. /\ stage = s /\ given' = given
      /\ stage' \in {StageOrder[i] : i \in 1 .. 7}
      /\ Place(s) \in 1 .. 6 /\ Place(stage') \in Place(s) + 1 .. 7
      /\ "annotate" \in given.wanted /\ stage' = "done" => s = "annotate"
  BY Onwards
<1>2. Place(stage)' = Place(stage')
  BY DEF Place
<1>3. LexiconStandsIn'
  BY <1>1 DEF LexiconStandsIn
<1>4. SourceWins'
  BY <1>1 DEF SourceWins, EnrichInv, TableEnriched
<1>5. StagesInOrder' /\ out'.asked \in 0 .. 6 /\ out'.counted \in 0 .. 6
      /\ out'.asked < Place(stage')
  <2>1. out.asked \in 0 .. 6 /\ out.counted \in 0 .. 6 /\ out.asked < Place(s) /\ (~ given.provider => out.asked = 0)
    BY <1>1 DEF EnrichInv, TableEnriched, EnrichTypeOK, StagesInOrder
  <2>2. out'.asked \in 0 .. 6 /\ out'.counted \in 0 .. 6 /\ out'.asked < Place(stage')
    BY <1>1, <2>1
  <2> QED
    BY <1>1, <2>1, <2>2 DEF StagesInOrder
<1>6. EnrichTypeOK'
  <2>1. given \in Givens /\ given.found \subseteq given.vocabulary
    BY DEF EnrichInv, TableEnriched, EnrichTypeOK
  <2>2. out' \in [inferred : BOOLEAN, shown : SUBSET SUBSET Fields, took : SUBSET CausalNodes,
                  heard : BOOLEAN, record : [written : BOOLEAN, tags : SUBSET Cards],
                  asked : 0 .. 6, counted : 0 .. 6]
    BY <1>5
  <2>3. Givens' = Givens /\ Describable' = Describable
    BY DEF Givens, Describable, StageOrder
  <2> QED
    BY <1>1, <2>1, <2>2, <2>3 DEF EnrichTypeOK, StageOrder
<1>7. RecordIsTheModel' /\ mdl'.tags \subseteq given'.vocabulary
  BY <1>1 DEF RecordIsTheModel
<1> QED
  BY <1>1, <1>2, <1>3, <1>4, <1>5, <1>6, <1>7 DEF EnrichInv, TableEnriched

\* The state as the stages take it apart.
LEMMA Fields_ ==
  ASSUME EnrichInv
  PROVE  /\ mdl \in [text : [Describable -> {"none", "native", "llm"}], unit : SUBSET Fields,
                     flag : [Fields -> {"unset", "plain", "pii"}],
                     references : [Fields -> {"none", "declared", "inferred"}], tags : SUBSET Cards]
         /\ out \in [inferred : BOOLEAN, shown : SUBSET SUBSET Fields, took : SUBSET CausalNodes,
                     heard : BOOLEAN, record : [written : BOOLEAN, tags : SUBSET Cards],
                     asked : Nat, counted : Nat]
         /\ given.vocabulary \subseteq Cards /\ given.found \subseteq given.vocabulary
         /\ given.declared # {} => ~ out.inferred
         /\ \A marked \in out.shown : marked = {c \in Fields : mdl.flag[c] = "pii"}
         /\ out.counted <= out.asked
         /\ mdl.tags \subseteq given.vocabulary
         /\ \A s : stage = s /\ Place(s) < 4 => out.shown = {}
         /\ \A s : stage = s /\ Place(s) < 6 => ~ out.record.written
         /\ \A s : stage = s /\ Place(s) < 6 => mdl.tags = {} /\ out.took = {}
         /\ mdl.tags = IF out.record.written THEN out.record.tags ELSE out.took
<1>1. Place(stage) \in 1 .. 7
  BY DEF EnrichInv
<1> QED
  BY <1>1 DEF EnrichInv, TableEnriched, EnrichTypeOK, SourceWins, StagesInOrder, Givens

LEMMA StageNames == \A s \in {"describe", "semantics", "protection", "relationships", "causal", "annotate"} :
                      s \in {StageOrder[j] : j \in 1 .. 6}
  BY DEF StageOrder

\* A stage that asks nothing, or is not answered, changes its calls at most.
LEMMA StageQuiet ==
  ASSUME EnrichInv, NEW s \in {"describe", "semantics", "protection", "relationships", "causal"}, NEW none,
         Skips(s, none) \/ CallFails(s, none)
  PROVE  EnrichInv'
<1>1. Onto(s) /\ mdl' = mdl /\ stage = s
      /\ out' \in {out, [out EXCEPT !.asked = @ + 1]} /\ (~ given.provider => out' = out)
  BY DEF Skips, CallFails, Onto
<1>2. s \in {StageOrder[j] : j \in 1 .. 6} /\ s # "annotate" /\ Place(s) < 6 /\ Place(s) \in Nat
  BY StageNames, Stages
<1>3. /\ out'.asked \in {out.asked, out.asked + 1} /\ out'.counted = out.counted
      /\ out'.inferred = out.inferred /\ out'.shown = out.shown /\ out'.took = out.took
      /\ out'.record = out.record
      /\ out' \in [inferred : BOOLEAN, shown : SUBSET SUBSET Fields, took : SUBSET CausalNodes,
                     heard : BOOLEAN, record : [written : BOOLEAN, tags : SUBSET Cards],
                     asked : Nat, counted : Nat]
      /\ out'.asked >= out.asked
  BY <1>1, Fields_
<1>4. out'.counted <= out'.asked
  <2>1. out.asked \in Nat /\ out.counted \in Nat /\ out'.asked \in Nat
    BY <1>3, Fields_
  <2> QED
    BY <1>3, <2>1, Fields_
<1> QED
  BY <1>1, <1>2, <1>3, <1>4, Fields_, StageOver

\* One call more was made, and it was answered.
LEMMA CallHeard ==
  ASSUME EnrichInv
  PROVE  /\ Heard(out).asked = out.asked + 1 /\ Heard(out).counted = out.counted + 1
         /\ Heard(out).inferred = out.inferred /\ Heard(out).shown = out.shown
         /\ Heard(out).took = out.took /\ Heard(out).record = out.record
         /\ Heard(out).counted <= Heard(out).asked
         /\ Heard(out) \in [inferred : BOOLEAN, shown : SUBSET SUBSET Fields, took : SUBSET CausalNodes,
                            heard : BOOLEAN, record : [written : BOOLEAN, tags : SUBSET Cards],
                            asked : Nat, counted : Nat]
<1>1. PICK i \in BOOLEAN, shown \in SUBSET SUBSET Fields, took \in SUBSET CausalNodes, heard \in BOOLEAN,
           record \in [written : BOOLEAN, tags : SUBSET Cards], asked \in Nat, counted \in Nat :
        out = [inferred |-> i, shown |-> shown, took |-> took, heard |-> heard,
               record |-> record, asked |-> asked, counted |-> counted]
  BY Fields_
<1>2. Heard(out) = [inferred |-> i, shown |-> shown, took |-> took, heard |-> heard,
                    record |-> record, asked |-> asked + 1, counted |-> counted + 1]
  <2> DEFINE asks == [out EXCEPT !.asked = @ + 1]
  <2>1. asks = [inferred |-> i, shown |-> shown, took |-> took, heard |-> heard,
                record |-> record, asked |-> asked + 1, counted |-> counted]
    BY <1>1
  <2>2. Heard(out) = [asks EXCEPT !.counted = @ + 1]
    BY <1>1 DEF Heard
  <2> HIDE DEF asks
  <2> QED
    BY <2>1, <2>2
<1>3. counted <= asked
  BY <1>1, Fields_
<1> QED
  BY <1>1, <1>2, <1>3

LEMMA DescribeKeeps ==
  ASSUME EnrichInv, NEW texts \in SUBSET Describable, DescribeTable(texts)
  PROVE  EnrichInv'
<1>1. Onto("describe") /\ given.provider /\ mdl' = [mdl EXCEPT !.text = Fill(texts)]
      /\ out' \in {Heard(out), [out EXCEPT !.asked = @ + 1]} /\ stage = "describe"
  BY DEF DescribeTable, Answers, Onto
<1>2. "describe" \in {StageOrder[j] : j \in 1 .. 6} /\ Place("describe") = 1
  BY StageNames, Stages
<1>3. /\ mdl' \in [text : [Describable -> {"none", "native", "llm"}], unit : SUBSET Fields,
                   flag : [Fields -> {"unset", "plain", "pii"}],
                   references : [Fields -> {"none", "declared", "inferred"}], tags : SUBSET Cards]
      /\ mdl'.flag = mdl.flag /\ mdl'.references = mdl.references /\ mdl'.tags = mdl.tags
      /\ mdl'.text = Fill(texts)
  BY <1>1, Fields_ DEF Fill
<1>4. \A d \in Describable : mdl'.text[d] = "native" <=> mdl.text[d] = "native"
  BY <1>3 DEF Fill
<1>5. /\ out'.asked = out.asked + 1 /\ out'.counted \in {out.counted, out.counted + 1}
      /\ out'.inferred = out.inferred /\ out'.shown = out.shown /\ out'.took = out.took
      /\ out'.record = out.record
      /\ out' \in [inferred : BOOLEAN, shown : SUBSET SUBSET Fields, took : SUBSET CausalNodes,
                     heard : BOOLEAN, record : [written : BOOLEAN, tags : SUBSET Cards],
                     asked : Nat, counted : Nat]
      /\ out'.counted <= out'.asked
  BY <1>1, Fields_, CallHeard
<1> QED
  BY <1>1, <1>2, <1>3, <1>4, <1>5, Fields_, StageOver

LEMMA SemanticsKeeps ==
  ASSUME EnrichInv, NEW columns \in SUBSET Fields, Semantics(columns)
  PROVE  EnrichInv'
<1>1. Onto("semantics") /\ given.provider /\ mdl' = [mdl EXCEPT !.unit = @ \union columns]
      /\ out' = Heard(out) /\ stage = "semantics"
  BY DEF Semantics, Answers, Onto
<1>2. "semantics" \in {StageOrder[j] : j \in 1 .. 6} /\ Place("semantics") = 2
  BY StageNames, Stages
<1>3. /\ mdl' \in [text : [Describable -> {"none", "native", "llm"}], unit : SUBSET Fields,
                   flag : [Fields -> {"unset", "plain", "pii"}],
                   references : [Fields -> {"none", "declared", "inferred"}], tags : SUBSET Cards]
      /\ mdl'.flag = mdl.flag /\ mdl'.references = mdl.references /\ mdl'.tags = mdl.tags
      /\ mdl'.text = mdl.text
  BY <1>1, Fields_
<1>5. /\ out'.asked = out.asked + 1 /\ out'.counted \in {out.counted, out.counted + 1}
      /\ out'.inferred = out.inferred /\ out'.shown = out.shown /\ out'.took = out.took
      /\ out'.record = out.record
      /\ out' \in [inferred : BOOLEAN, shown : SUBSET SUBSET Fields, took : SUBSET CausalNodes,
                     heard : BOOLEAN, record : [written : BOOLEAN, tags : SUBSET Cards],
                     asked : Nat, counted : Nat]
      /\ out'.counted <= out'.asked
  BY <1>1, Fields_, CallHeard
<1> QED
  BY <1>1, <1>2, <1>3, <1>5, Fields_, StageOver

LEMMA ProtectKeeps ==
  ASSUME EnrichInv, NEW flags \in [Fields -> {"unset", "plain", "pii"}], Protect(flags)
  PROVE  EnrichInv'
<1>1. /\ Onto("protection") /\ given.provider /\ out' = Heard(out) /\ stage = "protection"
      /\ mdl' = [mdl EXCEPT !.flag = [c \in Fields |-> IF mdl.flag[c] = "unset" THEN flags[c] ELSE mdl.flag[c]]]
  BY DEF Protect, Answers, Onto
<1>2. "protection" \in {StageOrder[j] : j \in 1 .. 6} /\ Place("protection") = 3
  BY StageNames, Stages
<1>3. /\ mdl' \in [text : [Describable -> {"none", "native", "llm"}], unit : SUBSET Fields,
                   flag : [Fields -> {"unset", "plain", "pii"}],
                   references : [Fields -> {"none", "declared", "inferred"}], tags : SUBSET Cards]
      /\ mdl'.references = mdl.references /\ mdl'.tags = mdl.tags /\ mdl'.text = mdl.text
  BY <1>1, Fields_
<1>4. out.shown = {}
  BY <1>1, <1>2, Fields_
<1>5. /\ out'.asked = out.asked + 1 /\ out'.counted \in {out.counted, out.counted + 1}
      /\ out'.inferred = out.inferred /\ out'.shown = out.shown /\ out'.took = out.took
      /\ out'.record = out.record
      /\ out' \in [inferred : BOOLEAN, shown : SUBSET SUBSET Fields, took : SUBSET CausalNodes,
                     heard : BOOLEAN, record : [written : BOOLEAN, tags : SUBSET Cards],
                     asked : Nat, counted : Nat]
      /\ out'.counted <= out'.asked
  BY <1>1, Fields_, CallHeard
<1> QED
  BY <1>1, <1>2, <1>3, <1>4, <1>5, Fields_, StageOver

LEMMA RelateKeeps ==
  ASSUME EnrichInv, NEW entries \in SUBSET [column : Fields, sure : BOOLEAN], Relate(entries)
  PROVE  EnrichInv'
<1> DEFINE marked == {c \in Fields : mdl.flag[c] = "pii"}
<1>1. /\ Onto("relationships") /\ given.provider /\ stage = "relationships" /\ ~ NothingToRelate
      /\ mdl' = [mdl EXCEPT !.references =
           [c \in Fields |-> IF [column |-> c, sure |-> TRUE] \in entries /\ mdl.references[c] = "none"
                             THEN "inferred" ELSE mdl.references[c]]]
      /\ out' = [Heard(out) EXCEPT !.inferred = entries # {},
                   !.shown = IF entries = {} THEN out.shown ELSE out.shown \union {marked}]
  BY DEF Relate, Answers, Onto, Heard
<1>2. "relationships" \in {StageOrder[j] : j \in 1 .. 6} /\ Place("relationships") = 4
  BY StageNames, Stages
<1>3. /\ mdl' \in [text : [Describable -> {"none", "native", "llm"}], unit : SUBSET Fields,
                   flag : [Fields -> {"unset", "plain", "pii"}],
                   references : [Fields -> {"none", "declared", "inferred"}], tags : SUBSET Cards]
      /\ mdl'.flag = mdl.flag /\ mdl'.tags = mdl.tags /\ mdl'.text = mdl.text
      /\ \A c \in Fields : mdl'.references[c] = "declared" <=> mdl.references[c] = "declared"
  BY <1>1, Fields_
<1>4. given.declared = {}
  <2>1. \A c \in Fields : mdl.references[c] = "none"
    BY <1>1 DEF NothingToRelate
  <2>2. \A c \in Fields : mdl.references[c] = "declared" <=> c \in given.declared
    BY DEF EnrichInv, TableEnriched, SourceWins
  <2>3. given.declared \subseteq Fields
    BY EnrichAssumption DEF EnrichInv, TableEnriched, EnrichTypeOK, Givens
  <2> QED
    BY <2>1, <2>2, <2>3
<1> HIDE DEF marked
<1>5. /\ out'.asked = out.asked + 1 /\ out'.counted \in {out.counted, out.counted + 1}
      /\ out'.shown \subseteq out.shown \union {marked} /\ out'.took = out.took
      /\ out'.record = out.record
      /\ out'.counted <= out'.asked
  BY <1>1, Fields_, CallHeard
<1>6. out' \in [inferred : BOOLEAN, shown : SUBSET SUBSET Fields, took : SUBSET CausalNodes,
                heard : BOOLEAN, record : [written : BOOLEAN, tags : SUBSET Cards],
                asked : Nat, counted : Nat]
  <2>1. marked \in SUBSET Fields
    BY DEF marked
  <2> QED
    BY <1>1, <2>1, Fields_, CallHeard
<1>7. \A m \in out'.shown : m = {c \in Fields : mdl'.flag[c] = "pii"}
  BY <1>3, <1>5, Fields_ DEF marked
<1>8. mdl'.tags \subseteq given.vocabulary /\ mdl'.tags = {} /\ out'.took = {} /\ ~ out'.record.written
  BY <1>1, <1>2, <1>3, <1>5, Fields_
<1> QED
  <2>1. Onto("relationships") /\ given.provider
    BY <1>1
  <2>2. Place("relationships") = 4 /\ ~ (4 < 4) /\ "relationships" # "annotate"
    BY <1>2
  <2> QED
    BY <1>2, <1>3, <1>4, <1>5, <1>6, <1>7, <1>8, <2>1, <2>2, StageOver

LEMMA CauseKeeps ==
  ASSUME EnrichInv, NEW nodes, NEW proposes \in BOOLEAN, Cause(nodes, proposes)
  PROVE  EnrichInv'
<1> DEFINE marked == {c \in Fields : mdl.flag[c] = "pii"}
           known == nodes \intersect given.vocabulary \intersect CausalNodes
<1>1. /\ Onto("causal") /\ given.provider /\ stage = "causal"
      /\ mdl' = [mdl EXCEPT !.tags = mdl.tags \union known]
      /\ out' = [Heard(out) EXCEPT !.took = known,
                   !.shown = IF proposes THEN out.shown \union {marked} ELSE out.shown]
  BY DEF Cause, Answers, Onto, Heard
<1>2. "causal" \in {StageOrder[j] : j \in 1 .. 6} /\ Place("causal") = 5
  BY StageNames, Stages
<1>3. known \subseteq given.vocabulary /\ known \subseteq Cards /\ known \subseteq CausalNodes
      /\ mdl.tags = {} /\ ~ out.record.written
  BY <1>1, <1>2, Fields_, EnrichAssumption
<1> HIDE DEF marked, known
<1>4. /\ mdl' \in [text : [Describable -> {"none", "native", "llm"}], unit : SUBSET Fields,
                   flag : [Fields -> {"unset", "plain", "pii"}],
                   references : [Fields -> {"none", "declared", "inferred"}], tags : SUBSET Cards]
      /\ mdl'.flag = mdl.flag /\ mdl'.tags = known /\ mdl'.text = mdl.text
      /\ mdl'.references = mdl.references
  BY <1>1, <1>3, Fields_
<1>5. /\ out'.asked = out.asked + 1 /\ out'.counted \in {out.counted, out.counted + 1}
      /\ out'.shown \subseteq out.shown \union {marked} /\ out'.took = known
      /\ out'.record = out.record /\ out'.inferred = out.inferred
      /\ out'.counted <= out'.asked
  BY <1>1, Fields_, CallHeard
<1>6. out' \in [inferred : BOOLEAN, shown : SUBSET SUBSET Fields, took : SUBSET CausalNodes,
                heard : BOOLEAN, record : [written : BOOLEAN, tags : SUBSET Cards],
                asked : Nat, counted : Nat]
  <2>1. marked \in SUBSET Fields
    BY DEF marked
  <2> QED
    BY <1>1, <1>3, <2>1, Fields_, CallHeard
<1>7. \A m \in out'.shown : m = {c \in Fields : mdl'.flag[c] = "pii"}
  BY <1>4, <1>5, Fields_ DEF marked
<1> QED
  BY <1>1, <1>2, <1>3, <1>4, <1>5, <1>6, <1>7, Fields_, StageOver

OutRecords == [inferred : BOOLEAN, shown : SUBSET SUBSET Fields, took : SUBSET CausalNodes,
               heard : BOOLEAN, record : [written : BOOLEAN, tags : SUBSET Cards],
               asked : Nat, counted : Nat]

\* The annotation makes a record that says what the model then says, or changes neither -
\* and then the lexicon found nothing, is not used, or an LLM answered.
LEMMA AnnotateKeeps ==
  ASSUME EnrichInv, Onto("annotate"), out' \in OutRecords,
         NEW tags \in SUBSET given.vocabulary, mdl' \in {mdl, [mdl EXCEPT !.tags = tags]},
         out'.inferred = out.inferred, out'.shown = out.shown, out'.took = out.took,
         out'.asked \in {out.asked, out.asked + 1}, out'.counted \in {out.counted, out.counted + 1},
         out'.counted <= out'.asked, ~ given.provider => out'.asked = out.asked,
         \/ /\ mdl' = mdl /\ out'.record = out.record
            /\ given.found = {} \/ given.mode = "llm_only" \/ out'.heard
         \/ out'.record.written /\ out'.record.tags = tags /\ mdl' = [mdl EXCEPT !.tags = tags]
  PROVE  EnrichInv'
<1>1. "annotate" \in {StageOrder[j] : j \in 1 .. 6} /\ Place("annotate") = 6 /\ stage = "annotate"
  BY StageNames, Stages DEF Onto
<1>2. tags \subseteq Cards
  BY Fields_
<1>3. /\ mdl' \in [text : [Describable -> {"none", "native", "llm"}], unit : SUBSET Fields,
                   flag : [Fields -> {"unset", "plain", "pii"}],
                   references : [Fields -> {"none", "declared", "inferred"}], tags : SUBSET Cards]
      /\ mdl'.flag = mdl.flag /\ mdl'.text = mdl.text /\ mdl'.references = mdl.references
      /\ mdl' = [mdl EXCEPT !.tags = tags] => mdl'.tags = tags
  BY <1>2, Fields_
<1>4. /\ mdl'.tags \subseteq given.vocabulary
      /\ mdl'.tags = IF out'.record.written THEN out'.record.tags ELSE out'.took
  BY <1>3, Fields_
<1>5. LexiconStandsIn' \/ given.found = {}
  BY DEF LexiconStandsIn, Onto
<1> QED
  BY <1>1, <1>3, <1>4, <1>5, Fields_, StageOver DEF OutRecords

\* What the annotation does to what is handed on.
LEMMA OutTypes ==
  ASSUME EnrichInv
  PROVE  /\ out \in OutRecords /\ Heard(out) \in OutRecords
         /\ [out EXCEPT !.asked = @ + 1] \in OutRecords
         /\ [out EXCEPT !.asked = @ + 1].asked = out.asked + 1
         /\ \A f \in {"inferred", "shown", "took", "record", "counted"} : [out EXCEPT !.asked = @ + 1][f] = out[f]
  BY Fields_, CallHeard DEF OutRecords

LEMMA AnnotatedIs ==
  ASSUME NEW o \in OutRecords, NEW tags \in SUBSET Cards
  PROVE  /\ Annotated(o, tags) \in OutRecords
         /\ Annotated(o, tags).record.written /\ Annotated(o, tags).record.tags = tags
         /\ \A f \in {"inferred", "shown", "took", "asked", "counted"} : Annotated(o, tags)[f] = o[f]
  BY DEF Annotated, OutRecords

LEMMA HeardIs ==
  ASSUME NEW o \in OutRecords
  PROVE  LET h == [o EXCEPT !.heard = TRUE] IN
         /\ h \in OutRecords /\ h.heard
         /\ \A f \in {"inferred", "shown", "took", "asked", "counted", "record"} : h[f] = o[f]
  BY DEF OutRecords

LEMMA LexicalKeeps ==
  ASSUME EnrichInv, Onto("annotate"), NEW o \in OutRecords, Lexical(o),
         o.inferred = out.inferred, o.shown = out.shown, o.took = out.took, o.record = out.record,
         o.asked \in {out.asked, out.asked + 1}, o.counted = out.counted,
         ~ given.provider => o.asked = out.asked
  PROVE  EnrichInv'
<1>1. o.counted <= o.asked /\ o.asked \in Nat /\ o.counted \in Nat
  BY Fields_ DEF OutRecords
<1>2. CASE given.mode = "llm_only" \/ given.found = {}
  <2>1. out' = o /\ mdl' = mdl
    BY <1>2 DEF Lexical, FromLexicon
  <2> QED
    BY <1>1, <1>2, <2>1, Fields_, AnnotateKeeps
<1>3. CASE ~ (given.mode = "llm_only" \/ given.found = {})
  <2>1. out' = Annotated(o, given.found) /\ mdl' = [mdl EXCEPT !.tags = given.found]
    BY <1>3 DEF Lexical, FromLexicon
  <2>2. given.found \in SUBSET Cards /\ given.found \in SUBSET given.vocabulary
    BY Fields_
  <2>3. /\ out' \in OutRecords
        /\ out'.record.written /\ out'.record.tags = given.found
        /\ out'.inferred = o.inferred /\ out'.shown = o.shown /\ out'.took = o.took
        /\ out'.asked = o.asked /\ out'.counted = o.counted
    BY <2>1, <2>2, AnnotatedIs
  <2> HIDE DEF OutRecords
  <2> QED
    BY <1>1, <2>1, <2>2, <2>3, Fields_, AnnotateKeeps
<1> QED
  BY <1>2, <1>3

LEMMA WithoutKeeps ==
  ASSUME EnrichInv, AnnotateWithout \/ AnnotateFails \/ NoAnnotation
  PROVE  EnrichInv'
<1>1. CASE AnnotateWithout
  BY <1>1, OutTypes, LexicalKeeps DEF AnnotateWithout
<1>2. CASE AnnotateFails
  <2> DEFINE o == [out EXCEPT !.asked = @ + 1]
  <2>1. /\ o \in OutRecords /\ o.inferred = out.inferred /\ o.shown = out.shown /\ o.took = out.took
        /\ o.record = out.record /\ o.asked = out.asked + 1 /\ o.counted = out.counted
    BY OutTypes
  <2>2. Onto("annotate") /\ given.provider /\ Lexical(o)
    BY <1>2 DEF AnnotateFails, Asks
  <2> HIDE DEF o
  <2> QED
    BY <2>1, <2>2, LexicalKeeps
<1>3. CASE NoAnnotation
  <2>1. Onto("annotate") /\ mdl' = mdl /\ out' = out /\ given.found = {}
    BY <1>3, Fields_ DEF NoAnnotation, NoVocabulary
  <2> QED
    BY <2>1, OutTypes, Fields_, AnnotateKeeps
<1> QED
  BY <1>1, <1>2, <1>3

LEMMA AnsweredKeeps ==
  ASSUME EnrichInv, NEW names, NEW reasoned, AnnotateAnswered(names, reasoned)
  PROVE  EnrichInv'
<1> DEFINE kept == names \intersect given.vocabulary
<1>1. Onto("annotate") /\ given.provider /\ kept \in SUBSET given.vocabulary /\ kept \in SUBSET Cards
  BY Fields_ DEF AnnotateAnswered, Asks
<1>2. CASE kept = {} /\ ~ reasoned
  <2> DEFINE o == [out EXCEPT !.asked = @ + 1]
  <2>1. out' = [o EXCEPT !.heard = TRUE] /\ mdl' = mdl
    BY <1>2 DEF AnnotateAnswered
  <2>2. /\ o \in OutRecords /\ o.inferred = out.inferred /\ o.shown = out.shown /\ o.took = out.took
        /\ o.record = out.record /\ o.asked = out.asked + 1 /\ o.counted = out.counted
    BY OutTypes
  <2> HIDE DEF o
  <2>3. /\ out' \in OutRecords /\ out'.heard
        /\ out'.inferred = o.inferred /\ out'.shown = o.shown /\ out'.took = o.took /\ out'.asked = o.asked
        /\ out'.counted = o.counted /\ out'.record = o.record
    BY <2>1, <2>2, HeardIs
  <2>4. out'.counted <= out'.asked
    BY <2>2, <2>3, Fields_
  <2> QED
    BY <1>1, <2>1, <2>2, <2>3, <2>4, AnnotateKeeps
<1>3. CASE ~ (kept = {} /\ ~ reasoned)
  <2> DEFINE h == Heard(out)
             o == Annotated(h, kept)
  <2>1. out' = [o EXCEPT !.heard = TRUE] /\ mdl' = [mdl EXCEPT !.tags = kept]
    BY <1>3 DEF AnnotateAnswered
  <2>2. /\ h \in OutRecords /\ h.inferred = out.inferred /\ h.shown = out.shown /\ h.took = out.took
        /\ h.asked = out.asked + 1 /\ h.counted = out.counted + 1
    BY OutTypes, CallHeard
  <2> HIDE DEF h
  <2>3. /\ o \in OutRecords /\ o.inferred = h.inferred /\ o.shown = h.shown /\ o.took = h.took
        /\ o.record.written /\ o.record.tags = kept /\ o.asked = h.asked /\ o.counted = h.counted
    BY <1>1, <2>2, AnnotatedIs
  <2> HIDE DEF o
  <2>4. /\ out' \in OutRecords /\ out'.heard
        /\ out'.inferred = o.inferred /\ out'.shown = o.shown /\ out'.took = o.took /\ out'.asked = o.asked
        /\ out'.counted = o.counted /\ out'.record = o.record
    BY <2>1, <2>3, HeardIs
  <2>5. out'.counted <= out'.asked
    BY <2>2, <2>3, <2>4, Fields_
  <2> QED
    BY <1>1, <2>1, <2>2, <2>3, <2>4, <2>5, AnnotateKeeps
<1> QED
  BY <1>2, <1>3

LEMMA EnrichBegins == EnrichInit => EnrichInv
<1> SUFFICES ASSUME EnrichInit PROVE EnrichInv
  OBVIOUS
<1>1. /\ stage \in {StageOrder[i] : i \in 1 .. 7} /\ Place(stage) \in 1 .. 7
      /\ "annotate" \in given.wanted => stage # "done"
  BY NextStage DEF EnrichInit
<1>2. given \in Givens /\ given.found \subseteq given.vocabulary
  BY DEF EnrichInit
<1>3. /\ mdl.text = [d \in Describable |-> IF d \in given.native THEN "native" ELSE "none"]
      /\ mdl.references = [c \in Fields |-> IF c \in given.declared THEN "declared" ELSE "none"]
      /\ mdl.tags = {}
      /\ mdl \in [text : [Describable -> {"none", "native", "llm"}], unit : SUBSET Fields,
                  flag : [Fields -> {"unset", "plain", "pii"}],
                  references : [Fields -> {"none", "declared", "inferred"}], tags : SUBSET Cards]
  BY DEF EnrichInit
<1>4. /\ out.inferred = FALSE /\ out.shown = {} /\ out.took = {} /\ out.asked = 0 /\ out.counted = 0
      /\ out.record.written = FALSE
      /\ out \in [inferred : BOOLEAN, shown : SUBSET SUBSET Fields, took : SUBSET CausalNodes,
                  heard : BOOLEAN, record : [written : BOOLEAN, tags : SUBSET Cards],
                  asked : 0 .. 6, counted : 0 .. 6]
  BY DEF EnrichInit, NoRecord
<1>5. EnrichTypeOK
  BY <1>1, <1>2, <1>3, <1>4 DEF EnrichTypeOK
<1>6. SourceWins
  BY <1>3, <1>4 DEF SourceWins
<1>7. RecordIsTheModel /\ LexiconStandsIn /\ StagesInOrder
  BY <1>1, <1>3, <1>4 DEF RecordIsTheModel, LexiconStandsIn, StagesInOrder
<1> QED
  BY <1>1, <1>3, <1>4, <1>5, <1>6, <1>7 DEF EnrichInv, TableEnriched

LEMMA EnrichStep == EnrichInv /\ [EnrichNext]_enrichVars => EnrichInv'
<1> SUFFICES ASSUME EnrichInv, [EnrichNext]_enrichVars PROVE EnrichInv'
  OBVIOUS
<1>1. CASE UNCHANGED enrichVars
  BY <1>1 DEF enrichVars, EnrichInv, TableEnriched, EnrichTypeOK, SourceWins, RecordIsTheModel, LexiconStandsIn,
       StagesInOrder, Givens, Describable, Place
<1>2. ASSUME NEW s \in {"describe", "semantics", "protection", "relationships", "causal"}, NEW none,
             Skips(s, none) \/ CallFails(s, none)
      PROVE  EnrichInv'
  BY <1>2, StageQuiet
<1>3. CASE \E quiet \in {[s |-> "describe", none |-> NothingToDescribe], [s |-> "semantics", none |-> NothingToMeasure],
                   [s |-> "protection", none |-> NothingToClassify], [s |-> "relationships", none |-> NothingToRelate],
                   [s |-> "causal", none |-> NothingToCause]} :
             Skips(quiet.s, quiet.none) \/ CallFails(quiet.s, quiet.none)
  <2> DEFINE Quiets == {[s |-> "describe", none |-> NothingToDescribe], [s |-> "semantics", none |-> NothingToMeasure],
                        [s |-> "protection", none |-> NothingToClassify], [s |-> "relationships", none |-> NothingToRelate],
                        [s |-> "causal", none |-> NothingToCause]}
  <2>1. PICK quiet \in Quiets : Skips(quiet.s, quiet.none) \/ CallFails(quiet.s, quiet.none)
    BY <1>3
  <2>2. quiet.s \in {"describe", "semantics", "protection", "relationships", "causal"}
    OBVIOUS
  <2> HIDE DEF Quiets
  <2> QED
    BY <1>2, <2>1, <2>2
<1>4. ASSUME NEW texts \in SUBSET Describable, DescribeTable(texts) PROVE EnrichInv'
  BY <1>4, DescribeKeeps
<1>5. ASSUME NEW columns \in SUBSET Fields, Semantics(columns) PROVE EnrichInv'
  BY <1>5, SemanticsKeeps
<1>6. ASSUME NEW flags \in [Fields -> {"unset", "plain", "pii"}], Protect(flags) PROVE EnrichInv'
  BY <1>6, ProtectKeeps
<1>7. ASSUME NEW entries \in SUBSET [column : Fields, sure : BOOLEAN], Relate(entries) PROVE EnrichInv'
  BY <1>7, RelateKeeps
<1>8. ASSUME NEW nodes \in SUBSET (CausalNodes \union {Unknown}), NEW proposes \in BOOLEAN, Cause(nodes, proposes)
      PROVE  EnrichInv'
  BY <1>8, CauseKeeps
<1>9. ASSUME NEW names \in SUBSET (Cards \union {Unknown}), NEW reasoned \in BOOLEAN, AnnotateAnswered(names, reasoned)
      PROVE  EnrichInv'
  BY <1>9, AnsweredKeeps
<1> QED
  BY <1>1, <1>3, <1>4, <1>5, <1>6, <1>7, <1>8, <1>9, WithoutKeeps DEF EnrichNext

\* The stages of a table leave what its source says of it, mark every column that is found
\* to be personal in all they show, and hand on the annotation that the model has - however
\* the calls of the LLM end (enrich and the stages it applies).
THEOREM TablesAreEnriched == EnrichSpec => []TableEnriched
<1>1. EnrichInv => TableEnriched
  BY DEF EnrichInv
<1> QED
  BY <1>1, EnrichBegins, EnrichStep, PTL DEF EnrichSpec

-----------------------------------------------------------------------------
(* Queries on a lakehouse. *)

\* The states a query may be reported in while its task is at a place.
Reported(q) ==
    /\ task[q] = "none" => state[q] = "unknown"
    /\ task[q] = "created" => state[q] = "pending" \/ (q \in cancelReq /\ state[q] = "cancelled")
    /\ task[q] = "executing" => state[q] = "running" \/ (q \in cancelReq /\ state[q] = "cancelled")
    /\ task[q] = "unwinding" => state[q] \in {"running", "cancelled"}
Accounted == \A q \in Queries : Reported(q)

\* While the store is open only cancel asks a task to stop, and says so at once.
AskedMeansCancelled ==
    loop = "up" => \A q \in Queries : q \in cancelReq => state[q] = "cancelled"
UnwindingMeansCancelled ==
    loop = "up" => \A q \in Queries : task[q] = "unwinding" => state[q] = "cancelled"

StatusInv ==
    /\ TypeOK
    /\ Accounted
    /\ AskedMeansCancelled
    /\ UnwindingMeansCancelled
    /\ DoneMeansTerminal
    /\ SpoolMatchesState

USE DEF QueryState, Terminal, TaskAt, Live, Running

LEMMA InitStatus == Init => StatusInv
  BY DEF Init, StatusInv, TypeOK, Accounted, Reported, AskedMeansCancelled,
         UnwindingMeansCancelled, DoneMeansTerminal, SpoolMatchesState

\* What a step of the store does to the query it is about.
StoreStep(q) ==
    \/ Client(q) \/ Start(q) \/ NeverStarts(q) \/ Succeed(q) \/ Fail(q)
    \/ Interrupt(q) \/ Unwound(q)

\* Every step of the store keeps types and statuses in order.
LEMMA SubmitStatus ==
  ASSUME StatusInv, NEW q \in Queries, Submit(q)
  PROVE  StatusInv'
<1> USE DEF StatusInv, Submit, SetState, SetTask
<1>1. TypeOK'
  BY DEF TypeOK
<1>2. Accounted'
  BY DEF TypeOK, Accounted, Reported
<1>3. AskedMeansCancelled' /\ UnwindingMeansCancelled' /\ DoneMeansTerminal'
  BY DEF TypeOK, AskedMeansCancelled, UnwindingMeansCancelled, DoneMeansTerminal
<1>4. SpoolMatchesState'
  BY DEF TypeOK, Accounted, Reported, SpoolMatchesState
<1> QED BY <1>1, <1>2, <1>3, <1>4

LEMMA CancelStatus ==
  ASSUME StatusInv, NEW q \in Queries, Cancel(q)
  PROVE  StatusInv'
<1> USE DEF StatusInv, Cancel, SetState
<1>1. TypeOK'
  BY DEF TypeOK
<1>2. Accounted'
  BY DEF TypeOK, Accounted, Reported
<1>3. AskedMeansCancelled'
  BY DEF TypeOK, Accounted, Reported, AskedMeansCancelled
<1>4. UnwindingMeansCancelled' /\ DoneMeansTerminal'
  BY DEF TypeOK, UnwindingMeansCancelled, DoneMeansTerminal
<1>5. SpoolMatchesState'
  BY DEF TypeOK, SpoolMatchesState
<1> QED BY <1>1, <1>2, <1>3, <1>4, <1>5

LEMMA StartStatus ==
  ASSUME StatusInv, NEW q \in Queries, Start(q) \/ NeverStarts(q)
  PROVE  StatusInv'
<1> USE DEF StatusInv, Start, NeverStarts, SetState, SetTask
<1>1. TypeOK'
  BY DEF TypeOK
<1>2. Accounted'
  BY DEF TypeOK, Accounted, Reported
<1>3. AskedMeansCancelled' /\ UnwindingMeansCancelled'
  BY DEF TypeOK, AskedMeansCancelled, UnwindingMeansCancelled
<1>4. DoneMeansTerminal'
  BY DEF TypeOK, AskedMeansCancelled, DoneMeansTerminal
<1>5. SpoolMatchesState'
  BY DEF TypeOK, Accounted, Reported, SpoolMatchesState
<1> QED BY <1>1, <1>2, <1>3, <1>4, <1>5

LEMMA EndStatus ==
  ASSUME StatusInv, NEW q \in Queries, Succeed(q) \/ Fail(q)
  PROVE  StatusInv'
<1> USE DEF StatusInv, Succeed, Fail, SetState, SetTask
<1>1. TypeOK'
  BY DEF TypeOK
<1>2. Accounted'
  BY DEF TypeOK, Accounted, Reported
<1>3. AskedMeansCancelled' /\ UnwindingMeansCancelled' /\ DoneMeansTerminal'
  BY DEF TypeOK, AskedMeansCancelled, UnwindingMeansCancelled, DoneMeansTerminal
<1>4. SpoolMatchesState'
  BY DEF TypeOK, SpoolMatchesState
<1> QED BY <1>1, <1>2, <1>3, <1>4

LEMMA InterruptStatus ==
  ASSUME StatusInv, NEW q \in Queries, Interrupt(q) \/ Unwound(q)
  PROVE  StatusInv'
<1> USE DEF StatusInv, Interrupt, Unwound, SetState, SetTask
<1>1. TypeOK'
  BY DEF TypeOK
<1>2. Accounted'
  BY DEF TypeOK, Accounted, Reported
<1>3. AskedMeansCancelled' /\ DoneMeansTerminal'
  BY DEF TypeOK, AskedMeansCancelled, DoneMeansTerminal
<1>4. UnwindingMeansCancelled'
  BY DEF TypeOK, AskedMeansCancelled, UnwindingMeansCancelled
<1>5. SpoolMatchesState'
  BY DEF TypeOK, Accounted, Reported, SpoolMatchesState
<1> QED BY <1>1, <1>2, <1>3, <1>4, <1>5

LEMMA ServerStatus ==
  ASSUME StatusInv, Close \/ StopLoop
  PROVE  StatusInv'
<1> USE DEF StatusInv, Close, StopLoop
<1>1. TypeOK'
  BY DEF TypeOK
<1>2. Accounted'
  BY DEF TypeOK, Accounted, Reported
<1>3. AskedMeansCancelled' /\ UnwindingMeansCancelled' /\ DoneMeansTerminal'
  BY DEF AskedMeansCancelled, UnwindingMeansCancelled, DoneMeansTerminal
<1>4. SpoolMatchesState'
  BY DEF SpoolMatchesState
<1> QED BY <1>1, <1>2, <1>3, <1>4

\* A step of the driver is a step of the store, or leaves it alone.
LEMMA DriverStepsStore ==
  ASSUME [DriverNext]_driverVars
  PROVE  \/ \E q \in Queries : StoreStep(q)
         \/ Close \/ StopLoop
         \/ UNCHANGED vars
  BY DEF DriverNext, driverVars, ClientStep, LoopStep, StartStep, PumpBegins, Finish,
         InterruptStep, ThreadStep, UnwindStep, ServerStep, StoreStep

LEMMA NextStatus == StatusInv /\ [DriverNext]_driverVars => StatusInv'
<1> SUFFICES ASSUME StatusInv, [DriverNext]_driverVars PROVE StatusInv'
  OBVIOUS
<1>1. ASSUME NEW q \in Queries, StoreStep(q) PROVE StatusInv'
  BY <1>1, SubmitStatus, CancelStatus, StartStatus, EndStatus, InterruptStatus
     DEF StoreStep, Client
<1>2. CASE Close \/ StopLoop
  BY <1>2, ServerStatus
<1>3. CASE UNCHANGED vars
  BY <1>3 DEF vars, StatusInv, TypeOK, Accounted, Reported, AskedMeansCancelled,
              UnwindingMeansCancelled, DoneMeansTerminal, SpoolMatchesState
<1> QED BY <1>1, <1>2, <1>3, DriverStepsStore

-----------------------------------------------------------------------------
(* The types of the executor. *)

LEMMA InitExec == Exec!Init => Exec!TypeOK
  BY DEF Exec!Init, Exec!TypeOK, Exec!ThreadAt, Exec!CallerAt

LEMMA NextExec ==
  ASSUME Exec!TypeOK, [DriverNext]_driverVars
  PROVE  Exec!TypeOK'
<1> USE DEF Exec!TypeOK, Exec!ThreadAt, Exec!CallerAt
<1>1. ASSUME NEW q \in Queries, Exec!Begin(q) PROVE Exec!TypeOK'
  BY <1>1 DEF Exec!Begin, Exec!Threaded
<1>2. ASSUME NEW q \in Queries, Exec!Execute(q) PROVE Exec!TypeOK'
  BY <1>2 DEF Exec!Execute, Exec!Raise
<1>3. ASSUME NEW q \in Queries, Exec!Fetch(q) PROVE Exec!TypeOK'
  BY <1>3 DEF Exec!Fetch, Exec!Raise
<1>4. ASSUME NEW q \in Queries, Exec!Cancel(q) PROVE Exec!TypeOK'
  BY <1>4 DEF Exec!Cancel
<1>5. CASE UNCHANGED execVars
  BY <1>5 DEF execVars
<1>6. \/ \E q \in Queries : Exec!Begin(q) \/ Exec!Execute(q) \/ Exec!Fetch(q) \/ Exec!Cancel(q)
      \/ UNCHANGED execVars
  BY DEF DriverNext, driverVars, ClientStep, LoopStep, StartStep, PumpBegins, Finish,
         InterruptStep, ThreadStep, UnwindStep, ServerStep, Exec!Thread
<1> QED BY <1>1, <1>2, <1>3, <1>4, <1>5, <1>6

-----------------------------------------------------------------------------
LEMMA StatusAlways == DriverSpec => [](StatusInv /\ Exec!TypeOK)
<1>1. DriverInit => StatusInv /\ Exec!TypeOK
  BY InitStatus, InitExec DEF DriverInit
<1>2. (StatusInv /\ Exec!TypeOK) /\ [DriverNext]_driverVars => (StatusInv /\ Exec!TypeOK)'
  BY NextStatus, NextExec
<1> QED BY <1>1, <1>2, PTL DEF DriverSpec

(***************************************************************************)
(* Every variable keeps its type, and while the store is open a task that  *)
(* is over has left its query succeeded, failed or cancelled               *)
(* (InProcessAsyncQueryStore._run, cancel).                                *)
(***************************************************************************)
THEOREM TasksLeaveAVerdict == DriverSpec => []DriverInv
<1>1. StatusInv /\ Exec!TypeOK => DriverInv
  BY DEF StatusInv, DriverInv, DriverTypeOK
<1> QED BY <1>1, StatusAlways, PTL

(***************************************************************************)
(* The spool directory holds a file for each query reported succeeded and  *)
(* for no other, whenever it is cancelled and whatever fails               *)
(* (InProcessAsyncQueryStore._run, fetch).                                 *)
(***************************************************************************)
THEOREM SpoolIsExact == DriverSpec => []SpoolMatchesState
<1>1. StatusInv => SpoolMatchesState
  BY DEF StatusInv
<1> QED BY <1>1, StatusAlways, PTL

(***************************************************************************)
(* A query reported succeeded, failed or cancelled is never reported       *)
(* otherwise: neither cancel nor the end of the task overwrites the other  *)
(* (InProcessAsyncQueryStore.cancel, _run).                                *)
(***************************************************************************)
THEOREM VerdictsAreFinal == DriverSpec => TerminalIsFinal
<1> DEFINE Stands == \A q \in Queries : state[q] \in Terminal => state'[q] = state[q]
<1>1. StatusInv /\ [DriverNext]_driverVars => [Stands]_state
  <2> SUFFICES ASSUME StatusInv, [DriverNext]_driverVars PROVE Stands
    OBVIOUS
  <2>1. ASSUME NEW q \in Queries, StoreStep(q) PROVE Stands
    <3> USE DEF StatusInv, TypeOK, Accounted, Reported, SetState, SetTask
    <3>1. CASE Submit(q)
      BY <3>1 DEF Submit
    <3>2. CASE Cancel(q)
      BY <3>2 DEF Cancel
    <3>3. CASE Start(q) \/ NeverStarts(q)
      BY <3>3 DEF Start, NeverStarts
    <3>4. CASE Succeed(q) \/ Fail(q)
      BY <3>4 DEF Succeed, Fail
    <3>5. CASE Interrupt(q) \/ Unwound(q)
      BY <3>5 DEF Interrupt, Unwound
    <3> QED BY <2>1, <3>1, <3>2, <3>3, <3>4, <3>5 DEF StoreStep, Client
  <2>2. CASE Close \/ StopLoop \/ UNCHANGED vars
    BY <2>2 DEF Close, StopLoop, vars
  <2> QED BY <2>1, <2>2, DriverStepsStore
<1>2. [Stands]_state => [\A q \in Queries : state[q] \in Terminal => state'[q] = state[q]]_state
  OBVIOUS
<1> QED BY <1>1, <1>2, StatusAlways, PTL DEF DriverSpec, TerminalIsFinal
=============================================================================
