--------------------------- MODULE Introspection ---------------------------
(***************************************************************************)
(* How the pipeline learns what tables a source has.  A live Postgres is   *)
(* asked five queries, between which its owner may alter tables; a dump is *)
(* read statement by statement, with a manifest for what it leaves out.    *)
(* A relation is <<schema, name>>, a comment the relation it was made for, *)
(* and a key or reference a constraint with a name.                        *)
(***************************************************************************)
EXTENDS Naturals, FiniteSets, Sequences, SequencesExt

CONSTANTS Databases, \* the states the source may be in
          Wanted,    \* the schemas of the source that are configured
          MaxDdl     \* bound: changes of the source during an introspection

VARIABLES database, \* the source
          read,     \* what the queries so far returned
          ddl,      \* changes so far
          touched,  \* history: relations altered since the first query
          plain     \* history: names have been unique all along (Plain)

introspectVars == <<database, read, ddl, touched, plain>>

Relations == UNION {db.tables : db \in Databases}

\* A constraint: [name, kind, table, columns, target, references].  A reference refers to
\* one column for each of its own.
OnItsTables(db, k) ==
  /\ k.table \in db.tables /\ k.columns \in Seq(db.columns[k.table])
  /\ \/ k.kind = "key"
     \/ /\ k.kind = "reference" /\ k.target \in db.tables
        /\ k.references \in Seq(db.columns[k.target]) /\ Len(k.references) = Len(k.columns)
IsDatabase(db) ==
  /\ db.views \subseteq db.tables /\ db.tables \subseteq DOMAIN db.columns
  /\ \A k \in db.constraints : OnItsTables(db, k) /\ k.table \notin db.views
  \* Names of constraints are unique to a table; a key has an index, unique to the schema.
  /\ \A j, k \in db.constraints : j # k /\ j.name = k.name =>
       j.table # k.table /\ (j.kind = "key" /\ k.kind = "key" => j.table[1] # k.table[1])
  /\ \A j, k \in db.constraints : j.kind = "key" /\ k.kind = "key" /\ j.table = k.table => j = k

ASSUME IntrospectAssumption == MaxDdl \in Nat /\ \A db \in Databases : IsDatabase(db)

-----------------------------------------------------------------------------
(* The five queries. *)

InScope(db) == {r \in db.tables : r[1] \in Wanted}
\* pg_class is joined by the name of the relation alone.
Namesakes(db, r) == {x \in db.tables : x[2] = r[2]}
\* The views of information_schema are joined by the name of the constraint and a schema.
SameName(db, k) == {j \in db.constraints : j.name = k.name /\ j.table[1] = k.table[1]}

_fetch_tables(db) ==
  UNION {{[table |-> r, comment |-> c, view |-> r \in db.views] : c \in Namesakes(db, r)} : r \in InScope(db)}
_fetch_columns(db) ==
  UNION {[table : {r}, column : db.columns[r], comment : Namesakes(db, r)] : r \in InScope(db)}
_fetch_primary_keys(db) ==
  UNION {{[table |-> k.table, column |-> c] : c \in UNION {ToSet(j.columns) : j \in SameName(db, k)}} :
           k \in {x \in db.constraints : x.kind = "key" /\ x.table \in InScope(db)}}

\* What a constraint uses: the columns it refers to, or those of the key.
Uses(j) == IF j.kind = "key" THEN {<<j.table, c>> : c \in ToSet(j.columns)}
           ELSE {<<j.target, c>> : c \in ToSet(j.references)}
Used(db, k) ==
  {x \in UNION {Uses(j) : j \in {y \in db.constraints : y.name = k.name}} : x[1][1] = k.table[1]}
ReferenceRows(db) ==
  UNION {[table : {k.table}, column : UNION {ToSet(j.columns) : j \in SameName(db, k)}, to : Used(db, k)] :
           k \in {x \in db.constraints : x.kind = "reference" /\ x.table \in InScope(db)}}

\* The rows come in any order, and of those of one column the last is kept.
_fetch_foreign_keys(db) ==
  LET rows == ReferenceRows(db)
      row(x, to) == [x EXCEPT !.to = to]
      columns == {row(x, <<>>) : x \in rows}
      last == {to \in [columns -> {x.to : x \in rows}] : \A x \in columns : row(x, to[x]) \in rows}
  IN {{row(x, to[x]) : x \in columns} : to \in last}
_fetch_view_definitions(db) == db.views \intersect InScope(db)

-----------------------------------------------------------------------------
(* The introspection of a live source. *)

\* A source whose relations and constraints have names of their own, and whose references
\* have one column and stay in their schema.
Plain(db) ==
  /\ \A r, x \in db.tables : r[2] = x[2] => r = x
  /\ \A j, k \in db.constraints : j.name = k.name /\ j.table[1] = k.table[1] => j = k
  /\ \A k \in db.constraints : k.kind = "reference" => Len(k.columns) = 1 /\ k.target[1] = k.table[1]

NothingRead == [queries |-> 0, tables |-> {}, columns |-> {}, keys |-> {}, references |-> {}, views |-> {}]

IntrospectInit == database \in Databases /\ read = NothingRead /\ ddl = 0 /\ touched = {}
                     /\ plain = Plain(database)

\* Each query sees what is committed when it starts.
Returns(n, result) ==
  /\ read.queries = n /\ read' = [result EXCEPT !.queries = n + 1]
  /\ UNCHANGED <<database, ddl, touched, plain>>

AskTables == Returns(0, [read EXCEPT !.tables = _fetch_tables(database)])
AskColumns == Returns(1, [read EXCEPT !.columns = _fetch_columns(database)])
AskKeys == Returns(2, [read EXCEPT !.keys = _fetch_primary_keys(database)])
AskReferences ==
  \E kept \in _fetch_foreign_keys(database) : Returns(3, [read EXCEPT !.references = kept])
AskViews == Returns(4, [read EXCEPT !.views = _fetch_view_definitions(database)])

\* The owner alters a table; others are as they were.
Part(db, r) ==
  [there |-> r \in db.tables, view |-> r \in db.views, columns |-> db.columns[r],
   constraints |-> {k \in db.constraints : k.table = r}]
Parts == [r \in Relations |-> {Part(db, r) : db \in Databases}]
With(db, r, part) ==
  [tables |-> IF part.there THEN db.tables \union {r} ELSE db.tables \ {r},
   views |-> IF part.view THEN db.views \union {r} ELSE db.views \ {r},
   columns |-> [db.columns EXCEPT ![r] = part.columns],
   constraints |-> {k \in db.constraints : k.table # r} \union part.constraints]
Alter(r) ==
  /\ read.queries \in 1 .. 4 /\ ddl < MaxDdl
  /\ \E part \in Parts[r] \ {Part(database, r)} :
       With(database, r, part) \in Databases /\ database' = With(database, r, part)
  /\ ddl' = ddl + 1 /\ touched' = touched \union {r}
  /\ plain' = (plain /\ Plain(database')) /\ UNCHANGED read

IntrospectNext ==
  \/ AskTables \/ AskColumns \/ AskKeys \/ AskReferences \/ AskViews
  \/ \E r \in Relations : Alter(r)

\* The rows are put together by the name of the table; `to' is empty without a reference.
TableInfos ==
  {[table |-> t.table, comment |-> t.comment, view |-> t.view, definition |-> t.table \in read.views,
    primary_key |-> {k.column : k \in {x \in read.keys : x.table = t.table}},
    columns |-> {[name |-> c.column, comment |-> c.comment,
                  key |-> [table |-> t.table, column |-> c.column] \in read.keys,
                  to |-> {f.to : f \in {x \in read.references : x.table = t.table /\ x.column = c.column}}] :
                   c \in {x \in read.columns : x.table = t.table}}] : t \in read.tables}

-----------------------------------------------------------------------------
(* A dump is a sequence of statements; a CREATE TABLE has parts. *)

Statements(dump, op, table) == SelectSeq(dump, LAMBDA s : s.op = op /\ s.table = table)

\* _parse_create_body: the last PRIMARY KEY replaces what came before it, a column that
\* is a key is added; constraints with a name, and FOREIGN KEY, are not read.
BodyKey(parts) ==
  FoldLeft(LAMBDA key, p : CASE p.part = "key" -> p.columns
                             [] p.part = "column" -> IF p.key /\ p.name \notin ToSet(key) THEN Append(key, p.name) ELSE key
                             [] OTHER -> key,
           <<>>, parts)
Columns(parts) == SelectSeq(parts, LAMBDA p : p.part = "column")

\* _parse_sql: what ALTER TABLE says of a key comes before the body of CREATE TABLE.
ParsedKey(dump, create) ==
  LET altered == Statements(dump, "key", create.table) IN
  IF altered # <<>> THEN Last(altered).columns ELSE BodyKey(create.parts)

\* Pairs of columns, from ALTER TABLE first; columns that are not named are those of the key.
Pairs(s) == LET refs == IF s.references = <<>> THEN s.columns ELSE s.references
                n == IF Len(s.columns) < Len(refs) THEN Len(s.columns) ELSE Len(refs) IN
            [i \in 1 .. n |-> [column |-> s.columns[i], to |-> <<s.target, refs[i]>>]]
ParsedReferences(dump, create) ==
  LET altered == Statements(dump, "reference", create.table)
      inline == SelectSeq(Columns(create.parts), LAMBDA p : p.to # <<>>) IN
  FlattenSeq([i \in DOMAIN altered |-> Pairs(altered[i])])
    \o [i \in DOMAIN inline |-> [column |-> inline[i].name, to |-> inline[i].to]]

\* _to_table_info: the last reference of a column counts; a manifest adds a key to a table
\* without one, and to its columns the references that their names suggest.
Hint(manifest, table, field) ==
  IF table[2] \in DOMAIN manifest THEN manifest[table[2]][field] ELSE <<>>
_to_table_info(dump, create, manifest) ==
  LET parsed == ParsedKey(dump, create)
      key == IF parsed # <<>> THEN parsed ELSE Hint(manifest, create.table, "pk")
      references == ParsedReferences(dump, create)
      of(c) == SelectSeq(references, LAMBDA r : r.column = c)
      guess(c) == IF c \in ToSet(Hint(manifest, create.table, "fk")) THEN "guess" ELSE "none"
      columns == Columns(create.parts)
  IN [table |-> create.table, primary_key |-> key,
      columns |-> [i \in DOMAIN columns |->
         [name |-> columns[i].name, key |-> columns[i].name \in ToSet(key),
          to |-> IF of(columns[i].name) # <<>> THEN Last(of(columns[i].name)).to
                 ELSE <<guess(columns[i].name)>>]]]

introspect(dump, manifest) ==
  LET created == SelectSeq(dump, LAMBDA s : s.op = "create" /\ s.table[1] \in Wanted)
  IN [i \in DOMAIN created |-> _to_table_info(dump, created[i], manifest)]

-----------------------------------------------------------------------------
(* Properties. *)

\* What the source says of a table, from its part of the source.
KeyOf(p) == UNION {ToSet(k.columns) : k \in {x \in p.constraints : x.kind = "key"}}
TargetsOf(p, c) ==
  UNION {{<<k.target, k.references[i]>> : i \in {n \in DOMAIN k.columns : k.columns[n] = c}} :
           k \in {x \in p.constraints : x.kind = "reference"}}

\* Where the columns may be said to refer to: each to one of its targets, if it has any.
Targets(p) ==
  {to \in [p.columns -> SUBSET UNION {TargetsOf(p, c) : c \in p.columns}] :
     \A c \in p.columns : IF TargetsOf(p, c) = {} THEN to[c] = {}
                          ELSE \E t \in TargetsOf(p, c) : to[c] = {t}}
Truths(r, p) ==
  {[table |-> r, comment |-> r, view |-> p.view, definition |-> p.view, primary_key |-> KeyOf(p),
    columns |-> {[name |-> c, comment |-> r, key |-> c \in KeyOf(p), to |-> to[c]] : c \in p.columns}] :
     to \in Targets(p)}

\* In a plain source every table that is not altered meanwhile is listed once and as it
\* is, whatever happens to others between the queries - with one target for a column that
\* has several; in any source it is listed, with all its columns and keys, and a column
\* with a reference within its schema has some target, which may be another's
\* (PostgresIntrospector.introspect).
UntouchedTablesAreRead ==
  read.queries = 5 =>
    \A r \in InScope(database) \ touched :
      LET found == {i \in TableInfos : i.table = r}
          p == Part(database, r) IN
      /\ plain => \E true \in Truths(r, p) : found = {true}
      /\ \E i \in found :
           /\ i.comment = r /\ i.view = p.view /\ i.definition = p.view
           /\ KeyOf(p) \subseteq i.primary_key
           /\ \A c \in p.columns : \E d \in i.columns :
                /\ d.name = c /\ d.comment = r /\ (c \in KeyOf(p) => d.key)
                /\ (\E t \in TargetsOf(p, c) : t[1][1] = r[1]) => d.to # {}

\* A dump whose constraints are declared by columns, by PRIMARY KEY or by ALTER TABLE is
\* read for what it says, in whatever order it says it; a manifest changes none of it
\* (SqlFileIntrospector).
DumpIsRead(dump, manifest) ==
  \A n \in DOMAIN introspect(dump, manifest) :
    LET info == introspect(dump, manifest)[n]
        all == ToSet(dump)
        parts == UNION {ToSet(s.parts) : s \in {x \in all : x.op = "create" /\ x.table = info.table}}
        mine(op) == {s \in all : s.op = op /\ s.table = info.table}
        key == UNION ({ToSet(s.columns) : s \in mine("key")}
                        \union {ToSet(p.columns) : p \in {x \in parts : x.part = "key"}}
                        \union {{p.name} : p \in {x \in parts : x.part = "column" /\ x.key}})
        targets(c) == {p.to : p \in {x \in parts : x.part = "column" /\ x.name = c /\ x.to # <<>>}}
                        \union {r.to : r \in {x \in UNION {ToSet(Pairs(s)) : s \in mine("reference")} : x.column = c}}
    IN /\ info.table[1] \in Wanted
       /\ (\A p \in parts : p.part # "constraint") =>
            /\ key # {} => ToSet(info.primary_key) = key
            /\ \A i \in DOMAIN info.columns : LET c == info.columns[i] IN
                 /\ c.key <=> c.name \in ToSet(info.primary_key)
                 /\ targets(c.name) # {} => c.to \in targets(c.name)
                 /\ targets(c.name) = {} => c.to \in {<<"guess">>, <<"none">>}
=============================================================================
