----------------------------- MODULE CardStore -----------------------------
(***************************************************************************)
(* Semantic-layer cards: files that people edit, the rows CardDAO keeps of *)
(* them, and the events that tell the vector layer.  CardLoader syncs a    *)
(* directory in one session, file by file.  The session does not flush     *)
(* before a SELECT, but queueing the event of an update flushes it: until  *)
(* then a SELECT does not see the rows the session has added.  A flush may *)
(* wait for the row locks of another session; that only restricts which of *)
(* them commits first, and the model lets either.                          *)
(***************************************************************************)
EXTENDS Naturals, FiniteSets

CONSTANTS Paths,    \* the files of the cards directory
          Keys,     \* natural keys of cards: (org, kind, id)
          Names,    \* [Paths -> Keys]: the card a file is about
          Loaders,  \* processes that may sync the directory
          MaxEdits  \* bound: versions of a file

VARIABLES file,  \* [Paths -> version]; 0: missing or malformed
          row,   \* [Keys -> Row]; version 0: no row
          told,  \* the (key, version) pairs that have a CARD event queued
          sync   \* what each loader's session holds

cardVars == <<file, row, told, sync>>

FileVersions == 0 .. MaxEdits
Row == [version : FileVersions, deprecated : BOOLEAN]
NoRow == [version |-> 0, deprecated |-> FALSE]

ASSUME CardAssumption == Names \in [Paths -> Keys] /\ MaxEdits \in Nat

\* left: files still to sync; changed: versions of rows it updates; added: of rows it
\* inserts; flushed: the inserts the database has; twice: it would insert some key
\* twice; broken: a flush has failed, every statement raises until the rollback.
NoSync == [open |-> FALSE, left |-> {}, changed |-> [k \in Keys |-> 0],
           added |-> [k \in Keys |-> 0], flushed |-> {}, twice |-> FALSE, broken |-> FALSE]

CardTypeOK ==
  /\ file \in [Paths -> FileVersions]
  /\ row \in [Keys -> Row]
  /\ told \subseteq Keys \X FileVersions
  /\ sync \in [Loaders -> [open : BOOLEAN, left : SUBSET Paths, changed : [Keys -> FileVersions],
                           added : [Keys -> FileVersions], flushed : SUBSET Keys,
                           twice : BOOLEAN, broken : BOOLEAN]]

CardInit ==
  /\ file = [p \in Paths |-> 0]
  /\ row = [k \in Keys |-> NoRow]
  /\ told = {}
  /\ sync = [l \in Loaders |-> NoSync]

-----------------------------------------------------------------------------
\* Somebody writes a file.
Edit(p) ==
  /\ file[p] < MaxEdits
  /\ file' = [file EXCEPT ![p] = @ + 1]
  /\ UNCHANGED <<row, told, sync>>

OpenSync(l) ==
  /\ ~sync[l].open
  /\ sync' = [sync EXCEPT ![l] = [NoSync EXCEPT !.open = TRUE, !.left = Paths]]
  /\ UNCHANGED <<file, row, told>>

\* The version a SELECT of the session gives: of the row it has changed, or inserted
\* and flushed, or of the committed one (it keeps no row that it did not change).
Selected(s, k) ==
  IF s.changed[k] # 0 THEN s.changed[k]
  ELSE IF k \in s.flushed THEN s.added[k] ELSE row[k].version

\* Rows the session inserts meet a unique constraint when another session, or
\* another file of its own, has inserted them.
Clashes(s) == s.broken \/ s.twice \/ \E k \in Keys : s.added[k] # 0 /\ row[k] # NoRow

\* The enqueue of the event flushes the session; _sync_file swallows its exception.
Flushed(s) == IF Clashes(s) THEN [s EXCEPT !.broken = TRUE]
              ELSE [s EXCEPT !.flushed = {k \in Keys : s.added[k] # 0}]

\* Mutant of Synced: a card that has a row is taken as unchanged.
SyncedOnce(s, p) ==
  LET k == Names[p] rest == [s EXCEPT !.left = @ \ {p}] IN
  IF s.broken \/ file[p] = 0 \/ Selected(s, k) # 0 THEN rest
  ELSE [rest EXCEPT !.added[k] = file[p], !.twice = @ \/ s.added[k] # 0]

\* _sync_file and upsert_card: a file that cannot be parsed is skipped; the card is
\* inserted, left alone when its content hash is the same, or updated.  Only an
\* update has an event to queue: the row of an insert has no key yet.
Synced(s, p) ==
  LET k == Names[p] old == Selected(s, k) rest == [s EXCEPT !.left = @ \ {p}] IN
  IF s.broken \/ file[p] = 0 THEN rest
  ELSE IF old = 0 THEN [rest EXCEPT !.added[k] = file[p], !.twice = @ \/ s.added[k] # 0]
  ELSE IF old = file[p] THEN rest
  ELSE Flushed([rest EXCEPT !.changed[k] = file[p]])

SyncFile(l, p) ==
  /\ sync[l].open /\ p \in sync[l].left
  /\ sync' = [sync EXCEPT ![l] = Synced(sync[l], p)]
  /\ UNCHANGED <<file, row, told>>

\* Mutant of Stored: an update writes the whole row as it was loaded.
StoredWhole(s) ==
  [k \in Keys |-> IF s.changed[k] # 0 THEN [version |-> s.changed[k], deprecated |-> FALSE]
                  ELSE IF s.added[k] # 0 THEN [version |-> s.added[k], deprecated |-> FALSE]
                  ELSE row[k]]

\* An update writes the columns it changed; `deprecated` is none of them.
Stored(s) ==
  [k \in Keys |-> IF s.changed[k] # 0 THEN [row[k] EXCEPT !.version = s.changed[k]]
                  ELSE IF s.added[k] # 0 THEN [version |-> s.added[k], deprecated |-> FALSE]
                  ELSE row[k]]

\* Mutant of Announced: the event names the version after the one stored.
AnnouncedNext(s) == {<<k, s.changed[k] + 1>> : k \in {x \in Keys : s.changed[x] # 0}}

\* The events queued by the session, of the content its commit gives the row; a row
\* it only inserts had no key when its event would have been queued.
Announced(s) == {<<k, s.changed[k]>> : k \in {x \in Keys : s.changed[x] # 0}}

\* The commit flushes the rest; after any failed flush it raises, and all is rolled back.
CommitSync(l) ==
  LET s == sync[l] IN
  /\ s.open /\ s.left = {}
  /\ IF Clashes(s) THEN UNCHANGED <<row, told>>
     ELSE row' = Stored(s) /\ told' = told \union Announced(s)
  /\ sync' = [sync EXCEPT ![l] = NoSync]
  /\ UNCHANGED file

\* CardDAO.mark_deprecated, in a session of its own.
Deprecate(k) ==
  /\ row[k] # NoRow
  /\ row' = [row EXCEPT ![k].deprecated = TRUE]
  /\ UNCHANGED <<file, told, sync>>

SyncStep(l) == OpenSync(l) \/ (\E p \in Paths : SyncFile(l, p)) \/ CommitSync(l)
CardNext ==
  \/ \E p \in Paths : Edit(p)
  \/ \E l \in Loaders : SyncStep(l)
  \/ \E k \in Keys : Deprecate(k)

\* The directory is synced again and again.
CardFairness == \A l \in Loaders : WF_cardVars(SyncStep(l))

-----------------------------------------------------------------------------
(* Properties. *)

\* A deprecated card stays deprecated, also when its file changes and a sync that
\* has loaded the row before the deprecation updates it (mark_deprecated is the
\* only writer of the column).
DeprecationSticks ==
  [][\A k \in Keys : row[k].deprecated => row'[k].deprecated]_cardVars

\* A row never changes without the event of its new content in the same commit
\* (_sync_file enqueues in the session of the update).
UpdatesAreTold ==
  [][\A k \in Keys : row[k].version \notin {0, row'[k].version} =>
       <<k, row'[k].version>> \in told']_cardVars

\* Two files about one card.
Ambiguous == \E p, q \in Paths : p # q /\ Names[p] = Names[q] /\ file[p] # 0 /\ file[q] # 0

\* When nobody edits, every card at last has the content of its file, although
\* concurrent syncs may clash or store an older content last - unless two files
\* are about one card.
CardsFollowFiles ==
  \A p \in Paths : <>[](Ambiguous \/ file[p] = 0 \/ row[Names[p]].version = file[p])

\* What no session does to a card: undo a deprecation, or change it untold
\* (upsert_card, mark_deprecated, _sync_file).
CardHistory == DeprecationSticks /\ UpdatesAreTold
=============================================================================
