------------------------- MODULE LakehouseExecutor -------------------------
(***************************************************************************)
(* LakehouseExecutor (nexcraft-driver integration/source_executors.py):    *)
(* one in-memory DuckDB connection, set up on first use on the event loop, *)
(* then used by every query in a thread of its own (asyncio.to_thread) as  *)
(* con.execute(sql).fetch_arrow_table().  DuckDB is external: a connection *)
(* serialises its calls and keeps one open result, which execute replaces  *)
(* and fetch_arrow_table consumes.                                         *)
(***************************************************************************)
EXTENDS Naturals, FiniteSets

CONSTANTS
    Queries,  \* calls of execute and describe
    Threads,  \* the size of the thread pool, see LakehouseDriver
    None

VARIABLES
    con,      \* _con: "none", or "stored" and set up as far as that went
    open,     \* the query whose result is open on the connection, or None
    thread,   \* Queries -> where its thread is
    caller,   \* Queries -> what its caller sees
    got       \* Queries -> the query whose rows the caller was given

\* pending: handed to the thread pool; fetching: between execute and fetch.
ThreadAt == {"none", "pending", "fetching", "done"}
CallerAt == {"none", "waiting", "answered", "failed", "cancelled"}

Init ==
    /\ con = "none"
    /\ open = None
    /\ thread = [q \in Queries |-> "none"]
    /\ caller = [q \in Queries |-> "none"]
    /\ got = [q \in Queries |-> None]

AtWork == {q \in Queries : thread[q] = "fetching"}

Threaded(q) ==
    /\ thread' = [thread EXCEPT ![q] = "pending"]
    /\ caller' = [caller EXCEPT ![q] = "waiting"]

\* Somebody who is still there learns that the query failed.
Raise(q) ==
    caller' = [caller EXCEPT ![q] = IF @ = "waiting" THEN "failed" ELSE @]

(***************************************************************************)
(* _ensure_con, then to_thread.  The connection is stored before it is set *)
(* up; if an extension, the credentials or a view cannot be loaded it      *)
(* stays as it is, and the next query finds it and may fail in Execute.    *)
(***************************************************************************)
Begin(q) ==
    /\ thread[q] = "none" /\ caller[q] = "none"
    /\ \/ /\ con # "none"
          /\ Threaded(q)
          /\ UNCHANGED con
       \/ /\ con = "none"
          /\ con' = "stored"
          /\ Threaded(q)
       \/ /\ con = "none"
          /\ con' \in {"none", "stored"}
          /\ caller' = [caller EXCEPT ![q] = "failed"]
          /\ UNCHANGED thread
    /\ UNCHANGED <<open, got>>

\* con.execute(sql): may fail, for bad SQL or for a view that is missing.
Execute(q) ==
    /\ thread[q] = "pending"
    /\ Cardinality(AtWork) < Threads
    /\ \/ /\ open' = q
          /\ thread' = [thread EXCEPT ![q] = "fetching"]
          /\ UNCHANGED caller
       \/ /\ open' = None
          /\ thread' = [thread EXCEPT ![q] = "done"]
          /\ Raise(q)
    /\ UNCHANGED <<con, got>>

\* Mutant of Fetch: what the thread raises is lost.
FetchSilent(q) ==
    /\ thread[q] = "fetching"
    /\ thread' = [thread EXCEPT ![q] = "done"]
    /\ open' = None
    /\ \/ /\ open # None /\ caller[q] = "waiting"
          /\ caller' = [caller EXCEPT ![q] = "answered"]
          /\ got' = [got EXCEPT ![q] = open]
       \/ /\ open = None \/ caller[q] # "waiting"
          /\ UNCHANGED <<caller, got>>
    /\ UNCHANGED con

\* .fetch_arrow_table(): takes the result that is open now.
Fetch(q) ==
    /\ thread[q] = "fetching"
    /\ thread' = [thread EXCEPT ![q] = "done"]
    /\ open' = None
    /\ \/ /\ open # None /\ caller[q] = "waiting"
          /\ caller' = [caller EXCEPT ![q] = "answered"]
          /\ got' = [got EXCEPT ![q] = open]
       \/ /\ open = None \/ caller[q] # "waiting"
          /\ Raise(q)
          /\ UNCHANGED got
    /\ UNCHANGED con

\* The caller is cancelled: a call still in the pool's queue is dropped, a
\* thread that has started goes on by itself.
Cancel(q) ==
    /\ caller[q] = "waiting"
    /\ caller' = [caller EXCEPT ![q] = "cancelled"]
    /\ \/ UNCHANGED thread
       \/ thread[q] = "pending" /\ thread' = [thread EXCEPT ![q] = "done"]
    /\ UNCHANGED <<con, open, got>>

Thread(q) == Execute(q) \/ Fetch(q)

-----------------------------------------------------------------------------
TypeOK ==
    /\ con \in {"none", "stored"}
    /\ open \in Queries \union {None}
    /\ thread \in [Queries -> ThreadAt]
    /\ caller \in [Queries -> CallerAt]
    /\ got \in [Queries -> Queries \union {None}]
=============================================================================
