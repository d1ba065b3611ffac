--------------------------- MODULE PooledProvider ---------------------------
(***************************************************************************)
(* PooledConnectionProvider (nexcraft connection/pooled.py) over AsyncpgPool *)
(* (connection/asyncpg_pool.py): queries of one event loop acquire pooled  *)
(* connections, the first query of a source builds its pool, and close()   *)
(* may run at any time.  A step runs from one await to the next.           *)
(*                                                                         *)
(* A query is a client; Router.execute acquires one handle for it and      *)
(* releases it in a finally.  A handle is identified with the client that  *)
(* holds it.  asyncpg itself is external: it lends at most MaxSize         *)
(* connections, refuses once it is closing, and its close() waits until    *)
(* every connection it lent has been released.                             *)
(***************************************************************************)
EXTENDS Integers, FiniteSets

CONSTANTS
    Sources,    \* source_id values
    Clients,    \* concurrent queries
    Pools,      \* identities of the pools that get built (bounds how many)
    MaxSize,    \* PoolConfig.max_size
    MaxCloses,  \* bound: calls of close()
    None        \* no client, no source, no pool

ASSUME ProviderAssumption ==
    /\ None \notin Clients \union Sources \union Pools
    /\ MaxSize \in Nat \ {0}
    /\ MaxCloses \in Nat

VARIABLES
    cached,    \* _pools: Sources -> pool or None
    lock,      \* _build_locks: Sources -> the client that holds it or None
    state,     \* Pools -> life cycle of the driver pool
    owner,     \* Pools -> the source it was built for
    lent,      \* Pools -> clients whose connection was not returned to it
    at,        \* Clients -> where the query is
    source,    \* Clients -> the source it asked for
    from,      \* Clients -> the pool it acquires from
    closing,   \* pools the running close() has not closed yet; empty: none runs
    closes     \* calls of close() so far

provider == <<cached, lock>>
pools == <<state, owner, lent>>
clients == <<at, source, from>>
closeVars == <<closing, closes>>
poolVars == <<provider, pools, clients, closeVars>>

\* looking: awaiting the details; locking: awaiting the build lock; building:
\* awaiting secrets and factory.create under it; acquiring: awaiting
\* pool.acquire; using: Router.execute has the handle.
ClientAt == {"idle", "looking", "locking", "building", "acquiring", "using"}
PoolStates == {"unbuilt", "open", "closing", "closed"}

PoolInit ==
    /\ cached = [s \in Sources |-> None]
    /\ lock = [s \in Sources |-> None]
    /\ state = [p \in Pools |-> "unbuilt"]
    /\ owner = [p \in Pools |-> None]
    /\ lent = [p \in Pools |-> {}]
    /\ at = [c \in Clients |-> "idle"]
    /\ source = [c \in Clients |-> None]
    /\ from = [c \in Clients |-> None]
    /\ closing = {}
    /\ closes = 0

Goto(c, where) == at' = [at EXCEPT ![c] = where]

\* The query is over, with or without an error.
QueryOver(c) ==
    /\ Goto(c, "idle")
    /\ source' = [source EXCEPT ![c] = None]
    /\ from' = [from EXCEPT ![c] = None]

-----------------------------------------------------------------------------
\* acquire: load the connection details of the source.
Ask(c, s) ==
    /\ at[c] = "idle"
    /\ Goto(c, "looking")
    /\ source' = [source EXCEPT ![c] = s]
    /\ UNCHANGED <<provider, pools, from, closeVars>>

\* Unknown source, or another tenant's: nothing was touched yet.
Reject(c) ==
    /\ at[c] = "looking"
    /\ QueryOver(c)
    /\ UNCHANGED <<provider, pools, closeVars>>

\* The fast path of _get_or_build_pool, or the way to the lock.  The guard of
\* the lock table is never held across an await, so it never blocks.
Look(c) ==
    /\ at[c] = "looking"
    /\ \/ /\ cached[source[c]] # None
          /\ from' = [from EXCEPT ![c] = cached[source[c]]]
          /\ Goto(c, "acquiring")
       \/ /\ cached[source[c]] = None
          /\ Goto(c, "locking")
          /\ UNCHANGED from
    /\ UNCHANGED <<provider, pools, source, closeVars>>

\* Mutant of Lock: the second look under the lock is left out.
LockNoRecheck(c) ==
    /\ at[c] = "locking"
    /\ lock[source[c]] = None
    /\ lock' = [lock EXCEPT ![source[c]] = c]
    /\ Goto(c, "building")
    /\ UNCHANGED <<cached, pools, source, from, closeVars>>

\* The lock is free: look again, and build only if still nobody has.
Lock(c) ==
    /\ at[c] = "locking"
    /\ lock[source[c]] = None
    /\ \/ /\ cached[source[c]] # None
          /\ from' = [from EXCEPT ![c] = cached[source[c]]]
          /\ Goto(c, "acquiring")
          /\ UNCHANGED lock
       \/ /\ cached[source[c]] = None
          /\ lock' = [lock EXCEPT ![source[c]] = c]
          /\ Goto(c, "building")
          /\ UNCHANGED from
    /\ UNCHANGED <<cached, pools, source, closeVars>>

\* factory.create returned: cache the pool, leave the lock, go on to acquire.
Built(c) ==
    /\ at[c] = "building"
    /\ \E p \in {q \in Pools : state[q] = "unbuilt"} :
          /\ state' = [state EXCEPT ![p] = "open"]
          /\ owner' = [owner EXCEPT ![p] = source[c]]
          /\ cached' = [cached EXCEPT ![source[c]] = p]
          /\ from' = [from EXCEPT ![c] = p]
    /\ lock' = [lock EXCEPT ![source[c]] = None]
    /\ Goto(c, "acquiring")
    /\ UNCHANGED <<lent, source, closeVars>>

\* No factory, no secret, no connection, or the query was cancelled.
BuildFails(c) ==
    /\ at[c] = "building"
    /\ lock' = [lock EXCEPT ![source[c]] = None]
    /\ QueryOver(c)
    /\ UNCHANGED <<cached, pools, closeVars>>

Granted(c) ==
    /\ at[c] = "acquiring"
    /\ state[from[c]] = "open"
    /\ Cardinality(lent[from[c]]) < MaxSize
    /\ lent' = [lent EXCEPT ![from[c]] = @ \union {c}]
    /\ Goto(c, "using")
    /\ UNCHANGED <<provider, state, owner, source, from, closeVars>>

\* Timed out, refused by a pool that is closing, or cancelled.
AcquireFails(c) ==
    /\ at[c] = "acquiring"
    /\ QueryOver(c)
    /\ UNCHANGED <<provider, pools, closeVars>>

(***************************************************************************)
(* release: the pool is looked up by the source of the handle, in the      *)
(* cache as it is now; a pool that does not know the handle ignores it.    *)
(***************************************************************************)
Release(c) ==
    lent' = [p \in Pools |-> IF p = cached[source[c]] THEN lent[p] \ {c} ELSE lent[p]]

\* Mutant of QueryEnds: the release is not in a finally.
QueryEndsNoFinally(c) ==
    /\ at[c] = "using"
    /\ Release(c) \/ UNCHANGED lent
    /\ QueryOver(c)
    /\ UNCHANGED <<provider, state, owner, closeVars>>

\* The query ends, fails or is cancelled; the finally of Router.execute runs.
QueryEnds(c) ==
    /\ at[c] = "using"
    /\ Release(c)
    /\ QueryOver(c)
    /\ UNCHANGED <<provider, state, owner, closeVars>>

-----------------------------------------------------------------------------
\* close() goes on to another of the pools in todo, or returns.
CloseNext(todo, st) ==
    /\ closing' = todo
    /\ \/ todo = {} /\ state' = st
       \/ \E p \in todo : state' = [st EXCEPT ![p] = "closing"]

CachedPools == {cached[s] : s \in Sources} \ {None}

\* close: take the pools out of the cache, close them one after the other.
Close ==
    /\ closing = {} /\ closes < MaxCloses
    /\ closes' = closes + 1
    /\ cached' = [s \in Sources |-> None]
    /\ CloseNext(CachedPools, state)
    /\ UNCHANGED <<lock, owner, lent, clients>>

\* The close of one pool returns when all its connections are back.
PoolCloses(p) ==
    /\ p \in closing /\ state[p] = "closing"
    /\ lent[p] = {}
    /\ CloseNext(closing \ {p}, [state EXCEPT ![p] = "closed"])
    /\ UNCHANGED <<provider, owner, lent, clients, closes>>

Query(c) ==
    \/ Reject(c) \/ Look(c) \/ Built(c) \/ BuildFails(c)
    \/ Granted(c) \/ AcquireFails(c) \/ QueryEnds(c)

CloseStep == \E p \in Pools : PoolCloses(p)

PoolNext ==
    \/ \E c \in Clients : (\E s \in Sources : Ask(c, s)) \/ Lock(c) \/ Query(c)
    \/ Close \/ CloseStep

\* Everything that awaits is answered in the end (drivers and acquire time
\* out); asyncio.Lock is fair; nobody has to ask or to close.
PoolFairness ==
    /\ \A c \in Clients : WF_poolVars(Query(c)) /\ SF_poolVars(Lock(c))
    /\ WF_poolVars(CloseStep)
-----------------------------------------------------------------------------
PoolTypeOK ==
    /\ cached \in [Sources -> Pools \union {None}]
    /\ lock \in [Sources -> Clients \union {None}]
    /\ state \in [Pools -> PoolStates]
    /\ owner \in [Pools -> Sources \union {None}]
    /\ lent \in [Pools -> SUBSET Clients]
    /\ at \in [Clients -> ClientAt]
    /\ source \in [Clients -> Sources \union {None}]
    /\ from \in [Clients -> Pools \union {None}]
    /\ closing \subseteq Pools
    /\ closes \in 0..MaxCloses

(***************************************************************************)
(* No pool escapes: a pool that is open is the cached pool of the source   *)
(* it was built for, or one the running close() still has on its list.  So *)
(* concurrent first queries share one pool, and a pool whose build was     *)
(* under way while close() ran is still there for the next close().        *)
(***************************************************************************)
EveryOpenPoolIsKnown ==
    \A p \in Pools :
        state[p] = "open" => (owner[p] # None /\ cached[owner[p]] = p) \/ p \in closing

\* A build under way excludes others, whoever fails or is cancelled.
BuildIsExclusive ==
    \A s \in Sources, c \in Clients :
        (at[c] = "building" /\ source[c] = s) <=> lock[s] = c

(***************************************************************************)
(* Until close() is called, max_size bounds the connections of a source,   *)
(* not only those of one pool, and a query that is over holds none.        *)
(***************************************************************************)
Connections(s) == {c \in Clients : \E p \in Pools : owner[p] = s /\ c \in lent[p]}
SourceWithinMaxSize ==
    closes = 0 => \A s \in Sources : Cardinality(Connections(s)) <= MaxSize
NoLeak ==
    closes = 0 => \A p \in Pools : \A c \in lent[p] : at[c] = "using" /\ from[c] = p

\* A query that waits for the build lock gets an answer.
AcquireEnds ==
    \A c \in Clients : (at[c] = "locking") ~> (at[c] \in {"using", "idle"})

(***************************************************************************)
(* pooled.py: "close() drains every cached pool": a close() that was       *)
(* called returns.                                                         *)
(***************************************************************************)
CloseReturns == (closing # {}) ~> (closing = {})

(***************************************************************************)
(* The pools are where acquire, release and close() believe them to be: no *)
(* pool escapes, no source is built twice at a time, and max_size holds.   *)
(***************************************************************************)
PoolInv == PoolTypeOK /\ EveryOpenPoolIsKnown /\ BuildIsExclusive /\ SourceWithinMaxSize
=============================================================================
