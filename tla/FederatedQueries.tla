-------------------------- MODULE FederatedQueries --------------------------
(***************************************************************************)
(* The route of a query: Flight get_flight_info and do_get, Router, the    *)
(* catalog and the connection provider.  Two deployments: "env", what      *)
(* build_cross_source_fedsql makes of the environment, and "db", DBCatalog *)
(* and PooledConnectionProvider over a table of connections that others    *)
(* edit.  Every await of the router is a step; how a pool is built is in   *)
(* PooledProvider.                                                         *)
(***************************************************************************)
EXTENDS Naturals

CONSTANTS Queries,   \* Flight clients
          Tenants,
          Default,   \* the tenant "default"
          MaxEdits   \* bound on edits of the table of connections

With(f, x, y) == [z \in DOMAIN f \union {x} |-> IF z = x THEN y ELSE f[z]]
Kinds == {"postgres", "snowflake", "delta"}
SourceIds == Kinds         \* the env deployment has one source of each kind
ASSUME FederationAssumption == Default \in Tenants /\ MaxEdits \in Nat

VARIABLES deployment, \* "env" or "db"
          rows,       \* [configured sources -> [kind, tenant]]
          poolKinds,      \* [sources with a cached pool -> the kind of its handles]
          query,      \* [Queries -> the call under way for each client]
          borrowed,       \* clients whose pooled connection was not given back
          edits       \* edits of the table so far

queryVars == <<deployment, rows, poolKinds, query, borrowed, edits>>

\* routed: the executor is chosen; checked: the tenant is, and the pool comes next;
\* holding: with a handle; told: get_flight_info answered; over: so did do_get.
Stages == {"idle", "routed", "checked", "holding", "running", "told", "over"}
Calls == [at : Stages, op : {"describe", "execute"}, source : SourceIds, tenant : Tenants,
          executor : Kinds, details : Kinds \union {"none"}, handle : Kinds \union {"none"}, schema : BOOLEAN,
          outcome : {"none", "rows", "empty", "failed", "refused"}]

FederationTypeOK ==
  /\ deployment \in {"env", "db"} /\ edits \in 0 .. MaxEdits
  /\ DOMAIN rows \subseteq SourceIds /\ \A s \in DOMAIN rows : rows[s] \in [kind : Kinds, tenant : Tenants]
  /\ DOMAIN poolKinds \subseteq SourceIds /\ \A s \in DOMAIN poolKinds : poolKinds[s] \in Kinds
  /\ borrowed \subseteq Queries /\ query \in [Queries -> Calls]

\* The executors of the router, and the kinds with a DriverPoolFactory.
Executors == IF deployment = "env" THEN {rows[s].kind : s \in DOMAIN rows} ELSE {"postgres", "snowflake"}
Factories == {"postgres"}

\* build_cross_source_fedsql: for each source whose variables are set a descriptor and
\* a handle of one kind, with an executor of that kind.
EnvRows(configured) == [s \in configured |-> [kind |-> s, tenant |-> Default]]

FederationInit ==
  /\ \/ /\ deployment = "env"
        /\ \E configured \in SUBSET SourceIds \ {{}} : rows = EnvRows(configured)
     \/ /\ deployment = "db"
        /\ \E k \in Kinds, t \in Tenants : rows = [s \in {"postgres"} |-> [kind |-> k, tenant |-> t]]
  /\ poolKinds = <<>> /\ borrowed = {} /\ edits = 0
  /\ query = [q \in Queries |->
       [at |-> "idle", op |-> "describe", source |-> "postgres", tenant |-> Default,
        executor |-> "postgres", details |-> "none", handle |-> "none",
        schema |-> FALSE, outcome |-> "none"]]

-----------------------------------------------------------------------------
(* Router.describe and Router.execute. *)

Moves(q, call) == query' = [query EXCEPT ![q] = call]

\* The call ends.  A describe that fails is answered with an empty schema and the
\* ticket all the same.  Only the executor of postgres makes a batch of no rows, so
\* an empty table has columns only there.
Ended(call, outcome) ==
  [call EXCEPT !.at = IF call.op = "describe" THEN "told" ELSE "over",
     !.details = "none", !.handle = "none", !.outcome = outcome,
     !.schema = @ \/ \/ outcome = "rows"
                     \/ outcome = "empty" /\ call.executor = "postgres"]

\* The catalog has the source, and the router an executor of its kind.
Route(q, call) ==
  /\ Moves(q, IF call.source \in DOMAIN rows /\ rows[call.source].kind \in Executors
              THEN [call EXCEPT !.at = "routed", !.executor = rows[call.source].kind]
              ELSE Ended(call, "refused"))
  /\ UNCHANGED <<deployment, rows, poolKinds, borrowed, edits>>

\* get_flight_info.
Describe(q) ==
  /\ query[q].at = "idle"
  /\ \E s \in SourceIds, t \in Tenants : Route(q, [query[q] EXCEPT !.source = s, !.tenant = t])

\* do_get with the ticket of get_flight_info.
Redeem(q) ==
  /\ query[q].at = "told"
  /\ Route(q, [query[q] EXCEPT !.op = "execute", !.outcome = "none"])

\* _MultiSourceConnectionProvider.acquire of a source with a static handle.
TakeStatic(q) ==
  LET call == query[q] IN
  /\ call.at = "routed" /\ deployment = "env" /\ call.source # "postgres"
  /\ Moves(q, [call EXCEPT !.at = "holding", !.handle = rows[call.source].kind])
  /\ UNCHANGED <<deployment, rows, poolKinds, borrowed, edits>>

\* PooledConnectionProvider.acquire: the row, read once more, is the tenant's.
CheckTenant(q) ==
  LET call == query[q] IN
  /\ call.at = "routed" /\ (deployment = "env" => call.source = "postgres")
  /\ Moves(q, IF call.source \in DOMAIN rows /\ rows[call.source].tenant = call.tenant
              THEN [call EXCEPT !.at = "checked", !.details = rows[call.source].kind]
              ELSE Ended(call, "refused"))
  /\ UNCHANGED <<deployment, rows, poolKinds, borrowed, edits>>

\* The pool of the source is built once, from the details of the first call.
BuildPool(q) ==
  LET call == query[q] IN
  /\ call.at = "checked" /\ call.source \notin DOMAIN poolKinds
  /\ IF call.details \in Factories
     THEN poolKinds' = With(poolKinds, call.source, call.details) /\ UNCHANGED query
     ELSE Moves(q, Ended(call, "refused")) /\ UNCHANGED poolKinds
  /\ UNCHANGED <<deployment, rows, borrowed, edits>>

\* The pool lends a connection, whatever the row says by now.
Borrow(q) ==
  LET call == query[q] IN
  /\ call.at = "checked" /\ call.source \in DOMAIN poolKinds
  /\ Moves(q, [call EXCEPT !.at = "holding", !.handle = poolKinds[call.source]])
  /\ borrowed' = borrowed \union {q}
  /\ UNCHANGED <<deployment, rows, poolKinds, edits>>

\* No connection in time, a bad password, a server that is down.
ConnectFails(q) ==
  /\ query[q].at = "checked"
  /\ Moves(q, Ended(query[q], "failed"))
  /\ UNCHANGED <<deployment, rows, poolKinds, borrowed, edits>>

\* Mutant of Start: the kinds are not compared.
StartAnyway(q) ==
  LET call == query[q] IN
  /\ call.at = "holding"
  /\ Moves(q, [call EXCEPT !.at = "running"])
  /\ UNCHANGED <<deployment, rows, poolKinds, borrowed, edits>>

\* _ensure_kind: the handle is one the executor understands, or it is released.
Start(q) ==
  LET call == query[q] IN
  /\ call.at = "holding"
  /\ IF call.handle = call.executor
     THEN Moves(q, [call EXCEPT !.at = "running"]) /\ UNCHANGED borrowed
     ELSE Moves(q, Ended(call, "refused")) /\ borrowed' = borrowed \ {q}
  /\ UNCHANGED <<deployment, rows, poolKinds, edits>>

\* executor.describe.  SnowflakeTableExecutor hands the handle where its connection
\* is expected, and so always raises.
Described(q) ==
  LET call == query[q] IN
  /\ call.at = "running" /\ call.op = "describe"
  /\ \/ Moves(q, Ended(call, "failed"))
     \/ call.executor # "snowflake" /\ Moves(q, [Ended(call, "none") EXCEPT !.schema = TRUE])
  /\ borrowed' = borrowed \ {q}
  /\ UNCHANGED <<deployment, rows, poolKinds, edits>>

\* executor.execute, to the end or to an error; released in the finally.
Executed(q) ==
  LET call == query[q] IN
  /\ call.at = "running" /\ call.op = "execute"
  /\ \E outcome \in {"rows", "empty", "failed"} : Moves(q, Ended(call, outcome))
  /\ borrowed' = borrowed \ {q}
  /\ UNCHANGED <<deployment, rows, poolKinds, edits>>

\* A source is added, changes kind or is removed.  It stays with its tenant.
EditRow(s) ==
  /\ deployment = "db" /\ edits < MaxEdits
  /\ edits' = edits + 1
  /\ \/ /\ s \in DOMAIN rows
        /\ rows' = [r \in DOMAIN rows \ {s} |-> rows[r]]
     \/ \E k \in Kinds :
          rows' = With(rows, s, [kind |-> k, tenant |-> IF s \in DOMAIN rows THEN rows[s].tenant ELSE Default])
  /\ UNCHANGED <<deployment, poolKinds, query, borrowed>>

RouterStep(q) ==
  \/ Describe(q) \/ Redeem(q) \/ TakeStatic(q) \/ CheckTenant(q) \/ BuildPool(q) \/ Borrow(q)
  \/ ConnectFails(q) \/ Start(q) \/ Described(q) \/ Executed(q)
FederationNext == (\E q \in Queries : RouterStep(q)) \/ (\E s \in {"postgres"} : EditRow(s))

-----------------------------------------------------------------------------
\* An executor runs with a handle of its own kind only, however the row changed
\* between the catalog, the check of the tenant and the pool that is cached for ever.
KindsAgree == \A q \in Queries : query[q].at = "running" => query[q].handle = query[q].executor

\* A connection that is borrowed has a call that is going to release it.
NothingLeaks == \A q \in borrowed : query[q].at \in {"holding", "running"}

\* What the environment configures is served: nothing is refused but a source that is
\* not configured, or the pooled one to another tenant.
RefusedForCause ==
  \A q \in Queries : query[q].outcome = "refused" /\ deployment = "env" =>
     \/ query[q].source \notin DOMAIN rows
     \/ query[q].source = "postgres" /\ query[q].tenant # Default

\* "client will pick it up from the streamed batches": an answer leaves its client
\* without the schema only if the describe failed as well and there are no rows.
SchemaReachesClient ==
  \A q \in Queries : query[q].at = "over" /\ query[q].outcome \in {"rows", "empty"} /\ ~query[q].schema =>
     query[q].outcome = "empty" /\ query[q].executor # "postgres"

FederationOK == FederationTypeOK /\ KindsAgree /\ NothingLeaks /\ RefusedForCause /\ SchemaReachesClient
=============================================================================
