----------------------------- MODULE QueryProofs -----------------------------
(***************************************************************************)
(* Proofs about the parts that carry queries and judge their answers: the  *)
(* route of a query, for any number of clients and tenants and any edits   *)
(* of the table of connections; evaluation runs, for any number of them,   *)
(* of cases, scorers and processes, and the scores they write of any list  *)
(* of assets; and pooled connections, for any number of clients, sources   *)
(* and pools and every bound.                                              *)
(***************************************************************************)
EXTENDS PooledProvider, FederatedQueries, EvalRuns, EvalScorers,
        FiniteSetTheorems, SequenceTheorems, WellFoundedInduction, TLAPS

-----------------------------------------------------------------------------
(* The route of a query. *)

FederationSpec == FederationInit /\ [][FederationNext]_queryVars

\* The environment configures each source with its own kind and for one tenant, and
\* only the pooled one gets a pool.
EnvInv ==
  deployment = "env" =>
    /\ \A s \in DOMAIN rows : rows[s].kind = s /\ rows[s].tenant = Default
    /\ \A s \in DOMAIN poolKinds : s = "postgres" /\ poolKinds[s] = "postgres"

\* What a call has found on its way.
CallInv(call) ==
  /\ call.at \notin {"told", "over"} => call.outcome = "none"
  /\ call.at = "running" => call.handle = call.executor
  /\ deployment = "env" =>
       /\ call.at \in {"routed", "checked", "holding", "running"} =>
            call.source \in DOMAIN rows /\ call.executor = call.source
       /\ call.at = "checked" => call.source = "postgres" /\ call.details = "postgres"
       /\ call.at = "holding" => call.handle = call.executor
       /\ call.outcome = "refused" =>
            call.source \notin DOMAIN rows \/ (call.source = "postgres" /\ call.tenant # Default)
  /\ call.at = "over" /\ call.outcome \in {"rows", "empty"} /\ ~call.schema =>
       call.outcome = "empty" /\ call.executor # "postgres"

FederationInv ==
  /\ FederationTypeOK /\ EnvInv /\ NothingLeaks
  /\ \A q \in Queries : CallInv(query[q])

Outcomes == {"none", "rows", "empty", "failed", "refused"}

\* How a call ends.
LEMMA EndedCall ==
  ASSUME NEW call \in Calls, NEW outcome \in Outcomes
  PROVE  /\ Ended(call, outcome) \in Calls
         /\ Ended(call, outcome).at \in {"told", "over"} /\ Ended(call, outcome).outcome = outcome
         /\ Ended(call, outcome).source = call.source /\ Ended(call, outcome).tenant = call.tenant
         /\ Ended(call, outcome).executor = call.executor
         /\ Ended(call, outcome).schema \/ outcome \notin {"rows", "empty"}
              \/ (outcome = "empty" /\ call.executor # "postgres")
<1> DEFINE stage == IF call.op = "describe" THEN "told" ELSE "over"
           schema == call.schema \/ \/ outcome = "rows"
                                    \/ outcome = "empty" /\ call.executor = "postgres"
<1>0. Ended(call, outcome) =
        [call EXCEPT !.at = stage, !.details = "none", !.handle = "none", !.outcome = outcome,
                     !.schema = schema]
  BY DEF Ended
<1>2. /\ stage \in Stages /\ stage \in {"told", "over"}
      /\ schema \in BOOLEAN
      /\ schema \/ outcome \notin {"rows", "empty"} \/ (outcome = "empty" /\ call.executor # "postgres")
  BY DEF Calls, Stages
<1>3. /\ call.op \in {"describe", "execute"} /\ call.source \in SourceIds /\ call.tenant \in Tenants
      /\ call.executor \in Kinds
  BY DEF Calls
<1> HIDE DEF stage, schema
<1>1. Ended(call, outcome) =
        [at |-> stage, op |-> call.op, source |-> call.source, tenant |-> call.tenant,
         executor |-> call.executor, details |-> "none", handle |-> "none", schema |-> schema,
         outcome |-> outcome]
  BY <1>0 DEF Calls
<1> QED
  BY <1>1, <1>2, <1>3 DEF Calls, Outcomes

PoolsFit(kinds) ==
  /\ DOMAIN kinds \subseteq SourceIds /\ \A s \in DOMAIN kinds : kinds[s] \in Kinds
  /\ deployment = "env" => \A s \in DOMAIN kinds : s = "postgres" /\ kinds[s] = "postgres"

\* One client's call moves on.
LEMMA MoveKeeps ==
  ASSUME FederationInv, NEW q \in Queries, NEW call \in Calls, CallInv(call), Moves(q, call),
         UNCHANGED <<deployment, rows, edits>>,
         NEW kinds, poolKinds' = kinds, PoolsFit(kinds),
         borrowed' \subseteq borrowed \union {q},
         q \in borrowed' => call.at \in {"holding", "running"}
  PROVE  FederationInv'
<1>1. query' \in [Queries -> Calls] /\ query'[q] = call /\ \A p \in Queries \ {q} : query'[p] = query[p]
  BY DEF FederationInv, FederationTypeOK, Moves
<1>2. FederationTypeOK'
  BY <1>1 DEF FederationInv, FederationTypeOK, PoolsFit
<1>3. EnvInv'
  BY DEF FederationInv, EnvInv, PoolsFit
<1>4. NothingLeaks'
  BY <1>1 DEF FederationInv, FederationTypeOK, NothingLeaks
<1>5. ASSUME NEW p \in Queries PROVE CallInv(query[p])'
  <2>1. CASE p = q
    BY <1>1, <2>1 DEF CallInv
  <2>2. CASE p # q
    BY <1>1, <2>2 DEF FederationInv, CallInv
  <2> QED
    BY <2>1, <2>2
<1> QED
  BY <1>2, <1>3, <1>4, <1>5 DEF FederationInv

LEMMA PoolsKept ==
  ASSUME FederationInv
  PROVE  PoolsFit(poolKinds)
  BY DEF FederationInv, FederationTypeOK, EnvInv, PoolsFit

LEMMA CallTyped ==
  ASSUME FederationInv, NEW q \in Queries
  PROVE  query[q] \in Calls /\ CallInv(query[q])
  BY DEF FederationInv, FederationTypeOK

\* A call that ends for a reason that counts.
LEMMA EndKeeps ==
  ASSUME FederationInv, NEW q \in Queries, NEW call \in Calls, NEW outcome \in Outcomes,
         Moves(q, Ended(call, outcome)), UNCHANGED <<deployment, rows, edits, poolKinds>>,
         borrowed' \subseteq borrowed \ {q} \/ (q \notin borrowed /\ UNCHANGED borrowed),
         outcome = "refused" /\ deployment = "env" =>
           call.source \notin DOMAIN rows \/ (call.source = "postgres" /\ call.tenant # Default)
  PROVE  FederationInv'
<1>1. PICK done \in Calls :
        /\ done = Ended(call, outcome)
        /\ done.at \in {"told", "over"} /\ done.outcome = outcome
        /\ done.source = call.source /\ done.tenant = call.tenant /\ done.executor = call.executor
        /\ done.schema \/ outcome \notin {"rows", "empty"} \/ (outcome = "empty" /\ call.executor # "postgres")
  BY EndedCall
<1>2. CallInv(done)
  BY <1>1 DEF CallInv
<1> QED
  BY <1>1, <1>2, PoolsKept, MoveKeeps

LEMMA NotBorrowed ==
  ASSUME FederationInv, NEW q \in Queries, query[q].at \notin {"holding", "running"}
  PROVE  q \notin borrowed
  BY DEF FederationInv, NothingLeaks

LEMMA RouteKeeps ==
  ASSUME FederationInv, NEW q \in Queries, NEW call \in Calls, Route(q, call),
         query[q].at \in {"idle", "told"}, call.outcome = "none"
  PROVE  FederationInv'
<1>1. q \notin borrowed /\ UNCHANGED <<deployment, rows, edits, poolKinds, borrowed>>
  BY NotBorrowed DEF Route
<1>2. CASE call.source \in DOMAIN rows /\ rows[call.source].kind \in Executors
  <2>1. rows[call.source].kind \in Kinds
    BY <1>2 DEF FederationInv, FederationTypeOK
  <2>2. PICK next : next = [call EXCEPT !.at = "routed", !.executor = rows[call.source].kind]
    OBVIOUS
  <2>3. /\ next \in Calls /\ next.at = "routed" /\ next.outcome = "none" /\ next.source = call.source
        /\ next.executor = rows[call.source].kind
    BY <2>1, <2>2 DEF Calls, Stages
  <2>4. CallInv(next)
    BY <1>2, <2>3 DEF CallInv, FederationInv, EnvInv
  <2>5. Moves(q, next)
    BY <1>2, <2>2 DEF Route
  <2> QED
    BY <1>1, <2>3, <2>4, <2>5, PoolsKept, MoveKeeps
<1>3. CASE ~(call.source \in DOMAIN rows /\ rows[call.source].kind \in Executors)
  <2>1. Moves(q, Ended(call, "refused"))
    BY <1>3 DEF Route
  <2>2. deployment = "env" => call.source \notin DOMAIN rows
    BY <1>3 DEF Executors
  <2> QED
    BY <1>1, <2>1, <2>2, EndKeeps DEF Outcomes
<1> QED
  BY <1>2, <1>3

LEMMA DescribeKeeps ==
  ASSUME FederationInv, NEW q \in Queries, Describe(q)
  PROVE  FederationInv'
<1>1. PICK s \in SourceIds, t \in Tenants : Route(q, [query[q] EXCEPT !.source = s, !.tenant = t])
  BY DEF Describe
<1>2. PICK call : call = [query[q] EXCEPT !.source = s, !.tenant = t]
  OBVIOUS
<1>3. call \in Calls /\ call.outcome = "none" /\ query[q].at = "idle"
  BY <1>2, CallTyped, ZenonT(40) DEF Calls, CallInv, Describe
<1> QED
  BY <1>1, <1>2, <1>3, RouteKeeps

LEMMA RedeemKeeps ==
  ASSUME FederationInv, NEW q \in Queries, Redeem(q)
  PROVE  FederationInv'
<1>1. PICK call : call = [query[q] EXCEPT !.op = "execute", !.outcome = "none"]
  OBVIOUS
<1>2. call \in Calls /\ call.outcome = "none" /\ query[q].at = "told" /\ Route(q, call)
  BY <1>1, CallTyped DEF Calls, Redeem
<1> QED
  BY <1>2, RouteKeeps

LEMMA TakeStaticKeeps ==
  ASSUME FederationInv, NEW q \in Queries, TakeStatic(q)
  PROVE  FederationInv'
<1>1. query[q] \in Calls /\ CallInv(query[q])
  BY CallTyped
<1>2. /\ query[q].at = "routed" /\ deployment = "env" /\ query[q].source \in DOMAIN rows
      /\ query[q].executor = query[q].source /\ query[q].outcome = "none"
      /\ rows[query[q].source].kind = query[q].source /\ rows[query[q].source].kind \in Kinds
  BY <1>1 DEF TakeStatic, CallInv, FederationInv, EnvInv, FederationTypeOK
<1>3. PICK next : next = [query[q] EXCEPT !.at = "holding", !.handle = rows[query[q].source].kind]
  OBVIOUS
<1>4. /\ next \in Calls /\ next.at = "holding" /\ next.outcome = "none" /\ next.source = query[q].source
      /\ next.executor = next.source /\ next.handle = next.source
  BY <1>1, <1>2, <1>3 DEF Calls, Stages
<1>5. CallInv(next)
  BY <1>2, <1>4 DEF CallInv
<1>6. Moves(q, next) /\ UNCHANGED <<deployment, rows, poolKinds, borrowed, edits>>
  BY <1>3 DEF TakeStatic
<1> QED
  BY <1>4, <1>5, <1>6, PoolsKept, MoveKeeps

LEMMA CheckTenantKeeps ==
  ASSUME FederationInv, NEW q \in Queries, CheckTenant(q)
  PROVE  FederationInv'
<1>1. query[q] \in Calls /\ CallInv(query[q])
  BY CallTyped
<1>2. /\ query[q].at = "routed" /\ (deployment = "env" => query[q].source = "postgres")
      /\ q \notin borrowed /\ UNCHANGED <<deployment, rows, poolKinds, borrowed, edits>>
  BY NotBorrowed DEF CheckTenant
<1>3. CASE query[q].source \in DOMAIN rows /\ rows[query[q].source].tenant = query[q].tenant
  <2>1. rows[query[q].source].kind \in Kinds /\ (deployment = "env" => rows[query[q].source].kind = query[q].source)
    BY <1>3 DEF FederationInv, FederationTypeOK, EnvInv
  <2>2. PICK next : next = [query[q] EXCEPT !.at = "checked", !.details = rows[query[q].source].kind]
    OBVIOUS
  <2>3. /\ next \in Calls /\ next.at = "checked" /\ next.outcome = query[q].outcome
        /\ next.source = query[q].source /\ next.executor = query[q].executor
        /\ next.details = rows[query[q].source].kind
    BY <1>1, <2>1, <2>2 DEF Calls, Stages
  <2>4. CallInv(next)
    BY <1>1, <1>2, <1>3, <2>1, <2>3 DEF CallInv
  <2>5. Moves(q, next)
    BY <1>3, <2>2 DEF CheckTenant
  <2> QED
    BY <1>2, <2>3, <2>4, <2>5, PoolsKept, MoveKeeps
<1>4. CASE ~(query[q].source \in DOMAIN rows /\ rows[query[q].source].tenant = query[q].tenant)
  <2>1. Moves(q, Ended(query[q], "refused"))
    BY <1>4 DEF CheckTenant
  <2>2. deployment = "env" => query[q].source \notin DOMAIN rows
                              \/ (query[q].source = "postgres" /\ query[q].tenant # Default)
    BY <1>2, <1>4 DEF FederationInv, EnvInv
  <2> QED
    BY <1>1, <1>2, <2>1, <2>2, EndKeeps DEF Outcomes
<1> QED
  BY <1>3, <1>4

LEMMA BuildPoolKeeps ==
  ASSUME FederationInv, NEW q \in Queries, BuildPool(q)
  PROVE  FederationInv'
<1>1. query[q] \in Calls /\ CallInv(query[q])
  BY CallTyped
<1>2. /\ query[q].at = "checked" /\ q \notin borrowed /\ UNCHANGED <<deployment, rows, borrowed, edits>>
      /\ query[q].source \in SourceIds
  BY <1>1, NotBorrowed DEF BuildPool, Calls
<1>3. CASE query[q].details \in Factories
  <2>1. poolKinds' = With(poolKinds, query[q].source, query[q].details) /\ UNCHANGED query
    BY <1>3 DEF BuildPool
  <2>2. query[q].details = "postgres" /\ "postgres" \in Kinds
    BY <1>3 DEF Factories, Kinds
  <2>3. PoolsFit(poolKinds) /\ (deployment = "env" => query[q].source = "postgres")
    BY <1>1, <1>2, PoolsKept DEF CallInv
  <2>4. PoolsFit(poolKinds)'
    BY <1>2, <2>1, <2>2, <2>3 DEF PoolsFit, With
  <2> QED
    BY <1>2, <2>1, <2>4 DEF FederationInv, FederationTypeOK, EnvInv, NothingLeaks, CallInv, PoolsFit
<1>4. CASE query[q].details \notin Factories
  <2>1. Moves(q, Ended(query[q], "refused")) /\ UNCHANGED poolKinds
    BY <1>4 DEF BuildPool
  <2>2. deployment # "env"
    BY <1>1, <1>2, <1>4 DEF CallInv, Factories
  <2> QED
    BY <1>1, <1>2, <2>1, <2>2, EndKeeps DEF Outcomes
<1> QED
  BY <1>3, <1>4

LEMMA BorrowKeeps ==
  ASSUME FederationInv, NEW q \in Queries, Borrow(q)
  PROVE  FederationInv'
<1>1. query[q] \in Calls /\ CallInv(query[q])
  BY CallTyped
<1>2. /\ query[q].at = "checked" /\ query[q].source \in DOMAIN poolKinds
      /\ poolKinds[query[q].source] \in Kinds
      /\ deployment = "env" => poolKinds[query[q].source] = query[q].source
  BY PoolsKept DEF Borrow, PoolsFit
<1>3. PICK next : next = [query[q] EXCEPT !.at = "holding", !.handle = poolKinds[query[q].source]]
  OBVIOUS
<1>4. /\ next \in Calls /\ next.at = "holding" /\ next.outcome = query[q].outcome
      /\ next.source = query[q].source /\ next.executor = query[q].executor
      /\ next.handle = poolKinds[query[q].source]
  BY <1>1, <1>2, <1>3 DEF Calls, Stages
<1>5. CallInv(next)
  BY <1>1, <1>2, <1>4 DEF CallInv
<1>6. Moves(q, next) /\ UNCHANGED <<deployment, rows, poolKinds, edits>> /\ borrowed' = borrowed \union {q}
  BY <1>3 DEF Borrow
<1> QED
  BY <1>4, <1>5, <1>6, PoolsKept, MoveKeeps

LEMMA StartKeeps ==
  ASSUME FederationInv, NEW q \in Queries, Start(q)
  PROVE  FederationInv'
<1>1. query[q] \in Calls /\ CallInv(query[q]) /\ query[q].at = "holding"
      /\ UNCHANGED <<deployment, rows, poolKinds, edits>>
  BY CallTyped DEF Start
<1>2. CASE query[q].handle = query[q].executor
  <2>1. PICK next : next = [query[q] EXCEPT !.at = "running"]
    OBVIOUS
  <2>2. /\ next \in Calls /\ next.at = "running" /\ next.outcome = query[q].outcome
        /\ next.source = query[q].source /\ next.executor = query[q].executor
        /\ next.handle = query[q].handle
    BY <1>1, <2>1 DEF Calls, Stages
  <2>3. CallInv(next)
    BY <1>1, <1>2, <2>2 DEF CallInv
  <2>4. Moves(q, next) /\ UNCHANGED borrowed
    BY <1>2, <2>1 DEF Start
  <2> QED
    BY <1>1, <2>2, <2>3, <2>4, PoolsKept, MoveKeeps
<1>3. CASE query[q].handle # query[q].executor
  <2>1. Moves(q, Ended(query[q], "refused")) /\ borrowed' = borrowed \ {q}
    BY <1>3 DEF Start
  <2>2. deployment # "env"
    BY <1>1, <1>3 DEF CallInv
  <2> QED
    BY <1>1, <2>1, <2>2, EndKeeps DEF Outcomes
<1> QED
  BY <1>2, <1>3

LEMMA DescribedKeeps ==
  ASSUME FederationInv, NEW q \in Queries, Described(q)
  PROVE  FederationInv'
<1>1. query[q] \in Calls /\ borrowed' = borrowed \ {q} /\ UNCHANGED <<deployment, rows, poolKinds, edits>>
  BY CallTyped DEF Described
<1>2. CASE Moves(q, Ended(query[q], "failed"))
  BY <1>1, <1>2, EndKeeps DEF Outcomes
<1>3. CASE Moves(q, [Ended(query[q], "none") EXCEPT !.schema = TRUE])
  <2>1. PICK done \in Calls : done = Ended(query[q], "none") /\ done.at \in {"told", "over"} /\ done.outcome = "none"
    BY <1>1, EndedCall DEF Outcomes
  <2>2. PICK next : next = [done EXCEPT !.schema = TRUE]
    OBVIOUS
  <2>3. next \in Calls /\ next.at \in {"told", "over"} /\ next.outcome = "none"
    BY <2>1, <2>2 DEF Calls
  <2>4. CallInv(next)
    BY <2>3 DEF CallInv
  <2> QED
    BY <1>1, <1>3, <2>1, <2>2, <2>3, <2>4, PoolsKept, MoveKeeps
<1> QED
  BY <1>2, <1>3 DEF Described

LEMMA ExecutedKeeps ==
  ASSUME FederationInv, NEW q \in Queries, Executed(q)
  PROVE  FederationInv'
<1>1. query[q] \in Calls /\ borrowed' = borrowed \ {q} /\ UNCHANGED <<deployment, rows, poolKinds, edits>>
  BY CallTyped DEF Executed
<1>2. PICK outcome \in {"rows", "empty", "failed"} : Moves(q, Ended(query[q], outcome))
  BY DEF Executed
<1>3. outcome \in Outcomes /\ outcome # "refused"
  BY <1>2 DEF Outcomes
<1> QED
  BY <1>1, <1>2, <1>3, EndKeeps

LEMMA ConnectFailsKeeps ==
  ASSUME FederationInv, NEW q \in Queries, ConnectFails(q)
  PROVE  FederationInv'
<1>1. /\ query[q] \in Calls /\ q \notin borrowed /\ UNCHANGED <<deployment, rows, poolKinds, borrowed, edits>>
      /\ Moves(q, Ended(query[q], "failed"))
  BY CallTyped, NotBorrowed DEF ConnectFails
<1> QED
  BY <1>1, EndKeeps DEF Outcomes

\* An edit of the table happens only where there is a table.
LEMMA EditKeeps ==
  ASSUME FederationInv, NEW s \in {"postgres"}, EditRow(s)
  PROVE  FederationInv'
<1>1. /\ deployment = "db" /\ UNCHANGED <<deployment, poolKinds, query, borrowed>>
      /\ s \in SourceIds /\ DOMAIN rows \subseteq SourceIds
      /\ \A r \in DOMAIN rows : rows[r] \in [kind : Kinds, tenant : Tenants]
  BY DEF EditRow, FederationInv, FederationTypeOK, SourceIds, Kinds
<1>2. edits' \in 0 .. MaxEdits
  BY FederationAssumption DEF EditRow, FederationInv, FederationTypeOK
<1>3. DOMAIN rows' \subseteq SourceIds /\ \A r \in DOMAIN rows' : rows'[r] \in [kind : Kinds, tenant : Tenants]
  <2>1. CASE rows' = [r \in DOMAIN rows \ {s} |-> rows[r]]
    BY <1>1, <2>1
  <2>2. ASSUME NEW k \in Kinds,
               rows' = With(rows, s, [kind |-> k, tenant |-> IF s \in DOMAIN rows THEN rows[s].tenant ELSE Default])
        PROVE  DOMAIN rows' \subseteq SourceIds
               /\ \A r \in DOMAIN rows' : rows'[r] \in [kind : Kinds, tenant : Tenants]
    <3>1. PICK t \in Tenants : t = IF s \in DOMAIN rows THEN rows[s].tenant ELSE Default
      BY <1>1, FederationAssumption
    <3>2. [kind |-> k, tenant |-> t] \in [kind : Kinds, tenant : Tenants]
      OBVIOUS
    <3> QED
      BY <1>1, <2>2, <3>1, <3>2 DEF With
  <2> QED
    BY <2>1, <2>2 DEF EditRow
<1>4. FederationTypeOK'
  BY <1>1, <1>2, <1>3 DEF FederationInv, FederationTypeOK
<1> QED
  BY <1>1, <1>4 DEF FederationInv, EnvInv, NothingLeaks, CallInv

LEMMA FederationInitInv ==
  ASSUME FederationInit
  PROVE  FederationInv
<1>1. query \in [Queries -> Calls] /\ \A q \in Queries : CallInv(query[q])
  <2> DEFINE call == [at |-> "idle", op |-> "describe", source |-> "postgres", tenant |-> Default,
                      executor |-> "postgres", details |-> "none", handle |-> "none",
                      schema |-> FALSE, outcome |-> "none"]
  <2>1. call \in Calls
    BY FederationAssumption DEF Calls, Stages, SourceIds, Kinds
  <2>2. CallInv(call)
    BY DEF CallInv
  <2>3. query = [q \in Queries |-> call]
    BY DEF FederationInit
  <2> HIDE DEF call
  <2> QED
    BY <2>1, <2>2, <2>3
<1>2. DOMAIN rows \subseteq SourceIds /\ \A s \in DOMAIN rows : rows[s] \in [kind : Kinds, tenant : Tenants]
  <2>1. CASE \E configured \in SUBSET SourceIds \ {{}} : rows = EnvRows(configured)
    BY <2>1, FederationAssumption DEF EnvRows, SourceIds
  <2>2. CASE \E k \in Kinds, t \in Tenants : rows = [s \in {"postgres"} |-> [kind |-> k, tenant |-> t]]
    BY <2>2 DEF SourceIds, Kinds
  <2> QED
    BY <2>1, <2>2 DEF FederationInit
<1>3. deployment = "env" => \A s \in DOMAIN rows : rows[s].kind = s /\ rows[s].tenant = Default
  BY DEF FederationInit, EnvRows
<1>4. DOMAIN poolKinds = {}
  BY DEF FederationInit
<1>5. deployment \in {"env", "db"} /\ edits \in 0 .. MaxEdits /\ borrowed = {}
  BY FederationAssumption DEF FederationInit
<1> QED
  BY <1>1, <1>2, <1>3, <1>4, <1>5 DEF FederationInv, FederationTypeOK, EnvInv, NothingLeaks

LEMMA FederationNextKeeps ==
  ASSUME FederationInv, [FederationNext]_queryVars
  PROVE  FederationInv'
<1>1. ASSUME NEW q \in Queries, RouterStep(q) PROVE FederationInv'
  BY <1>1, DescribeKeeps, RedeemKeeps, TakeStaticKeeps, CheckTenantKeeps, BuildPoolKeeps, BorrowKeeps,
     ConnectFailsKeeps, StartKeeps, DescribedKeeps, ExecutedKeeps DEF RouterStep
<1>2. CASE UNCHANGED queryVars
  BY <1>2 DEF queryVars, FederationInv, FederationTypeOK, EnvInv, NothingLeaks, CallInv
<1> QED
  BY <1>1, <1>2, EditKeeps DEF FederationNext

\* However the table of connections changes between the catalog, the check of the tenant and
\* the pool that is cached for ever: an executor runs with a handle of its own kind, what is
\* borrowed is given back, what the environment configures is not refused, and only an empty
\* answer of a source other than postgres leaves its client without a schema (Router.execute,
\* _ensure_kind, PooledConnectionProvider.acquire, get_flight_info).
THEOREM RoutesAreSafe == FederationSpec => []FederationOK
<1>1. FederationInit => FederationInv
  BY FederationInitInv
<1>2. FederationInv /\ [FederationNext]_queryVars => FederationInv'
  BY FederationNextKeeps
<1>3. FederationInv => FederationOK
  BY DEF FederationInv, FederationOK, KindsAgree, RefusedForCause, SchemaReachesClient, CallInv
<1> QED
  BY <1>1, <1>2, <1>3, PTL DEF FederationSpec

-----------------------------------------------------------------------------
(* Evaluation runs. *)

EvalSpec == EvalInit /\ [][EvalNext]_evalVars

\* CurrentCase, of the cases that are open.
First(open) == CHOOSE c \in open : TRUE

Runner(p, r) == Executing(p) /\ process[p].run = r

\* The run is of the batch that the process has claimed.
Holds(p, r) == r \in process[p].claimed \/ (Runner(p, r) /\ ~process[p].once)

\* What a process is doing, by itself.
ShapeOf(j) ==
  /\ j.pc \in {"idle", "next"} => ~j.once
  /\ j.pc = "idle" => j.claimed = {}
  /\ j.once => j.claimed = {}
  /\ j.pc \notin {"idle", "next"} => j.run \notin j.claimed
  /\ j.pc # "cases" => j.open = {}
  /\ j.open = {} => j.scored = 0
  /\ j.scored < Len(Scorers)
  /\ j.passed <= Cardinality(Cases \ j.open)

\* A run is of one batch at most, and run once by one process at most.
OneClaim ==
  \A r \in Runs, p, q \in Processes :
    /\ Holds(p, r) => runStatus[r] \notin {"unused", "pending"}
    /\ Holds(p, r) /\ Holds(q, r) => p = q
    /\ Runner(p, r) => runStatus[r] # "unused"
    /\ Runner(p, r) /\ process[p].once /\ Runner(q, r) /\ process[q].once => p = q

\* What the rows say of the executions so far.
RowsSay ==
  \A r \in Runs :
    /\ \A c \in bad[r] : results[r][c] # 0
    /\ metrics[r] # 0 => \A c \in Cases : results[r][c] # 0
    /\ runStatus[r] = "unused" => r \notin shared /\ metrics[r] = 0 /\ \A c \in Cases : results[r][c] = 0
    /\ \A p \in Processes : Runner(p, r) => \A c \in Cases \ process[p].open : results[r][c] # 0

\* The rows of a run are those of the only process that executes it.
Exact(j, r) ==
  /\ metrics[r] = IF j.pc = "finish" THEN 1 ELSE 0
  /\ j.passed = Cardinality((Cases \ j.open) \ bad[r])
  /\ \A c \in j.open :
       /\ c = First(j.open) => results[r][c] = j.scored /\ (j.good <=> c \notin bad[r])
       /\ c # First(j.open) => results[r][c] = 0

UnsharedExact ==
  \A r \in Runs \ shared :
    /\ metrics[r] <= 1 /\ \A c \in Cases : results[r][c] <= Len(Scorers)
    /\ runStatus[r] = "done" => passed[r] = Cardinality(Cases \ bad[r])
    /\ \A p \in Processes : Runner(p, r) =>
         /\ runStatus[r] # "done" /\ Exact(process[p], r)
         /\ \A q \in Processes : Runner(q, r) => q = p

\* Results that an execution may still write for a case, and metrics.
Left(j, c) ==
  IF c \notin j.open THEN 0 ELSE IF c = First(j.open) THEN Len(Scorers) - j.scored ELSE Len(Scorers)
LeftM(j) == IF j.pc \in {"cases", "roll up"} THEN 1 ELSE 0

\* The process that is to execute the claim of the run has not begun.
Unclaimed(r) == runStatus[r] \in {"unused", "pending"} \/ \E p \in Processes : r \in process[p].claimed

RowBudget ==
  \A r \in Runs, c \in Cases :
    /\ results[r][c] <= 2 * Len(Scorers)
    /\ Unclaimed(r) => results[r][c] <= Len(Scorers)
    /\ \A p \in Processes : Runner(p, r) =>
         /\ results[r][c] + Left(process[p], c) <= 2 * Len(Scorers)
         /\ Unclaimed(r) => results[r][c] + Left(process[p], c) <= Len(Scorers)
         /\ \A q \in Processes \ {p} : Runner(q, r) =>
              results[r][c] + Left(process[p], c) + Left(process[q], c) <= 2 * Len(Scorers)

MetricBudget ==
  \A r \in Runs :
    /\ metrics[r] <= 2
    /\ Unclaimed(r) => metrics[r] <= 1
    /\ \A p \in Processes : Runner(p, r) =>
         /\ metrics[r] + LeftM(process[p]) <= 2
         /\ Unclaimed(r) => metrics[r] + LeftM(process[p]) <= 1
         /\ \A q \in Processes \ {p} : Runner(q, r) =>
              metrics[r] + LeftM(process[p]) + LeftM(process[q]) <= 2

EvalHistory ==
  /\ EvalTypeOK /\ \A p \in Processes : ShapeOf(process[p])
  /\ OneClaim /\ RowsSay /\ UnsharedExact /\ RowBudget /\ MetricBudget

-----------------------------------------------------------------------------
LEMMA Depth == Len(Scorers) \in Nat /\ Len(Scorers) > 0
  BY EvalAssumption

LEMMA CaseSets ==
  ASSUME NEW S \in SUBSET Cases
  PROVE  /\ IsFiniteSet(S) /\ Cardinality(S) \in Nat /\ Cardinality(S) <= Cardinality(Cases)
         /\ Cardinality(S) \in 0 .. Cardinality(Cases)
<1>1. IsFiniteSet(S) /\ Cardinality(S) <= Cardinality(Cases)
  BY EvalAssumption, FS_Subset
<1>2. Cardinality(S) \in Nat /\ Cardinality(Cases) \in Nat
  BY <1>1, EvalAssumption, FS_CardinalityType
<1> QED
  BY <1>1, <1>2

LEMMA OneCaseMore ==
  ASSUME NEW S \in SUBSET Cases, NEW c, c \notin S
  PROVE  Cardinality(S \union {c}) = Cardinality(S) + 1
<1>1. IsFiniteSet(S)
  BY CaseSets
<1> QED
  BY <1>1, FS_AddElement

LEMMA FirstIsOpen ==
  ASSUME NEW open, open # {}
  PROVE  First(open) \in open
  BY DEF First

LEMMA CurrentIsFirst ==
  ASSUME NEW p \in Processes
  PROVE  CurrentCase(p) = First(process[p].open)
  BY DEF CurrentCase, First

LEMMA LeftTyped ==
  ASSUME NEW j \in Activities, NEW c
  PROVE  /\ Left(j, c) \in Nat /\ Left(j, c) <= Len(Scorers)
         /\ LeftM(j) \in 0 .. 1
         /\ j.open = {} => Left(j, c) = 0
<1>1. j.scored \in 0 .. Len(Scorers)
  BY DEF Activities
<1> QED
  BY <1>1, Depth DEF Left, LeftM

LEMMA IdleIs ==
  /\ Idle \in Activities /\ Idle.pc = "idle" /\ Idle.claimed = {} /\ ~Idle.once /\ Idle.open = {}
  /\ Idle.scored = 0 /\ Idle.good /\ Idle.passed = 0
<1> DEFINE any == CHOOSE r \in Runs : TRUE
<1>1. any \in Runs
  BY EvalAssumption
<1>2. Idle = [pc |-> "idle", claimed |-> {}, run |-> any, once |-> FALSE,
              open |-> {}, scored |-> 0, good |-> TRUE, passed |-> 0]
  BY DEF Idle
<1>3. 0 \in 0 .. Len(Scorers) /\ 0 \in 0 .. Cardinality(Cases)
  BY Depth, CaseSets
<1> HIDE DEF any
<1> QED
  BY <1>1, <1>2, <1>3 DEF Activities

\* The activity of one process changes.
LEMMA SetOne ==
  ASSUME EvalTypeOK, NEW p \in Processes, NEW j \in Activities, Set(p, j)
  PROVE  /\ process' \in [Processes -> Activities] /\ process'[p] = j
         /\ \A q \in Processes \ {p} : process'[q] = process[q]
  BY DEF EvalTypeOK, Set

LEMMA ActivityTyped ==
  ASSUME EvalHistory, NEW p \in Processes
  PROVE  process[p] \in Activities /\ ShapeOf(process[p])
  BY DEF EvalHistory, EvalTypeOK

LEMMA Counted ==
  ASSUME EvalHistory, NEW r \in Runs, NEW c \in Cases
  PROVE  results[r][c] \in Nat /\ metrics[r] \in Nat /\ bad[r] \in SUBSET Cases
  BY DEF EvalHistory, EvalTypeOK

\* A step that writes nothing and begins nothing takes nothing from the budgets.
LEMMA QuietRows ==
  ASSUME EvalHistory, process' \in [Processes -> Activities], UNCHANGED results,
         \A r \in Runs : Unclaimed(r)' => Unclaimed(r),
         \A r \in Runs, p \in Processes : Runner(p, r)' =>
            Runner(p, r) /\ \A c \in Cases : Left(process'[p], c) <= Left(process[p], c)
  PROVE  RowBudget'
<1> SUFFICES ASSUME NEW r \in Runs, NEW c \in Cases
    PROVE  /\ results[r][c] <= 2 * Len(Scorers)
           /\ Unclaimed(r)' => results[r][c] <= Len(Scorers)
           /\ \A p \in Processes : Runner(p, r)' =>
                /\ results[r][c] + Left(process'[p], c) <= 2 * Len(Scorers)
                /\ Unclaimed(r)' => results[r][c] + Left(process'[p], c) <= Len(Scorers)
                /\ \A q \in Processes \ {p} : Runner(q, r)' =>
                     results[r][c] + Left(process'[p], c) + Left(process'[q], c) <= 2 * Len(Scorers)
  BY DEF RowBudget, Left
<1>1. results[r][c] <= 2 * Len(Scorers) /\ (Unclaimed(r)' => results[r][c] <= Len(Scorers))
  BY DEF EvalHistory, RowBudget
<1>2. results[r][c] \in Nat /\ Len(Scorers) \in Nat
  BY Counted, Depth
<1>3. ASSUME NEW p \in Processes, Runner(p, r)'
      PROVE  /\ results[r][c] + Left(process'[p], c) <= 2 * Len(Scorers)
             /\ Unclaimed(r)' => results[r][c] + Left(process'[p], c) <= Len(Scorers)
  <2>1. /\ results[r][c] + Left(process[p], c) <= 2 * Len(Scorers)
        /\ Unclaimed(r)' => results[r][c] + Left(process[p], c) <= Len(Scorers)
        /\ Left(process'[p], c) <= Left(process[p], c)
    BY <1>3 DEF EvalHistory, RowBudget
  <2>2. Left(process'[p], c) \in Nat /\ Left(process[p], c) \in Nat
    BY LeftTyped, ActivityTyped
  <2> QED
    BY <1>2, <2>1, <2>2
<1>4. ASSUME NEW p \in Processes, Runner(p, r)', NEW q \in Processes \ {p}, Runner(q, r)'
      PROVE  results[r][c] + Left(process'[p], c) + Left(process'[q], c) <= 2 * Len(Scorers)
  <2>1. /\ results[r][c] + Left(process[p], c) + Left(process[q], c) <= 2 * Len(Scorers)
        /\ Left(process'[p], c) <= Left(process[p], c)
        /\ Left(process'[q], c) <= Left(process[q], c)
    BY <1>4 DEF EvalHistory, RowBudget
  <2>2. /\ Left(process'[p], c) \in Nat /\ Left(process[p], c) \in Nat
        /\ Left(process'[q], c) \in Nat /\ Left(process[q], c) \in Nat
    BY LeftTyped, ActivityTyped
  <2> QED
    BY <1>2, <2>1, <2>2
<1> QED
  BY <1>1, <1>3, <1>4

LEMMA QuietMetrics ==
  ASSUME EvalHistory, process' \in [Processes -> Activities], UNCHANGED metrics,
         \A r \in Runs : Unclaimed(r)' => Unclaimed(r),
         \A r \in Runs, p \in Processes : Runner(p, r)' =>
            Runner(p, r) /\ LeftM(process'[p]) <= LeftM(process[p])
  PROVE  MetricBudget'
<1> SUFFICES ASSUME NEW r \in Runs
    PROVE  /\ metrics[r] <= 2
           /\ Unclaimed(r)' => metrics[r] <= 1
           /\ \A p \in Processes : Runner(p, r)' =>
                /\ metrics[r] + LeftM(process'[p]) <= 2
                /\ Unclaimed(r)' => metrics[r] + LeftM(process'[p]) <= 1
                /\ \A q \in Processes \ {p} : Runner(q, r)' =>
                     metrics[r] + LeftM(process'[p]) + LeftM(process'[q]) <= 2
  BY DEF MetricBudget, LeftM
<1>1. metrics[r] \in Nat /\ \A p \in Processes : LeftM(process[p]) \in 0 .. 1 /\ LeftM(process'[p]) \in 0 .. 1
  BY LeftTyped, ActivityTyped DEF EvalHistory, EvalTypeOK
<1> QED
  BY <1>1 DEF EvalHistory, MetricBudget

\* A process is done with a run, or with its batch: the run is as it was, or it has failed,
\* or it is done and its passing cases are counted.
LEMMA LeaveKeeps ==
  ASSUME EvalHistory, NEW p \in Processes, NEW j \in Activities, Set(p, j),
         j.pc \in {"idle", "next"}, ~j.once, j.claimed \subseteq process[p].claimed,
         j.pc = "idle" => j.claimed = {}, j.open = {}, j.scored = 0, j.passed = 0,
         UNCHANGED <<results, bad, metrics, shared>>, failures' \in 0 .. MaxFailures,
         runStatus' \in [Runs -> Statuses], passed' \in [Runs -> 0 .. Cardinality(Cases)],
         \A r \in Runs :
           \/ runStatus'[r] = runStatus[r] /\ passed'[r] = passed[r]
           \/ /\ Runner(p, r)
              /\ \/ runStatus'[r] = "failed" /\ passed'[r] = passed[r]
                 \/ /\ runStatus'[r] = "done" /\ passed'[r] = process[p].passed
                    /\ process[p].open = {}
  PROVE  EvalHistory'
<1>1. /\ process' \in [Processes -> Activities] /\ process'[p] = j
      /\ \A q \in Processes \ {p} : process'[q] = process[q]
  BY SetOne DEF EvalHistory
<1>2. \A r \in Runs, q \in Processes : Runner(q, r)' => q # p /\ Runner(q, r) /\ process'[q] = process[q]
  BY <1>1 DEF Runner, Executing
<1>3. \A r \in Runs, q \in Processes : Holds(q, r)' => Holds(q, r)
  BY <1>1, <1>2 DEF Holds
<1>4. \A r \in Runs : Unclaimed(r)' => Unclaimed(r)
  BY <1>1 DEF Unclaimed
<1>5. EvalTypeOK'
  BY <1>1 DEF EvalHistory, EvalTypeOK
<1>6. \A q \in Processes : ShapeOf(process'[q])
  <2>1. 0 <= Cardinality(Cases \ j.open) /\ 0 < Len(Scorers)
    BY CaseSets, Depth
  <2>2. ShapeOf(j)
    BY <2>1 DEF ShapeOf
  <2> QED
    BY <1>1, <2>2 DEF EvalHistory
<1>7. OneClaim'
  <2>1. \A r \in Runs : /\ runStatus'[r] \in {"unused", "pending"} => runStatus[r] \in {"unused", "pending"}
                        /\ runStatus'[r] = "unused" => runStatus[r] = "unused"
    OBVIOUS
  <2>2. \A r \in Runs, q \in Processes : Runner(q, r)' => process'[q].once = process[q].once
    BY <1>2
  <2> QED
    BY <1>2, <1>3, <2>1, <2>2 DEF EvalHistory, OneClaim
<1>8. RowsSay'
  BY <1>2 DEF EvalHistory, RowsSay
<1>9. UnsharedExact'
  <2> SUFFICES ASSUME NEW r \in Runs \ shared
      PROVE  /\ metrics[r] <= 1 /\ \A c \in Cases : results[r][c] <= Len(Scorers)
             /\ runStatus'[r] = "done" => passed'[r] = Cardinality(Cases \ bad[r])
             /\ \A q \in Processes : Runner(q, r)' =>
                  /\ runStatus'[r] # "done" /\ Exact(process'[q], r)
                  /\ \A s \in Processes : Runner(s, r)' => s = q
    <3>1. ASSUME NEW q \in Processes, NEW r \in Runs, Exact(process'[q], r) PROVE Exact(process[q], r)'
      BY <3>1 DEF Exact
    <3> QED
      BY <3>1 DEF UnsharedExact
  <2>1. /\ metrics[r] <= 1 /\ \A c \in Cases : results[r][c] <= Len(Scorers)
        /\ runStatus[r] = "done" => passed[r] = Cardinality(Cases \ bad[r])
        /\ \A q \in Processes : Runner(q, r) =>
             /\ runStatus[r] # "done" /\ Exact(process[q], r)
             /\ \A s \in Processes : Runner(s, r) => s = q
    BY DEF EvalHistory, UnsharedExact
  <2>2. CASE runStatus'[r] = runStatus[r] /\ passed'[r] = passed[r]
    BY <1>2, <2>1, <2>2
  <2>3. CASE Runner(p, r)
    <3>1. \A q \in Processes : ~Runner(q, r)'
      BY <1>2, <2>1, <2>3
    <3>2. runStatus'[r] = "done" /\ process[p].open = {} /\ passed'[r] = process[p].passed
            => passed'[r] = Cardinality(Cases \ bad[r])
      <4>1. process[p].passed = Cardinality((Cases \ process[p].open) \ bad[r])
        BY <2>1, <2>3 DEF Exact
      <4> QED
        BY <4>1
    <3>3. runStatus[r] # "done"
      BY <2>1, <2>3
    <3> QED
      BY <2>1, <3>1, <3>2, <3>3
  <2> QED
    BY <2>2, <2>3
<1>10. RowBudget' /\ MetricBudget'
  <2>1. \A q \in Processes : LeftM(process[q]) \in Nat /\ \A c \in Cases : Left(process[q], c) \in Nat
    BY LeftTyped, ActivityTyped
  <2>2. ASSUME NEW q \in Processes, process'[q] = process[q]
        PROVE  /\ LeftM(process'[q]) <= LeftM(process[q])
               /\ \A c \in Cases : Left(process'[q], c) <= Left(process[q], c)
    BY <2>1, <2>2
  <2>3. RowBudget'
    BY <1>1, <1>2, <1>4, <2>2, QuietRows
  <2>4. MetricBudget'
    BY <1>1, <1>2, <1>4, <2>2, QuietMetrics
  <2> QED
    BY <2>3, <2>4
<1> QED
  BY <1>5, <1>6, <1>7, <1>8, <1>9, <1>10 DEF EvalHistory

\* A step of which the rows and the executions show nothing, but for the place of one.
LEMMA QuietUnshared ==
  ASSUME EvalHistory, UNCHANGED <<results, bad, metrics, passed, shared>>,
         \A r \in Runs : runStatus'[r] = "done" => runStatus[r] = "done",
         \A r \in Runs, p \in Processes : Runner(p, r)' =>
           /\ Runner(p, r) /\ process'[p].open = process[p].open
           /\ process'[p].scored = process[p].scored /\ process'[p].good = process[p].good
           /\ process'[p].passed = process[p].passed
           /\ process'[p].pc = "finish" <=> process[p].pc = "finish"
  PROVE  UnsharedExact'
<1>1. ASSUME NEW r \in Runs \ shared, NEW p \in Processes, Runner(p, r)'
      PROVE  runStatus'[r] # "done" /\ Exact(process[p], r)'
  <2>1. runStatus[r] # "done" /\ Exact(process[p], r)
    BY <1>1 DEF EvalHistory, UnsharedExact
  <2>2. /\ process'[p].open = process[p].open
        /\ process'[p].scored = process[p].scored /\ process'[p].good = process[p].good
        /\ process'[p].passed = process[p].passed
        /\ process'[p].pc = "finish" <=> process[p].pc = "finish"
    BY <1>1
  <2> QED
    BY <2>1, <2>2 DEF Exact
<1>2. ASSUME NEW r \in Runs \ shared, NEW p \in Processes, NEW q \in Processes, Runner(p, r)', Runner(q, r)'
      PROVE  q = p
  BY <1>2, ZenonT(40) DEF EvalHistory, UnsharedExact
<1>3. ASSUME NEW r \in Runs \ shared
      PROVE  /\ metrics[r] <= 1 /\ \A c \in Cases : results[r][c] <= Len(Scorers)
             /\ runStatus'[r] = "done" => passed'[r] = Cardinality(Cases \ bad[r])
  BY DEF EvalHistory, UnsharedExact
<1> QED
  BY <1>1, <1>2, <1>3 DEF UnsharedExact

LEMMA EnqueueKeeps ==
  ASSUME EvalHistory, NEW r \in Runs, Enqueue(r)
  PROVE  EvalHistory'
<1>1. /\ runStatus[r] = "unused" /\ runStatus' = [runStatus EXCEPT ![r] = "pending"]
      /\ UNCHANGED <<passed, results, bad, metrics, process, failures, shared>>
  BY DEF Enqueue, KeepRows
<1>2. /\ runStatus' \in [Runs -> Statuses] /\ runStatus'[r] = "pending"
      /\ \A s \in Runs \ {r} : runStatus'[s] = runStatus[s]
  BY <1>1 DEF EvalHistory, EvalTypeOK, Statuses
<1>3. EvalTypeOK'
  BY <1>1, <1>2 DEF EvalHistory, EvalTypeOK
<1>4. \A s \in Runs, p \in Processes : (Runner(p, s)' <=> Runner(p, s)) /\ (Holds(p, s)' <=> Holds(p, s))
  BY <1>1 DEF Runner, Holds, Executing
<1>5. \A s \in Runs : Unclaimed(s)' => Unclaimed(s)
  BY <1>1, <1>2 DEF Unclaimed
<1>6. OneClaim'
  BY <1>1, <1>2, <1>4 DEF EvalHistory, OneClaim
<1>7. RowsSay'
  BY <1>1, <1>2, <1>4 DEF EvalHistory, RowsSay
<1>8. UnsharedExact'
  BY <1>1, <1>2, <1>4, QuietUnshared
<1>9. process' \in [Processes -> Activities]
  BY <1>3 DEF EvalTypeOK
<1>10. \A p \in Processes : LeftM(process[p]) <= LeftM(process[p])
                            /\ \A c \in Cases : Left(process[p], c) <= Left(process[p], c)
  <2>1. \A p \in Processes : LeftM(process[p]) \in Nat /\ \A c \in Cases : Left(process[p], c) \in Nat
    BY LeftTyped, ActivityTyped
  <2> QED
    BY <2>1
<1>11. RowBudget'
  BY <1>1, <1>4, <1>5, <1>9, <1>10, QuietRows
<1>12. MetricBudget'
  BY <1>1, <1>4, <1>5, <1>9, <1>10, QuietMetrics
<1> QED
  BY <1>1, <1>3, <1>6, <1>7, <1>8, <1>11, <1>12 DEF EvalHistory

LEMMA ClaimKeeps ==
  ASSUME EvalHistory, NEW p \in Processes, Claim(p)
  PROVE  EvalHistory'
<1>1. PICK batch \in Batches :
        /\ runStatus' = [r \in Runs |-> IF r \in batch THEN "running" ELSE runStatus[r]]
        /\ Set(p, [Idle EXCEPT !.pc = "next", !.claimed = batch])
  BY DEF Claim
<1>2. PICK j : j = [Idle EXCEPT !.pc = "next", !.claimed = batch]
  OBVIOUS
<1>3. batch \in SUBSET Runs /\ \A r \in batch : runStatus[r] = "pending"
  BY DEF Batches, Pending
<1>4. /\ j \in Activities /\ j.pc = "next" /\ j.claimed = batch /\ ~j.once /\ j.open = {}
      /\ j.scored = 0 /\ j.passed = 0
  BY <1>2, <1>3, IdleIs DEF Activities
<1>5. /\ process' \in [Processes -> Activities] /\ process'[p] = j
      /\ \A q \in Processes \ {p} : process'[q] = process[q]
  BY <1>1, <1>2, <1>4, SetOne DEF EvalHistory
<1>6. /\ UNCHANGED <<passed, results, bad, metrics, failures, shared>> /\ process[p].pc = "idle"
  BY DEF Claim, KeepRows, Doing
<1>7. /\ runStatus' \in [Runs -> Statuses]
      /\ \A r \in Runs \ batch : runStatus'[r] = runStatus[r]
      /\ \A r \in batch : runStatus'[r] = "running"
  BY <1>1, <1>3 DEF EvalHistory, EvalTypeOK, Statuses
<1>8. \A r \in Runs, q \in Processes : Runner(q, r)' => q # p /\ Runner(q, r) /\ process'[q] = process[q]
  BY <1>4, <1>5 DEF Runner, Executing
<1>9. \A r \in Runs, q \in Processes : Holds(q, r)' => IF q = p THEN r \in batch ELSE Holds(q, r)
  BY <1>4, <1>5, <1>8 DEF Holds
<1>10. \A r \in batch, q \in Processes : ~Holds(q, r)
  BY <1>3 DEF EvalHistory, OneClaim
<1>11. EvalTypeOK'
  BY <1>5, <1>6, <1>7 DEF EvalHistory, EvalTypeOK
<1>12. \A q \in Processes : ShapeOf(process'[q])
  <2>1. 0 <= Cardinality(Cases \ j.open) /\ 0 < Len(Scorers)
    BY CaseSets, Depth
  <2>2. ShapeOf(j)
    BY <1>4, <2>1 DEF ShapeOf
  <2> QED
    BY <1>5, <2>2 DEF EvalHistory
<1>13. OneClaim'
  <2> SUFFICES ASSUME NEW r \in Runs, NEW q \in Processes, NEW s \in Processes
      PROVE  /\ Holds(q, r)' => runStatus'[r] \notin {"unused", "pending"}
             /\ Holds(q, r)' /\ Holds(s, r)' => q = s
             /\ Runner(q, r)' => runStatus'[r] # "unused"
             /\ Runner(q, r)' /\ process'[q].once /\ Runner(s, r)' /\ process'[s].once => q = s
    BY DEF OneClaim
  <2>1. Holds(q, r)' => runStatus'[r] \notin {"unused", "pending"}
    BY <1>3, <1>7, <1>9 DEF EvalHistory, OneClaim
  <2>2. Holds(q, r)' /\ Holds(s, r)' => q = s
    BY <1>9, <1>10 DEF EvalHistory, OneClaim
  <2>3. Runner(q, r)' => runStatus'[r] # "unused"
    BY <1>7, <1>8 DEF EvalHistory, OneClaim
  <2>4. Runner(q, r)' /\ process'[q].once /\ Runner(s, r)' /\ process'[s].once => q = s
    BY <1>8 DEF EvalHistory, OneClaim
  <2> QED
    BY <2>1, <2>2, <2>3, <2>4
<1>14. RowsSay'
  BY <1>6, <1>7, <1>8 DEF EvalHistory, RowsSay
<1>15. UnsharedExact'
  BY <1>6, <1>7, <1>8, QuietUnshared
<1>16. \A r \in Runs : Unclaimed(r)' => Unclaimed(r)
  BY <1>3, <1>4, <1>5, <1>7 DEF Unclaimed
<1>17. \A q \in Processes : LeftM(process[q]) <= LeftM(process[q])
                            /\ \A c \in Cases : Left(process[q], c) <= Left(process[q], c)
  <2>1. \A q \in Processes : LeftM(process[q]) \in Nat /\ \A c \in Cases : Left(process[q], c) \in Nat
    BY LeftTyped, ActivityTyped
  <2> QED
    BY <2>1
<1>18. RowBudget'
  BY <1>5, <1>6, <1>8, <1>16, <1>17, QuietRows
<1>19. MetricBudget'
  BY <1>5, <1>6, <1>8, <1>16, <1>17, QuietMetrics
<1> QED
  BY <1>11, <1>12, <1>13, <1>14, <1>15, <1>18, <1>19 DEF EvalHistory

LEMMA CasesDoneKeeps ==
  ASSUME EvalHistory, NEW p \in Processes, CasesDone(p)
  PROVE  EvalHistory'
<1>1. PICK j : j = [process[p] EXCEPT !.pc = "roll up"]
  OBVIOUS
<1>2. process[p] \in Activities /\ ShapeOf(process[p])
  BY ActivityTyped
<1>3. process[p].pc = "cases" /\ process[p].open = {} /\ Set(p, j)
      /\ UNCHANGED <<passed, results, bad, metrics, runStatus, failures, shared>>
  BY <1>1 DEF CasesDone, Doing, KeepRows
<1>4. /\ j \in Activities /\ j.pc = "roll up" /\ j.claimed = process[p].claimed /\ j.run = process[p].run
      /\ j.once = process[p].once /\ j.open = process[p].open /\ j.scored = process[p].scored
      /\ j.good = process[p].good /\ j.passed = process[p].passed
  BY <1>1, <1>2 DEF Activities
<1>5. /\ process' \in [Processes -> Activities] /\ process'[p] = j
      /\ \A q \in Processes \ {p} : process'[q] = process[q]
  BY <1>3, <1>4, SetOne DEF EvalHistory
<1>6. \A q \in Processes :
        /\ Executing(q)' <=> Executing(q)
        /\ process'[q].claimed = process[q].claimed /\ process'[q].run = process[q].run
        /\ process'[q].once = process[q].once /\ process'[q].open = process[q].open
        /\ process'[q].scored = process[q].scored /\ process'[q].good = process[q].good
        /\ process'[q].passed = process[q].passed
        /\ process'[q].pc = "finish" <=> process[q].pc = "finish"
  BY <1>3, <1>4, <1>5 DEF Executing
<1>7. \A r \in Runs, q \in Processes : (Runner(q, r)' <=> Runner(q, r)) /\ (Holds(q, r)' <=> Holds(q, r))
  BY <1>6 DEF Runner, Holds
<1>8. EvalTypeOK'
  BY <1>3, <1>5 DEF EvalHistory, EvalTypeOK
<1>9. \A q \in Processes : ShapeOf(process'[q])
  <2>1. ShapeOf(j)
    BY <1>2, <1>3, <1>4 DEF ShapeOf
  <2> QED
    BY <1>5, <2>1 DEF EvalHistory
<1>10. OneClaim'
  BY <1>3, <1>6, <1>7 DEF EvalHistory, OneClaim
<1>11. RowsSay'
  BY <1>3, <1>6, <1>7 DEF EvalHistory, RowsSay
<1>12. UnsharedExact'
  BY <1>3, <1>6, <1>7, QuietUnshared
<1>13. \A r \in Runs : Unclaimed(r)' => Unclaimed(r)
  BY <1>3, <1>6 DEF Unclaimed
<1>14. ASSUME NEW q \in Processes
       PROVE  /\ LeftM(process'[q]) <= LeftM(process[q])
              /\ \A c \in Cases : Left(process'[q], c) <= Left(process[q], c)
  <2>1. \A c \in Cases : Left(process[q], c) \in Nat
    BY LeftTyped, ActivityTyped
  <2>2. \A c \in Cases : Left(process'[q], c) = Left(process[q], c)
    BY <1>6 DEF Left
  <2>3. LeftM(process'[q]) = LeftM(process[q])
    BY <1>3, <1>4, <1>5 DEF LeftM
  <2>4. LeftM(process[q]) \in Nat
    BY DEF LeftM
  <2> QED
    BY <2>1, <2>2, <2>3, <2>4
<1>15. RowBudget'
  BY <1>3, <1>5, <1>7, <1>13, <1>14, QuietRows
<1>16. MetricBudget'
  BY <1>3, <1>5, <1>7, <1>13, <1>14, QuietMetrics
<1> QED
  BY <1>8, <1>9, <1>10, <1>11, <1>12, <1>15, <1>16 DEF EvalHistory

\* A process begins with a run: it runs it once, and the row is new, or its claim has come
\* to it, and the budget of one more execution is left.
LEMMA BeginKeeps ==
  ASSUME EvalHistory, NEW p \in Processes, NEW r \in Runs, NEW j \in Activities, Set(p, j),
         process[p].pc \in {"idle", "next"}, j.pc = "cases", j.run = r, j.open = Cases,
         j.scored = 0, j.good, j.passed = 0, j.once => j.claimed = {}, r \notin j.claimed,
         UNCHANGED <<passed, results, bad, metrics>>,
         Unclaimed(r), \A s \in Runs \ {r} : Unclaimed(s)' => Unclaimed(s),
         runStatus'[r] # "unused", \A s \in Runs \ {r} : runStatus'[s] = runStatus[s],
         \A s \in Runs \ {r} : s \in shared' <=> s \in shared,
         Unclaimed(r)' \/ r \notin shared' =>
           /\ metrics[r] = 0 /\ \A c \in Cases : results[r][c] = 0
           /\ runStatus'[r] # "done" /\ r \notin shared
           /\ \A q \in Processes : ~Runner(q, r)
  PROVE  /\ \A q \in Processes : ShapeOf(process'[q])
         /\ RowsSay' /\ UnsharedExact' /\ RowBudget' /\ MetricBudget'
<1>1. /\ process' \in [Processes -> Activities] /\ process'[p] = j
      /\ \A q \in Processes \ {p} : process'[q] = process[q]
  BY SetOne DEF EvalHistory
<1>2. \A s \in Runs, q \in Processes : Runner(q, s)' =>
        IF q = p THEN s = r ELSE Runner(q, s) /\ process'[q] = process[q]
  BY <1>1 DEF Runner, Executing
<1>3. \A q \in Processes : ShapeOf(process'[q])
  <2>1. 0 <= Cardinality(Cases \ j.open) /\ 0 < Len(Scorers) /\ Cases # {}
    BY CaseSets, Depth, EvalAssumption
  <2>2. ShapeOf(j)
    BY <2>1 DEF ShapeOf
  <2> QED
    BY <1>1, <2>2 DEF EvalHistory
<1>4. RowsSay'
  <2>1. \A s \in Runs : runStatus'[s] = "unused" => runStatus[s] = "unused"
    OBVIOUS
  <2>2. ASSUME NEW s \in Runs, NEW q \in Processes, Runner(q, s)'
        PROVE  \A c \in Cases \ process'[q].open : results[s][c] # 0
    BY <1>1, <1>2, <2>2 DEF EvalHistory, RowsSay
  <2>3. \A s \in Runs : runStatus'[s] = "unused" => s \notin shared'
    BY <2>1 DEF EvalHistory, RowsSay
  <2>4. ASSUME NEW s \in Runs
        PROVE  /\ \A c \in bad[s] : results[s][c] # 0
               /\ metrics[s] # 0 => \A c \in Cases : results[s][c] # 0
               /\ runStatus'[s] = "unused" => metrics[s] = 0 /\ \A c \in Cases : results[s][c] = 0
    BY <2>1 DEF EvalHistory, RowsSay
  <2> QED
    BY <2>2, <2>3, <2>4 DEF RowsSay
<1>5. UnsharedExact'
  <2>1. ASSUME NEW s \in Runs \ shared', NEW q \in Processes, Runner(q, s)'
        PROVE  runStatus'[s] # "done" /\ Exact(process[q], s)'
    <3>1. CASE q # p
      <4>1. Runner(q, s) /\ process'[q] = process[q] /\ s # r
        BY <1>2, <2>1, <3>1
      <4>2. runStatus[s] # "done" /\ Exact(process[q], s)
        BY <4>1, <2>1 DEF EvalHistory, UnsharedExact
      <4> QED
        BY <4>1, <4>2 DEF Exact
    <3>2. CASE q = p
      <4>1. s = r /\ metrics[r] = 0 /\ \A c \in Cases : results[r][c] = 0
        BY <1>2, <2>1, <3>2
      <4>2. \A c \in Cases : c \notin bad[r]
        BY <4>1 DEF EvalHistory, RowsSay
      <4>3. Cardinality((Cases \ j.open) \ bad[r]) = 0
        BY FS_EmptySet
      <4>4. runStatus'[s] # "done"
        BY <2>1, <4>1
      <4> QED
        BY <1>1, <3>2, <4>1, <4>2, <4>3, <4>4 DEF Exact
    <3> QED
      BY <3>1, <3>2
  <2>2. ASSUME NEW s \in Runs \ shared', NEW q \in Processes, NEW o \in Processes, Runner(q, s)', Runner(o, s)'
        PROVE  o = q
    <3>1. CASE s = r
      BY <1>2, <2>2, <3>1
    <3>2. CASE s # r
      <4>1. s \in Runs \ shared /\ Runner(q, s) /\ Runner(o, s)
        BY <1>2, <2>2, <3>2
      <4> QED
        BY <4>1 DEF EvalHistory, UnsharedExact
    <3> QED
      BY <3>1, <3>2
  <2>3. ASSUME NEW s \in Runs \ shared'
        PROVE  /\ metrics[s] <= 1 /\ \A c \in Cases : results[s][c] <= Len(Scorers)
               /\ runStatus'[s] = "done" => passed'[s] = Cardinality(Cases \ bad[s])
    <3>1. s \notin shared /\ (s = r => runStatus'[s] # "done")
      BY <2>3
    <3> QED
      BY <3>1 DEF EvalHistory, UnsharedExact
  <2> QED
    BY <2>1, <2>2, <2>3 DEF UnsharedExact
<1>6. RowBudget'
  <2> SUFFICES ASSUME NEW s \in Runs, NEW c \in Cases
      PROVE  /\ results[s][c] <= 2 * Len(Scorers)
             /\ Unclaimed(s)' => results[s][c] <= Len(Scorers)
             /\ \A q \in Processes : Runner(q, s)' =>
                  /\ results[s][c] + Left(process'[q], c) <= 2 * Len(Scorers)
                  /\ Unclaimed(s)' => results[s][c] + Left(process'[q], c) <= Len(Scorers)
                  /\ \A o \in Processes \ {q} : Runner(o, s)' =>
                       results[s][c] + Left(process'[q], c) + Left(process'[o], c) <= 2 * Len(Scorers)
    BY DEF RowBudget, Left
  <2>1. /\ results[s][c] \in Nat /\ Len(Scorers) \in Nat
        /\ \A q \in Processes : Left(process'[q], c) \in Nat /\ Left(process'[q], c) <= Len(Scorers)
    BY <1>1, Counted, Depth, LeftTyped
  <2>2. /\ results[s][c] <= 2 * Len(Scorers)
        /\ Unclaimed(s) => results[s][c] <= Len(Scorers)
        /\ \A q \in Processes : Runner(q, s) /\ process'[q] = process[q] =>
             /\ results[s][c] + Left(process'[q], c) <= 2 * Len(Scorers)
             /\ Unclaimed(s) => results[s][c] + Left(process'[q], c) <= Len(Scorers)
             /\ \A o \in Processes \ {q} : Runner(o, s) /\ process'[o] = process[o] =>
                  results[s][c] + Left(process'[q], c) + Left(process'[o], c) <= 2 * Len(Scorers)
    BY DEF EvalHistory, RowBudget
  <2>3. CASE s # r
    BY <1>2, <2>2, <2>3
  <2>4. CASE s = r
    <3>1. results[r][c] <= Len(Scorers) /\ (Unclaimed(r)' => results[r][c] = 0)
      BY <2>2, <2>4
    <3>2. ASSUME NEW q \in Processes, Runner(q, r)'
          PROVE  /\ results[r][c] + Left(process'[q], c) <= 2 * Len(Scorers)
                 /\ Unclaimed(r)' => results[r][c] + Left(process'[q], c) <= Len(Scorers)
      BY <2>1, <2>4, <3>1
    <3>3. ASSUME NEW q \in Processes, Runner(q, r)', q # p
          PROVE  results[r][c] + Left(process'[q], c) <= Len(Scorers)
      BY <1>2, <2>2, <2>4, <3>3
    <3>4. ASSUME NEW q \in Processes, Runner(q, r)', NEW o \in Processes \ {q}, Runner(o, r)'
          PROVE  results[r][c] + Left(process'[q], c) + Left(process'[o], c) <= 2 * Len(Scorers)
      <4>1. CASE q # p /\ o # p
        BY <1>2, <2>2, <2>4, <3>4, <4>1
      <4>2. CASE q = p
        <5>1. results[r][c] + Left(process'[o], c) <= Len(Scorers)
          BY <3>3, <3>4, <4>2
        <5> QED
          BY <2>1, <2>4, <5>1
      <4>3. CASE o = p
        <5>1. results[r][c] + Left(process'[q], c) <= Len(Scorers)
          BY <3>3, <3>4, <4>3
        <5> QED
          BY <2>1, <2>4, <5>1
      <4> QED
        BY <4>1, <4>2, <4>3
    <3>5. results[r][c] <= 2 * Len(Scorers) /\ (Unclaimed(r)' => results[r][c] <= Len(Scorers))
      BY <2>1, <2>4, <3>1
    <3> QED
      BY <2>4, <3>2, <3>4, <3>5
  <2> QED
    BY <2>3, <2>4
<1>7. MetricBudget'
  <2> SUFFICES ASSUME NEW s \in Runs
      PROVE  /\ metrics[s] <= 2
             /\ Unclaimed(s)' => metrics[s] <= 1
             /\ \A q \in Processes : Runner(q, s)' =>
                  /\ metrics[s] + LeftM(process'[q]) <= 2
                  /\ Unclaimed(s)' => metrics[s] + LeftM(process'[q]) <= 1
                  /\ \A o \in Processes \ {q} : Runner(o, s)' =>
                       metrics[s] + LeftM(process'[q]) + LeftM(process'[o]) <= 2
    BY DEF MetricBudget, LeftM
  <2>1. metrics[s] \in Nat /\ \A q \in Processes : LeftM(process'[q]) \in 0 .. 1
    BY DEF EvalHistory, EvalTypeOK, LeftM
  <2>2. /\ metrics[s] <= 2
        /\ Unclaimed(s) => metrics[s] <= 1
        /\ \A q \in Processes : Runner(q, s) /\ process'[q] = process[q] =>
             /\ metrics[s] + LeftM(process'[q]) <= 2
             /\ Unclaimed(s) => metrics[s] + LeftM(process'[q]) <= 1
             /\ \A o \in Processes \ {q} : Runner(o, s) /\ process'[o] = process[o] =>
                  metrics[s] + LeftM(process'[q]) + LeftM(process'[o]) <= 2
    BY DEF EvalHistory, MetricBudget
  <2>3. CASE s # r
    BY <1>2, <2>2, <2>3
  <2>4. CASE s = r
    BY <1>2, <2>1, <2>2, <2>4
  <2> QED
    BY <2>3, <2>4
<1> QED
  BY <1>3, <1>4, <1>5, <1>6, <1>7

LEMMA RunOnceKeeps ==
  ASSUME EvalHistory, NEW p \in Processes, NEW r \in Runs, RunOnce(p, r)
  PROVE  EvalHistory'
<1>1. PICK j : j = [Idle EXCEPT !.pc = "cases", !.run = r, !.once = TRUE, !.open = Cases]
  OBVIOUS
<1>2. /\ process[p].pc = "idle" /\ runStatus[r] = "unused" /\ Set(p, j)
      /\ runStatus' = [runStatus EXCEPT ![r] = "pending"]
      /\ UNCHANGED <<passed, results, bad, metrics, failures, shared>>
  BY <1>1 DEF RunOnce, Doing, KeepRows
<1>3. /\ j \in Activities /\ j.pc = "cases" /\ j.run = r /\ j.once /\ j.open = Cases /\ j.claimed = {}
      /\ j.scored = 0 /\ j.good /\ j.passed = 0
  BY <1>1, IdleIs DEF Activities
<1>4. /\ process' \in [Processes -> Activities] /\ process'[p] = j
      /\ \A q \in Processes \ {p} : process'[q] = process[q]
  BY <1>2, <1>3, SetOne DEF EvalHistory
<1>5. /\ runStatus' \in [Runs -> Statuses] /\ runStatus'[r] = "pending"
      /\ \A s \in Runs \ {r} : runStatus'[s] = runStatus[s]
  BY <1>2 DEF EvalHistory, EvalTypeOK, Statuses
<1>6. EvalTypeOK'
  BY <1>2, <1>4, <1>5 DEF EvalHistory, EvalTypeOK
<1>7. \A q \in Processes : ~Runner(q, r) /\ ~Holds(q, r)
  BY <1>2 DEF EvalHistory, OneClaim
<1>8. \A s \in Runs, q \in Processes :
        /\ Runner(q, s)' => IF q = p THEN s = r ELSE Runner(q, s) /\ process'[q] = process[q]
        /\ Holds(q, s)' => q # p /\ Holds(q, s)
  BY <1>2, <1>3, <1>4 DEF Runner, Holds, Executing
<1>9. OneClaim'
  <2> SUFFICES ASSUME NEW s \in Runs, NEW q \in Processes, NEW o \in Processes
      PROVE  /\ Holds(q, s)' => runStatus'[s] \notin {"unused", "pending"}
             /\ Holds(q, s)' /\ Holds(o, s)' => q = o
             /\ Runner(q, s)' => runStatus'[s] # "unused"
             /\ Runner(q, s)' /\ process'[q].once /\ Runner(o, s)' /\ process'[o].once => q = o
    BY DEF OneClaim
  <2>1. Holds(q, s)' => runStatus'[s] \notin {"unused", "pending"}
    BY <1>5, <1>7, <1>8 DEF EvalHistory, OneClaim
  <2>2. Holds(q, s)' /\ Holds(o, s)' => q = o
    BY <1>8 DEF EvalHistory, OneClaim
  <2>3. Runner(q, s)' => runStatus'[s] # "unused"
    BY <1>5, <1>8 DEF EvalHistory, OneClaim
  <2>4. Runner(q, s)' /\ process'[q].once /\ Runner(o, s)' /\ process'[o].once => q = o
    BY <1>7, <1>8 DEF EvalHistory, OneClaim
  <2> QED
    BY <2>1, <2>2, <2>3, <2>4
<1>10. metrics[r] = 0 /\ (\A c \in Cases : results[r][c] = 0) /\ Unclaimed(r)
  BY <1>2 DEF EvalHistory, RowsSay, Unclaimed
<1>11. \A s \in Runs \ {r} : Unclaimed(s)' => Unclaimed(s)
  BY <1>3, <1>4, <1>5 DEF Unclaimed
<1>12. r \notin shared
  BY <1>2 DEF EvalHistory, RowsSay
<1>13. /\ \A q \in Processes : ShapeOf(process'[q])
       /\ RowsSay' /\ UnsharedExact' /\ RowBudget' /\ MetricBudget'
  BY <1>2, <1>3, <1>5, <1>7, <1>10, <1>11, <1>12, BeginKeeps
<1> QED
  BY <1>6, <1>9, <1>13 DEF EvalHistory

\* The next run of the batch.
LEMMA NextOfBatchKeeps ==
  ASSUME EvalHistory, NEW p \in Processes, process[p].pc = "next",
         NEW r \in process[p].claimed, NEW j,
         j = [process[p] EXCEPT !.pc = "cases", !.claimed = @ \ {r}, !.run = r,
                !.open = Cases, !.scored = 0, !.good = TRUE, !.passed = 0],
         Set(p, j), UNCHANGED <<runStatus, passed, results, bad, metrics, failures>>,
         shared' = IF \/ \E c \in Cases : results[r][c] # 0
                      \/ \E q \in Processes : process[q].once /\ process[q].run = r
                      \/ runStatus[r] = "done"
                   THEN shared \union {r} ELSE shared
  PROVE  EvalHistory'
<1>1. process[p] \in Activities /\ ShapeOf(process[p])
  BY ActivityTyped
<1>2. r \in Runs /\ ~process[p].once
  BY <1>1 DEF Activities, ShapeOf
<1>3. 0 \in 0 .. Len(Scorers) /\ 0 \in 0 .. Cardinality(Cases)
  BY Depth, CaseSets
<1>4. /\ j \in Activities /\ j.pc = "cases" /\ j.run = r /\ ~j.once /\ j.open = Cases
      /\ j.claimed = process[p].claimed \ {r} /\ j.scored = 0 /\ j.good /\ j.passed = 0
  BY <1>1, <1>2, <1>3 DEF Activities
<1>5. /\ process' \in [Processes -> Activities] /\ process'[p] = j
      /\ \A q \in Processes \ {p} : process'[q] = process[q]
  BY <1>4, SetOne DEF EvalHistory
<1>6. shared' \subseteq Runs /\ \A s \in Runs \ {r} : s \in shared' <=> s \in shared
  BY <1>2 DEF EvalHistory, EvalTypeOK
<1>7. EvalTypeOK'
  BY <1>5, <1>6 DEF EvalHistory, EvalTypeOK
<1>8. \A s \in Runs, q \in Processes :
        /\ Runner(q, s)' => IF q = p THEN s = r ELSE Runner(q, s) /\ process'[q] = process[q]
        /\ Holds(q, s)' => Holds(q, s)
  <2>1. \A s \in Runs, q \in Processes :
          Runner(q, s)' => IF q = p THEN s = r ELSE Runner(q, s) /\ process'[q] = process[q]
    BY <1>4, <1>5, ZenonT(40) DEF Runner, Executing
  <2>2. ASSUME NEW s \in Runs, NEW q \in Processes, Holds(q, s)' PROVE Holds(q, s)
    <3>1. CASE q = p
      BY <1>2, <1>4, <1>5, <2>1, <2>2, <3>1 DEF Holds
    <3>2. CASE q # p
      BY <1>5, <2>1, <2>2, <3>2 DEF Holds
    <3> QED
      BY <3>1, <3>2
  <2> QED
    BY <2>1, <2>2
<1>9. Holds(p, r) /\ runStatus[r] \notin {"unused", "pending"} /\ ~Executing(p)
  BY <1>2 DEF EvalHistory, OneClaim, Holds, Executing
<1>10. OneClaim'
  <2> SUFFICES ASSUME NEW s \in Runs, NEW q \in Processes, NEW o \in Processes
      PROVE  /\ Holds(q, s)' => runStatus[s] \notin {"unused", "pending"}
             /\ Holds(q, s)' /\ Holds(o, s)' => q = o
             /\ Runner(q, s)' => runStatus[s] # "unused"
             /\ Runner(q, s)' /\ process'[q].once /\ Runner(o, s)' /\ process'[o].once => q = o
    BY DEF OneClaim
  <2>1. Holds(q, s)' => runStatus[s] \notin {"unused", "pending"}
    BY <1>8 DEF EvalHistory, OneClaim
  <2>2. Holds(q, s)' /\ Holds(o, s)' => q = o
    BY <1>8 DEF EvalHistory, OneClaim
  <2>3. Runner(q, s)' => runStatus[s] # "unused"
    BY <1>8, <1>9 DEF EvalHistory, OneClaim
  <2>4. Runner(q, s)' /\ process'[q].once /\ Runner(o, s)' /\ process'[o].once => q = o
    <3>1. Runner(q, s)' /\ process'[q].once => Runner(q, s) /\ process[q].once
      BY <1>4, <1>5, <1>8, ZenonT(40)
    <3>2. Runner(o, s)' /\ process'[o].once => Runner(o, s) /\ process[o].once
      BY <1>4, <1>5, <1>8, ZenonT(40)
    <3> QED
      BY <3>1, <3>2 DEF EvalHistory, OneClaim
  <2> QED
    BY <2>1, <2>2, <2>3, <2>4
<1>11. ~Unclaimed(r)' /\ Unclaimed(r) /\ \A s \in Runs \ {r} : Unclaimed(s)' => Unclaimed(s)
  <2>1. \A q \in Processes : r \notin process'[q].claimed
    <3>1. \A q \in Processes \ {p} : r \notin process[q].claimed
      BY <1>2, <1>9 DEF EvalHistory, OneClaim, Holds
    <3> QED
      BY <1>4, <1>5, <3>1
  <2>2. \A s \in Runs, q \in Processes : s \in process'[q].claimed => s \in process[q].claimed
    BY <1>4, <1>5
  <2> QED
    BY <1>2, <1>9, <2>1, <2>2 DEF Unclaimed
<1>12. r \notin shared' =>
         /\ metrics[r] = 0 /\ \A c \in Cases : results[r][c] = 0
         /\ runStatus[r] # "done" /\ r \notin shared
         /\ \A q \in Processes : ~Runner(q, r)
  <2> SUFFICES ASSUME r \notin shared'
      PROVE  /\ metrics[r] = 0 /\ \A c \in Cases : results[r][c] = 0
             /\ runStatus[r] # "done" /\ r \notin shared
             /\ \A q \in Processes : ~Runner(q, r)
    OBVIOUS
  <2>1. /\ \A c \in Cases : results[r][c] = 0
        /\ \A q \in Processes : process[q].once => process[q].run # r
        /\ runStatus[r] # "done" /\ r \notin shared
    OBVIOUS
  <2>2. metrics[r] = 0
    BY <1>2, <2>1, EvalAssumption DEF EvalHistory, RowsSay
  <2>3. \A q \in Processes : ~Runner(q, r)
    BY <1>2, <1>9, <2>1 DEF EvalHistory, OneClaim, Holds, Runner
  <2> QED
    BY <2>1, <2>2, <2>3
<1>13. /\ \A q \in Processes : ShapeOf(process'[q])
       /\ RowsSay' /\ UnsharedExact' /\ RowBudget' /\ MetricBudget'
  <2>1. r \notin j.claimed /\ runStatus[r] # "unused"
    BY <1>4, <1>9
  <2> QED
    BY <1>2, <1>4, <1>6, <1>11, <1>12, <2>1, BeginKeeps
<1> QED
  BY <1>7, <1>10, <1>13 DEF EvalHistory

LEMMA IdleLeaves ==
  ASSUME EvalHistory, NEW p \in Processes, Set(p, Idle), failures' \in 0 .. MaxFailures,
         UNCHANGED <<runStatus, passed, results, bad, metrics, shared>>
  PROVE  EvalHistory'
<1>1. runStatus \in [Runs -> Statuses] /\ passed \in [Runs -> 0 .. Cardinality(Cases)]
  BY DEF EvalHistory, EvalTypeOK
<1> QED
  BY <1>1, IdleIs, LeaveKeeps

LEMMA NextRunKeeps ==
  ASSUME EvalHistory, NEW p \in Processes, NextRun(p)
  PROVE  EvalHistory'
<1>1. /\ process[p].pc = "next"
      /\ UNCHANGED <<runStatus, passed, results, bad, metrics, failures>>
  BY DEF NextRun, Doing, KeepRows
<1>2. CASE Set(p, Idle) /\ UNCHANGED shared
  <2>1. failures' \in 0 .. MaxFailures
    BY <1>1 DEF EvalHistory, EvalTypeOK
  <2> QED
    BY <1>1, <1>2, <2>1, IdleLeaves
<1>3. CASE ~(Set(p, Idle) /\ UNCHANGED shared)
  <2>1. PICK r \in process[p].claimed :
          /\ Set(p, [process[p] EXCEPT !.pc = "cases", !.claimed = @ \ {r}, !.run = r,
                       !.open = Cases, !.scored = 0, !.good = TRUE, !.passed = 0])
          /\ shared' = IF \/ \E c \in Cases : results[r][c] # 0
                          \/ \E q \in Processes : process[q].once /\ process[q].run = r
                          \/ runStatus[r] = "done"
                       THEN shared \union {r} ELSE shared
    BY <1>3 DEF NextRun
  <2> QED
    BY <1>1, <2>1, NextOfBatchKeeps
<1> QED
  BY <1>2, <1>3

\* Where run_pending or run-once goes from a run.
LEMMA OnwardIs ==
  ASSUME EvalHistory, NEW p \in Processes, Executing(p), Onward(p)
  PROVE  \E j \in Activities :
           /\ Set(p, j) /\ j.pc \in {"idle", "next"} /\ ~j.once /\ j.claimed \subseteq process[p].claimed
           /\ j.pc = "idle" => j.claimed = {}
           /\ j.open = {} /\ j.scored = 0 /\ j.passed = 0
<1>1. process[p] \in Activities
  BY ActivityTyped
<1>2. CASE process[p].once
  BY <1>2, IdleIs DEF Onward
<1>3. CASE ~process[p].once
  <2>1. PICK j : j = [Idle EXCEPT !.pc = "next", !.claimed = process[p].claimed]
    OBVIOUS
  <2>2. /\ j \in Activities /\ j.pc = "next" /\ ~j.once /\ j.claimed = process[p].claimed
        /\ j.open = {} /\ j.scored = 0 /\ j.passed = 0
    BY <1>1, <2>1, IdleIs DEF Activities
  <2>3. Set(p, j)
    BY <1>3, <2>1 DEF Onward
  <2> QED
    BY <2>2, <2>3
<1> QED
  BY <1>2, <1>3

LEMMA FailureTyped ==
  ASSUME EvalHistory, Failure
  PROVE  failures' \in 0 .. MaxFailures
  BY EvalAssumption DEF EvalHistory, EvalTypeOK, Failure

LEMMA RunRaisesKeeps ==
  ASSUME EvalHistory, NEW p \in Processes, RunRaises(p)
  PROVE  EvalHistory'
<1>1. /\ Executing(p) /\ Onward(p) /\ UNCHANGED <<passed, results, bad, metrics, shared>>
      /\ failures' \in 0 .. MaxFailures
      /\ runStatus' = runStatus \/ runStatus' = [runStatus EXCEPT ![process[p].run] = "failed"]
  BY FailureTyped DEF RunRaises, KeepRows
<1>2. process[p].run \in Runs /\ runStatus \in [Runs -> Statuses] /\ passed \in [Runs -> 0 .. Cardinality(Cases)]
  BY ActivityTyped DEF Activities, EvalHistory, EvalTypeOK
<1>3. /\ runStatus' \in [Runs -> Statuses]
      /\ \A r \in Runs : runStatus'[r] = runStatus[r] \/ (Runner(p, r) /\ runStatus'[r] = "failed")
  BY <1>1, <1>2 DEF Runner, Statuses
<1>4. PICK j \in Activities :
           /\ Set(p, j) /\ j.pc \in {"idle", "next"} /\ ~j.once /\ j.claimed \subseteq process[p].claimed
           /\ j.pc = "idle" => j.claimed = {}
           /\ j.open = {} /\ j.scored = 0 /\ j.passed = 0
  BY <1>1, OnwardIs
<1> QED
  BY <1>1, <1>2, <1>3, <1>4, LeaveKeeps

LEMMA CrashKeeps ==
  ASSUME EvalHistory, NEW p \in Processes, Crash(p)
  PROVE  EvalHistory'
  BY FailureTyped, IdleLeaves DEF Crash, KeepRows

LEMMA FinishKeeps ==
  ASSUME EvalHistory, NEW p \in Processes, Finish(p)
  PROVE  EvalHistory'
<1>1. /\ process[p].pc = "finish" /\ Onward(p) /\ UNCHANGED <<results, bad, metrics, failures, shared>>
      /\ runStatus' = [runStatus EXCEPT ![process[p].run] = "done"]
      /\ passed' = [passed EXCEPT ![process[p].run] = process[p].passed]
  BY DEF Finish, Doing
<1>2. /\ process[p].run \in Runs /\ process[p].passed \in 0 .. Cardinality(Cases)
      /\ Executing(p) /\ process[p].open = {}
  BY <1>1, ActivityTyped DEF Activities, Executing, ShapeOf
<1>3. /\ runStatus \in [Runs -> Statuses] /\ passed \in [Runs -> 0 .. Cardinality(Cases)]
      /\ failures' \in 0 .. MaxFailures
  BY <1>1 DEF EvalHistory, EvalTypeOK
<1>4. /\ runStatus' \in [Runs -> Statuses] /\ passed' \in [Runs -> 0 .. Cardinality(Cases)]
      /\ \A r \in Runs :
           \/ runStatus'[r] = runStatus[r] /\ passed'[r] = passed[r]
           \/ Runner(p, r) /\ runStatus'[r] = "done" /\ passed'[r] = process[p].passed
  BY <1>1, <1>2, <1>3 DEF Runner, Statuses
<1>5. PICK j \in Activities :
           /\ Set(p, j) /\ j.pc \in {"idle", "next"} /\ ~j.once /\ j.claimed \subseteq process[p].claimed
           /\ j.pc = "idle" => j.claimed = {}
           /\ j.open = {} /\ j.scored = 0 /\ j.passed = 0
  BY <1>1, <1>2, OnwardIs
<1> QED
  BY <1>1, <1>2, <1>3, <1>4, <1>5, LeaveKeeps

\* While the claim of a run is not begun, one process at most executes it: run-once.
LEMMA UnclaimedRunner ==
  ASSUME EvalHistory, NEW r \in Runs, Unclaimed(r), NEW p \in Processes, NEW q \in Processes,
         Runner(p, r), Runner(q, r)
  PROVE  p = q
<1>1. ASSUME NEW o \in Processes, Runner(o, r) PROVE process[o].once
  <2> SUFFICES ASSUME ~process[o].once PROVE FALSE
    BY ActivityTyped DEF Activities
  <2>1. Holds(o, r)
    BY <1>1 DEF Holds
  <2>2. PICK s \in Processes : r \in process[s].claimed
    BY <2>1 DEF Unclaimed, EvalHistory, OneClaim
  <2>3. s = o
    BY <2>1, <2>2 DEF EvalHistory, OneClaim, Holds
  <2> QED
    BY <1>1, <2>2, <2>3, ActivityTyped DEF ShapeOf, Runner, Executing
<1> QED
  BY <1>1 DEF EvalHistory, OneClaim

LEMMA NoThirdRunner ==
  ASSUME EvalHistory, NEW r \in Runs, NEW p \in Processes, NEW q \in Processes \ {p},
         NEW o \in Processes \ {p, q}, Runner(p, r), Runner(q, r), Runner(o, r)
  PROVE  FALSE
<1>1. process[p].once \in BOOLEAN /\ process[q].once \in BOOLEAN /\ process[o].once \in BOOLEAN
  BY ActivityTyped DEF Activities
<1>2. \A x, y \in Processes : x # y /\ Runner(x, r) /\ Runner(y, r) => process[x].once # process[y].once
  BY ActivityTyped DEF EvalHistory, OneClaim, Holds
<1> QED
  BY <1>1, <1>2

LEMMA Sums ==
  ASSUME NEW a \in Nat, NEW b \in Nat, NEW x \in Nat, NEW y \in Nat, NEW z \in Nat, NEW n \in Nat,
         a + x <= b + y, b + y + z <= 2 * n
  PROVE  a + z <= 2 * n /\ a + x + z <= 2 * n /\ a + z + x <= 2 * n
  OBVIOUS

LEMMA Less ==
  ASSUME NEW a \in Nat, NEW b \in Nat, NEW x \in Nat, NEW y \in Nat, NEW n \in Nat, a + x <= b + y
  PROVE  /\ b + y <= 2 * n => a + x <= 2 * n /\ a <= 2 * n
         /\ b + y <= n => a + x <= n /\ a <= n
  OBVIOUS

\* What writing a result makes of an execution: the case has more scorers to come, or it is over.
Written(i, j, c, good) ==
  \/ /\ i.scored + 1 < Len(Scorers) /\ j.open = i.open
     /\ j.scored = i.scored + 1 /\ (j.good <=> i.good /\ good)
     /\ j.passed = i.passed
  \/ /\ j.open = i.open \ {c} /\ j.scored = 0 /\ j.good
     /\ i.good /\ good => j.passed = i.passed + 1
     /\ ~(i.good /\ good) => j.passed = i.passed

LEMMA RowKeeps ==
  ASSUME EvalHistory, NEW p \in Processes, NEW i, i = process[p], NEW r, r = i.run,
         i.pc = "cases", i.open # {},
         NEW c, c = First(i.open), NEW good \in BOOLEAN, Persist(r, c, good),
         NEW j \in Activities, Set(p, j), j.pc = "cases", j.claimed = i.claimed,
         j.run = r, j.once = i.once,
         Written(i, j, c, good),
         UNCHANGED <<runStatus, passed, metrics, failures, shared>>
  PROVE  EvalHistory'
<1>0. \/ /\ i.scored + 1 < Len(Scorers) /\ j.open = i.open
         /\ j.scored = i.scored + 1 /\ (j.good <=> i.good /\ good)
         /\ j.passed = i.passed
      \/ /\ j.open = i.open \ {c} /\ j.scored = 0 /\ j.good
         /\ i.good /\ good => j.passed = i.passed + 1
         /\ ~(i.good /\ good) => j.passed = i.passed
  BY DEF Written
<1>1. i \in Activities /\ ShapeOf(i) /\ r \in Runs /\ c \in i.open /\ c \in Cases /\ Runner(p, r)
  BY ActivityTyped, FirstIsOpen DEF Activities, Runner, Executing
<1>2. /\ i.scored \in Nat /\ i.scored < Len(Scorers) /\ i.passed \in Nat
      /\ i.passed <= Cardinality(Cases \ i.open) /\ i.open \in SUBSET Cases
  <2>1. Len(Scorers) \in Nat /\ Cardinality(Cases) \in Nat
    BY Depth, CaseSets
  <2>2. i.scored \in 0 .. Len(Scorers) /\ i.passed \in 0 .. Cardinality(Cases) /\ i.open \in SUBSET Cases
    BY <1>1 DEF Activities
  <2>3. i.scored < Len(Scorers) /\ i.passed <= Cardinality(Cases \ i.open)
    BY <1>1 DEF ShapeOf
  <2> QED
    BY <2>1, <2>2, <2>3
<1>3. /\ results' \in [Runs -> [Cases -> Nat]] /\ bad' \in [Runs -> SUBSET Cases]
      /\ results'[r][c] = results[r][c] + 1 /\ results[r][c] \in Nat
      /\ \A d \in Cases \ {c} : results'[r][d] = results[r][d]
      /\ bad'[r] = IF good THEN bad[r] ELSE bad[r] \union {c}
      /\ \A s \in Runs \ {r} : results'[s] = results[s] /\ bad'[s] = bad[s]
  <2>1. results \in [Runs -> [Cases -> Nat]] /\ bad \in [Runs -> SUBSET Cases]
    BY DEF EvalHistory, EvalTypeOK
  <2>2. /\ results' = [results EXCEPT ![r][c] = @ + 1]
        /\ bad' = IF good THEN bad ELSE [bad EXCEPT ![r] = @ \union {c}]
    BY DEF Persist
  <2>3. r \in Runs /\ c \in Cases
    BY <1>1
  <2>4. /\ results' \in [Runs -> [Cases -> Nat]] /\ results'[r][c] = results[r][c] + 1
        /\ results[r][c] \in Nat
        /\ \A d \in Cases \ {c} : results'[r][d] = results[r][d]
        /\ \A s \in Runs \ {r} : results'[s] = results[s]
    BY <2>1, <2>2, <2>3
  <2>5. /\ bad' \in [Runs -> SUBSET Cases] /\ bad'[r] = IF good THEN bad[r] ELSE bad[r] \union {c}
        /\ \A s \in Runs \ {r} : bad'[s] = bad[s]
    <3>1. CASE good
      BY <2>1, <2>2, <2>3, <3>1
    <3>2. CASE ~good
      BY <2>1, <2>2, <2>3, <3>2
    <3> QED
      BY <3>1, <3>2
  <2> QED
    BY <2>4, <2>5
<1>4. /\ process' \in [Processes -> Activities] /\ process'[p] = j
      /\ \A q \in Processes \ {p} : process'[q] = process[q]
  BY SetOne DEF EvalHistory
<1>5. \A q \in Processes :
        /\ process'[q].pc = process[q].pc
        /\ process'[q].claimed = process[q].claimed /\ process'[q].run = process[q].run
        /\ process'[q].once = process[q].once
  BY <1>4
<1>6. \A s \in Runs, q \in Processes : (Runner(q, s)' <=> Runner(q, s)) /\ (Holds(q, s)' <=> Holds(q, s))
  BY <1>5 DEF Runner, Holds, Executing
<1>7. EvalTypeOK'
  BY <1>3, <1>4 DEF EvalHistory, EvalTypeOK
<1>8. \A d \in Cases : results[r][d] \in Nat /\ results'[r][d] \in Nat /\ results[r][d] <= results'[r][d]
  <2> SUFFICES ASSUME NEW d \in Cases
      PROVE  results[r][d] \in Nat /\ results'[r][d] \in Nat /\ results[r][d] <= results'[r][d]
    OBVIOUS
  <2>1. results[r][d] \in Nat
    BY <1>1, Counted
  <2>2. CASE d = c
    BY <1>3, <2>1, <2>2
  <2>3. CASE d # c
    BY <1>3, <2>1, <2>3
  <2> QED
    BY <2>2, <2>3
<1>9. j.open \in SUBSET Cases /\ j.open \subseteq i.open /\ j.scored \in Nat /\ j.scored < Len(Scorers)
  BY <1>0, <1>2, Depth
<1>10. ShapeOf(j)
  <2>1. j.passed <= Cardinality(Cases \ j.open)
    <3>1. CASE j.open = i.open /\ j.passed = i.passed
      BY <1>2, <3>1
    <3>2. CASE j.open = i.open \ {c} /\ j.passed \in {i.passed, i.passed + 1}
      <4>1. Cases \ j.open = (Cases \ i.open) \union {c} /\ c \notin Cases \ i.open
        BY <1>1, <3>2
      <4>2. Cardinality(Cases \ j.open) = Cardinality(Cases \ i.open) + 1
        BY <4>1, OneCaseMore
      <4>3. Cardinality(Cases \ i.open) \in Nat
        BY CaseSets
      <4> QED
        BY <1>2, <3>2, <4>2, <4>3
    <3> QED
      BY <1>0, <3>1, <3>2
  <2>2. j.open = {} => j.scored = 0
    BY <1>0, <1>1
  <2> QED
    BY <1>1, <1>9, <2>1, <2>2 DEF ShapeOf
<1>11. \A q \in Processes : ShapeOf(process'[q])
  BY <1>4, <1>10 DEF EvalHistory
<1>12. OneClaim'
  BY <1>5, <1>6 DEF EvalHistory, OneClaim
<1>13. RowsSay'
  <2> SUFFICES ASSUME NEW s \in Runs
      PROVE  /\ \A d \in bad'[s] : results'[s][d] # 0
             /\ metrics[s] # 0 => \A d \in Cases : results'[s][d] # 0
             /\ runStatus[s] = "unused" => s \notin shared /\ metrics[s] = 0 /\ \A d \in Cases : results'[s][d] = 0
             /\ \A q \in Processes : Runner(q, s) => \A d \in Cases \ process'[q].open : results'[s][d] # 0
    BY <1>6 DEF RowsSay
  <2>1. /\ \A d \in bad[s] : results[s][d] # 0
        /\ metrics[s] # 0 => \A d \in Cases : results[s][d] # 0
        /\ runStatus[s] = "unused" => s \notin shared /\ metrics[s] = 0 /\ \A d \in Cases : results[s][d] = 0
        /\ \A q \in Processes : Runner(q, s) => \A d \in Cases \ process[q].open : results[s][d] # 0
    BY DEF EvalHistory, RowsSay
  <2>2. CASE s # r
    <3>1. \A q \in Processes : Runner(q, s) => process'[q] = process[q]
      BY <1>4, <2>2 DEF Runner
    <3>2. results'[s] = results[s] /\ bad'[s] = bad[s]
      BY <1>3, <2>2
    <3>3. \A q \in Processes : Runner(q, s) => \A d \in Cases \ process'[q].open : results'[s][d] # 0
      BY <2>1, <3>1, <3>2
    <3> QED
      BY <2>1, <3>2, <3>3
  <2>3. CASE s = r
    <3>1. \A d \in Cases : d = c \/ results[r][d] # 0 => results'[r][d] # 0
      BY <1>3
    <3>2. bad[r] \subseteq Cases /\ \A d \in bad'[s] : results'[s][d] # 0
      <4>1. bad[r] \subseteq Cases
        BY <1>1, Counted
      <4>2. \A d \in bad[r] : results'[r][d] # 0
        BY <2>1, <2>3, <3>1, <4>1
      <4>3. bad'[r] \subseteq bad[r] \union {c} /\ (c \in Cases => results'[r][c] # 0)
        BY <1>1, <1>3, <3>1
      <4> QED
        BY <1>1, <2>3, <4>1, <4>2, <4>3
    <3>3. runStatus[s] # "unused"
      BY <1>1, <2>3 DEF EvalHistory, OneClaim
    <3>4. ASSUME NEW q \in Processes, Runner(q, s), NEW d \in Cases \ process'[q].open
          PROVE  results'[s][d] # 0
      <4>1. q # p => process'[q] = process[q]
        BY <1>4
      <4>2. d \in Cases \ process[q].open \/ d = c
        <5>1. j.open = i.open \/ j.open = i.open \ {c}
          BY <1>0
        <5>2. CASE q = p
          BY <1>4, <3>4, <5>1, <5>2
        <5>3. CASE q # p
          BY <3>4, <4>1, <5>3
        <5> QED
          BY <5>2, <5>3
      <4> QED
        BY <2>1, <2>3, <3>1, <3>4, <4>2
    <3>5. metrics[s] # 0 => \A d \in Cases : results'[s][d] # 0
      BY <2>1, <2>3, <3>1
    <3> QED
      BY <3>2, <3>3, <3>4, <3>5
  <2> QED
    BY <2>2, <2>3
<1>14. UnsharedExact'
  <2>1. ASSUME NEW s \in Runs \ shared, s # r
        PROVE  /\ metrics[s] <= 1 /\ \A d \in Cases : results'[s][d] <= Len(Scorers)
               /\ runStatus[s] = "done" => passed[s] = Cardinality(Cases \ bad'[s])
               /\ \A q \in Processes : Runner(q, s) =>
                    /\ runStatus[s] # "done" /\ Exact(process[q], s)'
                    /\ \A o \in Processes : Runner(o, s) => o = q
    <3>1. \A q \in Processes : Runner(q, s) => process'[q] = process[q]
      BY <1>4, <2>1 DEF Runner
    <3>2. /\ metrics[s] <= 1 /\ \A d \in Cases : results'[s][d] <= Len(Scorers)
          /\ runStatus[s] = "done" => passed[s] = Cardinality(Cases \ bad'[s])
      BY <1>3, <2>1 DEF EvalHistory, UnsharedExact
    <3>3. ASSUME NEW q \in Processes, Runner(q, s)
          PROVE  /\ runStatus[s] # "done" /\ Exact(process[q], s)
                 /\ \A o \in Processes : Runner(o, s) => o = q
      BY <2>1, <3>3 DEF EvalHistory, UnsharedExact
    <3>4. ASSUME NEW q \in Processes, Runner(q, s) PROVE Exact(process[q], s)'
      <4>1. process'[q] = process[q] /\ results'[s] = results[s] /\ bad'[s] = bad[s]
        BY <1>3, <2>1, <3>1, <3>4
      <4>2. Exact(process[q], s)
        BY <3>3, <3>4
      <4> QED
        BY <4>1, <4>2 DEF Exact
    <3> QED
      BY <3>2, <3>3, <3>4
  <2>2. ASSUME r \notin shared
        PROVE  /\ metrics[r] <= 1 /\ \A d \in Cases : results'[r][d] <= Len(Scorers)
               /\ runStatus[r] # "done"
               /\ Exact(process[p], r)'
               /\ \A q, o \in Processes : Runner(q, r) /\ Runner(o, r) => o = q
    <3>1. /\ metrics[r] <= 1 /\ \A d \in Cases : results[r][d] <= Len(Scorers)
          /\ runStatus[r] # "done" /\ Exact(i, r)
          /\ \A q, o \in Processes : Runner(q, r) /\ Runner(o, r) => o = q
      BY <1>1, <2>2 DEF EvalHistory, UnsharedExact
    <3>2. /\ metrics[r] = 0 /\ i.passed = Cardinality((Cases \ i.open) \ bad[r])
          /\ results[r][c] = i.scored /\ (i.good <=> c \notin bad[r])
          /\ \A d \in i.open \ {c} : results[r][d] = 0
      BY <1>1, <3>1 DEF Exact
    <3>3. \A d \in Cases : results'[r][d] <= Len(Scorers)
      <4>1. results'[r][c] <= Len(Scorers)
        <5>1. results'[r][c] = i.scored + 1
          BY <1>3, <3>2
        <5> QED
          BY <1>2, <5>1, Depth
      <4>2. \A d \in Cases \ {c} : results'[r][d] <= Len(Scorers)
        BY <1>3, <3>1
      <4> QED
        BY <4>1, <4>2
    <3>4. \A d \in i.open \ {c} : results'[r][d] = 0 /\ d \notin bad'[r]
      <4>1. \A d \in i.open \ {c} : d \notin bad[r]
        BY <1>1, <3>2 DEF EvalHistory, RowsSay
      <4> QED
        BY <1>2, <1>3, <3>2, <4>1
    <3>5. i.good /\ good <=> c \notin bad'[r]
      BY <1>3, <3>2
    <3>6. \A d \in Cases \ {c} : d \in bad'[r] <=> d \in bad[r]
      BY <1>3
    <3>7. CASE /\ j.open = i.open /\ j.scored = i.scored + 1 /\ (j.good <=> i.good /\ good)
               /\ j.passed = i.passed
      <4>1. (Cases \ j.open) \ bad'[r] = (Cases \ i.open) \ bad[r]
        BY <1>1, <3>6, <3>7
      <4>2. results'[r][c] = j.scored /\ (j.good <=> c \notin bad'[r])
        BY <1>3, <3>2, <3>5, <3>7
      <4>3. \A d \in j.open : /\ d = First(j.open) => results'[r][d] = j.scored /\ (j.good <=> d \notin bad'[r])
                              /\ d # First(j.open) => results'[r][d] = 0
        BY <3>4, <3>7, <4>2
      <4>4. metrics[r] = 0 /\ j.pc # "finish" /\ j.passed = Cardinality((Cases \ j.open) \ bad'[r])
        BY <3>2, <3>7, <4>1
      <4>5. Exact(process[p], r)'
        BY <1>4, <4>3, <4>4 DEF Exact
      <4> QED
        BY <3>1, <3>3, <4>5
    <3>8. CASE /\ j.open = i.open \ {c} /\ j.scored = 0 /\ j.good
               /\ i.good /\ good => j.passed = i.passed + 1
               /\ ~(i.good /\ good) => j.passed = i.passed
      <4>1. j.passed = Cardinality((Cases \ j.open) \ bad'[r])
        <5>1. CASE i.good /\ good
          <6>1. /\ (Cases \ j.open) \ bad'[r] = ((Cases \ i.open) \ bad[r]) \union {c}
                /\ c \notin (Cases \ i.open) \ bad[r]
            BY <1>1, <3>5, <3>6, <3>8, <5>1
          <6>2. Cardinality((Cases \ j.open) \ bad'[r]) = Cardinality((Cases \ i.open) \ bad[r]) + 1
            <7>1. PICK S \in SUBSET Cases : S = (Cases \ i.open) \ bad[r]
              OBVIOUS
            <7>2. c \notin S /\ (Cases \ j.open) \ bad'[r] = S \union {c}
              BY <6>1, <7>1
            <7>3. Cardinality(S \union {c}) = Cardinality(S) + 1
              BY <7>2, OneCaseMore
            <7> QED
              BY <7>1, <7>2, <7>3
          <6> QED
            BY <3>2, <3>8, <5>1, <6>2
        <5>2. CASE ~(i.good /\ good)
          <6>1. (Cases \ j.open) \ bad'[r] = (Cases \ i.open) \ bad[r]
            BY <1>1, <3>5, <3>6, <3>8, <5>2
          <6> QED
            BY <3>2, <3>8, <5>2, <6>1
        <5> QED
          BY <5>1, <5>2
      <4>2. \A d \in j.open : results'[r][d] = 0 /\ d \notin bad'[r]
        BY <3>4, <3>8
      <4>3. metrics[r] = 0 /\ j.pc # "finish" /\ j.scored = 0 /\ j.good
        BY <3>2, <3>8
      <4>4. Exact(process[p], r)'
        BY <1>4, <4>1, <4>2, <4>3 DEF Exact
      <4> QED
        BY <3>1, <3>3, <4>4
    <3> QED
      BY <1>0, <3>7, <3>8
  <2>3. ASSUME NEW s \in Runs \ shared
        PROVE  /\ metrics[s] <= 1 /\ \A d \in Cases : results'[s][d] <= Len(Scorers)
               /\ runStatus[s] = "done" => passed[s] = Cardinality(Cases \ bad'[s])
               /\ \A q \in Processes : Runner(q, s) =>
                    /\ runStatus[s] # "done" /\ Exact(process[q], s)'
                    /\ \A o \in Processes : Runner(o, s) => o = q
    <3>1. CASE s # r
      BY <2>1, <3>1
    <3>2. CASE s = r
      <4>1. /\ metrics[s] <= 1 /\ \A d \in Cases : results'[s][d] <= Len(Scorers)
            /\ runStatus[s] # "done"
        BY <2>2, <3>2
      <4>2. \A q \in Processes : Runner(q, s) => q = p /\ \A o \in Processes : Runner(o, s) => o = q
        BY <1>1, <2>2, <3>2
      <4>3. ASSUME NEW q \in Processes, q = p PROVE Exact(process[q], s)'
        <5>1. Exact(process[p], r)'
          BY <2>2, <3>2
        <5> QED
          BY <3>2, <4>3, <5>1
      <4> QED
        BY <4>1, <4>2, <4>3
    <3> QED
      BY <3>1, <3>2
  <2> QED
    BY <1>6, <2>3 DEF UnsharedExact
<1>15. \A s \in Runs : Unclaimed(s)' <=> Unclaimed(s)
  BY <1>5 DEF Unclaimed
<1>16. \A d \in Cases : /\ results'[r][d] + Left(j, d) <= results[r][d] + Left(i, d)
                        /\ Left(j, d) \in Nat /\ Left(i, d) \in Nat
  <2> SUFFICES ASSUME NEW d \in Cases
      PROVE  /\ results'[r][d] + Left(j, d) <= results[r][d] + Left(i, d)
             /\ Left(j, d) \in Nat /\ Left(i, d) \in Nat
    OBVIOUS
  <2>1. Left(j, d) \in Nat /\ Left(i, d) \in Nat /\ Left(j, d) <= Len(Scorers)
    BY <1>1, LeftTyped
  <2>2. CASE d = c
    <3>1. Left(i, c) = Len(Scorers) - i.scored
      BY <1>1 DEF Left
    <3>2. CASE j.open = i.open /\ j.scored = i.scored + 1
      <4>1. Left(j, c) = Len(Scorers) - (i.scored + 1)
        BY <1>1, <3>2 DEF Left
      <4>2. results'[r][c] + Left(j, c) <= results[r][c] + Left(i, c)
        <5>1. results'[r][c] = results[r][c] + 1 /\ results[r][c] \in Nat
          BY <1>3
        <5>2. i.scored \in Nat /\ i.scored < Len(Scorers) /\ Len(Scorers) \in Nat
          BY <1>2, Depth
        <5> QED
          BY <3>1, <4>1, <5>1, <5>2
      <4> QED
        BY <2>1, <2>2, <4>2
    <3>3. CASE j.open = i.open \ {c}
      <4>1. Left(j, c) = 0
        BY <3>3 DEF Left
      <4>2. results'[r][c] + Left(j, c) <= results[r][c] + Left(i, c)
        <5>1. results'[r][c] = results[r][c] + 1 /\ results[r][c] \in Nat
          BY <1>3
        <5>2. i.scored \in Nat /\ i.scored < Len(Scorers) /\ Len(Scorers) \in Nat
          BY <1>2, Depth
        <5> QED
          BY <3>1, <4>1, <5>1, <5>2
      <4> QED
        BY <2>1, <2>2, <4>2
    <3> QED
      BY <1>0, <3>2, <3>3
  <2>3. CASE d # c
    <3>1. results'[r][d] = results[r][d] /\ results[r][d] \in Nat
      BY <1>3, <1>8, <2>3
    <3>2. Left(i, d) = IF d \in i.open THEN Len(Scorers) ELSE 0
      BY <2>3 DEF Left
    <3>3. d \notin i.open => Left(j, d) = 0
      BY <1>9 DEF Left
    <3> QED
      BY <2>1, <3>1, <3>2, <3>3
  <2> QED
    BY <2>1, <2>2, <2>3
<1>17. RowBudget'
  <2> SUFFICES ASSUME NEW s \in Runs, NEW d \in Cases
      PROVE  /\ results'[s][d] <= 2 * Len(Scorers)
             /\ Unclaimed(s) => results'[s][d] <= Len(Scorers)
             /\ \A q \in Processes : Runner(q, s) =>
                  /\ results'[s][d] + Left(process'[q], d) <= 2 * Len(Scorers)
                  /\ Unclaimed(s) => results'[s][d] + Left(process'[q], d) <= Len(Scorers)
                  /\ \A o \in Processes \ {q} : Runner(o, s) =>
                       results'[s][d] + Left(process'[q], d) + Left(process'[o], d) <= 2 * Len(Scorers)
    BY <1>6, <1>15 DEF RowBudget, Left
  <2>1. /\ results[s][d] <= 2 * Len(Scorers)
        /\ Unclaimed(s) => results[s][d] <= Len(Scorers)
        /\ \A q \in Processes : Runner(q, s) =>
             /\ results[s][d] + Left(process[q], d) <= 2 * Len(Scorers)
             /\ Unclaimed(s) => results[s][d] + Left(process[q], d) <= Len(Scorers)
             /\ \A o \in Processes \ {q} : Runner(o, s) =>
                  results[s][d] + Left(process[q], d) + Left(process[o], d) <= 2 * Len(Scorers)
    BY DEF EvalHistory, RowBudget
  <2>2. CASE s # r
    <3>1. \A q \in Processes : Runner(q, s) => process'[q] = process[q]
      BY <1>4, <2>2 DEF Runner
    <3>2. results'[s][d] = results[s][d]
      BY <1>3, <2>2
    <3> QED
      BY <2>1, <3>1, <3>2
  <2>3. CASE s = r
    <3>1. /\ results'[r][d] + Left(j, d) <= results[r][d] + Left(i, d)
          /\ Left(j, d) \in Nat /\ Left(i, d) \in Nat
          /\ results[r][d] \in Nat /\ results'[r][d] \in Nat /\ Len(Scorers) \in Nat
          /\ results[r][d] + Left(i, d) <= 2 * Len(Scorers)
          /\ Unclaimed(r) => results[r][d] + Left(i, d) <= Len(Scorers)
      BY <1>1, <1>8, <1>16, <2>1, <2>3, Depth
    <3>2. /\ results'[r][d] + Left(j, d) <= 2 * Len(Scorers) /\ results'[r][d] <= 2 * Len(Scorers)
          /\ Unclaimed(r) => results'[r][d] + Left(j, d) <= Len(Scorers) /\ results'[r][d] <= Len(Scorers)
      BY <3>1, Less
    <3>3. ASSUME NEW q \in Processes \ {p}, Runner(q, r)
          PROVE  /\ results'[r][d] + Left(process'[q], d) <= 2 * Len(Scorers) /\ ~Unclaimed(r)
                 /\ results'[r][d] + Left(j, d) + Left(process'[q], d) <= 2 * Len(Scorers)
                 /\ results'[r][d] + Left(process'[q], d) + Left(j, d) <= 2 * Len(Scorers)
      <4>1. process'[q] = process[q]
        BY <1>4
      <4>2. results[r][d] + Left(i, d) + Left(process[q], d) <= 2 * Len(Scorers)
        BY <1>1, <2>1, <2>3, <3>3
      <4>3. Left(process[q], d) \in Nat
        BY ActivityTyped, LeftTyped
      <4>4. ~Unclaimed(r)
        BY <1>1, <3>3, UnclaimedRunner
      <4> QED
        <5>1. /\ results'[r][d] + Left(process[q], d) <= 2 * Len(Scorers)
              /\ results'[r][d] + Left(j, d) + Left(process[q], d) <= 2 * Len(Scorers)
              /\ results'[r][d] + Left(process[q], d) + Left(j, d) <= 2 * Len(Scorers)
          BY <3>1, <4>2, <4>3, Sums
        <5> QED
          BY <4>1, <4>4, <5>1
    <3>4. ASSUME NEW q \in Processes \ {p}, Runner(q, r), NEW o \in Processes \ {p, q}, Runner(o, r)
          PROVE  FALSE
      BY <1>1, <3>4, NoThirdRunner
    <3>5. ASSUME NEW q \in Processes, Runner(q, r)
          PROVE  /\ results'[r][d] + Left(process'[q], d) <= 2 * Len(Scorers)
                 /\ Unclaimed(r) => results'[r][d] + Left(process'[q], d) <= Len(Scorers)
      BY <1>4, <3>2, <3>3, <3>5
    <3>6. ASSUME NEW q \in Processes, Runner(q, r), NEW o \in Processes \ {q}, Runner(o, r)
          PROVE  results'[r][d] + Left(process'[q], d) + Left(process'[o], d) <= 2 * Len(Scorers)
      BY <1>4, <3>3, <3>4, <3>6
    <3> QED
      BY <2>3, <3>2, <3>5, <3>6
  <2> QED
    BY <2>2, <2>3
<1>18. MetricBudget'
  <2>1. \A q \in Processes : LeftM(process'[q]) <= LeftM(process[q])
    <3>1. ASSUME NEW q \in Processes PROVE LeftM(process'[q]) = LeftM(process[q])
      BY <1>5 DEF LeftM
    <3>2. ASSUME NEW q \in Processes PROVE LeftM(process[q]) \in 0 .. 1
      BY DEF LeftM
    <3> QED
      BY <3>1, <3>2
  <2> QED
    BY <1>4, <1>6, <1>15, <2>1, QuietMetrics
<1> QED
  BY <1>7, <1>11, <1>12, <1>13, <1>14, <1>17, <1>18 DEF EvalHistory

LEMMA CaseOverKeeps ==
  ASSUME EvalHistory, NEW p \in Processes, NEW i, i = process[p], i.pc = "cases", i.open # {},
         NEW c, c = First(i.open), NEW good \in BOOLEAN, Persist(i.run, c, good),
         Set(p, CaseDone(i, c, good)),
         UNCHANGED <<runStatus, passed, metrics, failures, shared>>
  PROVE  EvalHistory'
<1> DEFINE count == IF i.good /\ good THEN i.passed + 1 ELSE i.passed
<1>1. i \in Activities /\ ShapeOf(i) /\ c \in i.open /\ i.open \in SUBSET Cases
  BY ActivityTyped, FirstIsOpen DEF Activities
<1>2. PICK j : j = [i EXCEPT !.open = i.open \ {c}, !.scored = 0, !.good = TRUE, !.passed = count]
  OBVIOUS
<1>3. Set(p, j)
  BY <1>2 DEF CaseDone
<1>4. count \in 0 .. Cardinality(Cases) /\ 0 \in 0 .. Len(Scorers)
  <2>1. i.passed \in Nat /\ i.passed <= Cardinality(Cases \ i.open)
    <3>1. i.passed \in 0 .. Cardinality(Cases) /\ Cardinality(Cases) \in Nat
      BY <1>1, CaseSets DEF Activities
    <3> QED
      BY <1>1, <3>1 DEF ShapeOf
  <2>2. PICK S \in SUBSET Cases : S = Cases \ i.open
    OBVIOUS
  <2>3. Cardinality(S \union {c}) = Cardinality(S) + 1
    BY <1>1, <2>2, OneCaseMore
  <2>4. Cardinality(S \union {c}) <= Cardinality(Cases) /\ Cardinality(S) \in Nat /\ Cardinality(Cases) \in Nat
    BY <1>1, CaseSets
  <2> QED
    BY <2>1, <2>2, <2>3, <2>4, Depth
<1>5. (i.good /\ good => count = i.passed + 1) /\ (~(i.good /\ good) => count = i.passed)
  OBVIOUS
<1> HIDE DEF count
<1>6. /\ j \in Activities /\ j.pc = i.pc /\ j.claimed = i.claimed /\ j.run = i.run /\ j.once = i.once
      /\ j.open = i.open \ {c} /\ j.scored = 0 /\ j.good /\ j.passed = count
  BY <1>1, <1>2, <1>4 DEF Activities
<1>7. PICK r : r = i.run
  OBVIOUS
<1>8. Written(i, j, c, good)
  BY <1>5, <1>6 DEF Written
<1>9. /\ j \in Activities /\ j.pc = "cases" /\ j.claimed = i.claimed /\ j.run = r /\ j.once = i.once
      /\ Persist(r, c, good)
  BY <1>6, <1>7
<1> QED
  BY <1>3, <1>7, <1>8, <1>9, RowKeeps

LEMMA ScoreKeeps ==
  ASSUME EvalHistory, NEW p \in Processes, Score(p)
  PROVE  EvalHistory'
<1>1. PICK i : i = process[p]
  OBVIOUS
<1>2. PICK c : c = First(i.open)
  OBVIOUS
<1>3. PICK good \in BOOLEAN :
        /\ Persist(i.run, c, good)
        /\ Set(p, IF i.scored + 1 = Len(Scorers) THEN CaseDone(i, c, good)
                  ELSE [i EXCEPT !.scored = @ + 1, !.good = @ /\ good])
  BY <1>1, <1>2, CurrentIsFirst DEF Score
<1>4. /\ i.pc = "cases" /\ i.open # {} /\ UNCHANGED <<runStatus, passed, metrics, failures, shared>>
  BY <1>1 DEF Score, Doing
<1>5. i \in Activities /\ ShapeOf(i) /\ i.scored \in Nat /\ i.scored < Len(Scorers)
  <2>1. i \in Activities /\ ShapeOf(i)
    BY <1>1, ActivityTyped
  <2>2. i.scored \in 0 .. Len(Scorers)
    BY <2>1 DEF Activities
  <2> QED
    BY <2>1, <2>2, Depth DEF ShapeOf
<1>6. CASE i.scored + 1 = Len(Scorers)
  BY <1>1, <1>2, <1>3, <1>4, <1>5, <1>6, CaseOverKeeps
<1>7. CASE i.scored + 1 # Len(Scorers)
  <2> DEFINE ok == i.good /\ good
  <2>1. PICK j : j = [i EXCEPT !.scored = i.scored + 1, !.good = ok]
    OBVIOUS
  <2>2. Set(p, j)
    BY <1>3, <1>7, <2>1
  <2>3. ok \in BOOLEAN /\ (ok <=> i.good /\ good) /\ i.scored + 1 \in 0 .. Len(Scorers)
        /\ i.scored + 1 < Len(Scorers)
    BY <1>5, <1>7, Depth
  <2> HIDE DEF ok
  <2>4. /\ j \in Activities /\ j.pc = i.pc /\ j.claimed = i.claimed /\ j.run = i.run /\ j.once = i.once
        /\ j.open = i.open /\ j.scored = i.scored + 1 /\ j.good = ok /\ j.passed = i.passed
    BY <1>5, <2>1, <2>3 DEF Activities
  <2>5. PICK r : r = i.run
    OBVIOUS
  <2>6. Written(i, j, c, good)
    BY <2>3, <2>4 DEF Written
  <2>7. /\ j \in Activities /\ j.pc = "cases" /\ j.claimed = i.claimed /\ j.run = r /\ j.once = i.once
        /\ Persist(r, c, good)
    BY <1>3, <1>4, <2>4, <2>5
  <2> QED
    BY <1>1, <1>2, <1>4, <2>2, <2>5, <2>6, <2>7, RowKeeps
<1> QED
  BY <1>6, <1>7

LEMMA CaseRaisesKeeps ==
  ASSUME EvalHistory, NEW p \in Processes, CaseRaises(p)
  PROVE  EvalHistory'
<1>1. PICK i : i = process[p]
  OBVIOUS
<1>2. PICK c : c = First(i.open)
  OBVIOUS
<1>3. Persist(i.run, c, FALSE) /\ Set(p, CaseDone(i, c, FALSE))
  BY <1>1, <1>2, CurrentIsFirst DEF CaseRaises
<1>4. /\ i.pc = "cases" /\ i.open # {} /\ UNCHANGED <<runStatus, passed, metrics, failures, shared>>
  BY <1>1 DEF CaseRaises, Doing
<1> QED
  BY <1>1, <1>2, <1>3, <1>4, CaseOverKeeps

LEMMA RollUpKeeps ==
  ASSUME EvalHistory, NEW p \in Processes, RollUp(p)
  PROVE  EvalHistory'
<1>1. PICK i : i = process[p]
  OBVIOUS
<1>2. PICK r : r = i.run
  OBVIOUS
<1>3. PICK j : j = [i EXCEPT !.pc = "finish"]
  OBVIOUS
<1>4. i \in Activities /\ ShapeOf(i) /\ i.pc = "roll up" /\ i.open = {} /\ r \in Runs /\ Runner(p, r)
  BY <1>1, <1>2, ActivityTyped DEF RollUp, Doing, Activities, Runner, Executing, ShapeOf
<1>5. /\ metrics' = [metrics EXCEPT ![r] = @ + 1] /\ Set(p, j)
      /\ UNCHANGED <<runStatus, passed, results, bad, failures, shared>>
  BY <1>1, <1>2, <1>3 DEF RollUp
<1>6. /\ j \in Activities /\ j.pc = "finish" /\ j.claimed = i.claimed /\ j.run = i.run /\ j.once = i.once
      /\ j.open = i.open /\ j.scored = i.scored /\ j.good = i.good /\ j.passed = i.passed
  BY <1>3, <1>4 DEF Activities
<1>7. /\ process' \in [Processes -> Activities] /\ process'[p] = j
      /\ \A q \in Processes \ {p} : process'[q] = process[q]
  BY <1>5, <1>6, SetOne DEF EvalHistory
<1>8. /\ metrics' \in [Runs -> Nat] /\ metrics'[r] = metrics[r] + 1 /\ metrics[r] \in Nat
      /\ \A s \in Runs \ {r} : metrics'[s] = metrics[s]
  <2>1. metrics \in [Runs -> Nat]
    BY DEF EvalHistory, EvalTypeOK
  <2>2. r \in Runs /\ metrics' = [metrics EXCEPT ![r] = @ + 1]
    BY <1>4, <1>5
  <2> QED
    BY <2>1, <2>2
<1>9. \A q \in Processes :
        /\ Executing(q)' <=> Executing(q)
        /\ process'[q].claimed = process[q].claimed /\ process'[q].run = process[q].run
        /\ process'[q].once = process[q].once /\ process'[q].open = process[q].open
        /\ process'[q].scored = process[q].scored
  BY <1>1, <1>4, <1>6, <1>7 DEF Executing
<1>10. \A s \in Runs, q \in Processes : (Runner(q, s)' <=> Runner(q, s)) /\ (Holds(q, s)' <=> Holds(q, s))
  BY <1>9 DEF Runner, Holds
<1>11. EvalTypeOK'
  BY <1>5, <1>7, <1>8 DEF EvalHistory, EvalTypeOK
<1>12. \A q \in Processes : ShapeOf(process'[q])
  <2>1. ShapeOf(j)
    BY <1>4, <1>6 DEF ShapeOf
  <2> QED
    BY <1>7, <2>1 DEF EvalHistory
<1>13. OneClaim'
  BY <1>5, <1>9, <1>10 DEF EvalHistory, OneClaim
<1>14. RowsSay'
  <2>1. \A c \in Cases : results[r][c] # 0
    BY <1>1, <1>4 DEF EvalHistory, RowsSay
  <2>2. runStatus[r] # "unused"
    BY <1>4 DEF EvalHistory, OneClaim
  <2>3. ASSUME NEW s \in Runs
        PROVE  /\ metrics'[s] # 0 => \A c \in Cases : results[s][c] # 0
               /\ runStatus[s] = "unused" => metrics'[s] = 0
    BY <1>8, <2>1, <2>2 DEF EvalHistory, RowsSay
  <2> QED
    BY <1>5, <1>9, <1>10, <2>3 DEF EvalHistory, RowsSay
<1>15. UnsharedExact'
  <2>1. ASSUME NEW s \in Runs \ shared
        PROVE  /\ \A c \in Cases : results[s][c] <= Len(Scorers)
               /\ runStatus[s] = "done" => passed[s] = Cardinality(Cases \ bad[s])
               /\ metrics[s] <= 1
               /\ \A q \in Processes : Runner(q, s) =>
                    /\ runStatus[s] # "done" /\ Exact(process[q], s)
                    /\ \A o \in Processes : Runner(o, s) => o = q
    BY DEF EvalHistory, UnsharedExact
  <2>2. ASSUME r \notin shared
        PROVE  metrics[r] = 0 /\ Exact(process[p], r)' /\ \A q \in Processes : Runner(q, r) => q = p
    <3>1. Exact(i, r) /\ \A q \in Processes : Runner(q, r) => q = p
      BY <1>1, <1>4, <2>1, <2>2
    <3>2. metrics[r] = 0
      BY <1>4, <3>1 DEF Exact
    <3>3. metrics'[r] = 1
      BY <1>8, <3>2
    <3> QED
      BY <1>4, <1>5, <1>6, <1>7, <3>1, <3>2, <3>3 DEF Exact
  <2>3. ASSUME NEW s \in Runs \ shared, s # r
        PROVE  metrics'[s] = metrics[s]
               /\ \A q \in Processes : Runner(q, s) => process'[q] = process[q] /\ Exact(process[q], s)'
    <3>1. metrics'[s] = metrics[s]
      BY <1>8, <2>3
    <3>2. ASSUME NEW q \in Processes, Runner(q, s)
          PROVE  process'[q] = process[q] /\ Exact(process[q], s)'
      <4>1. process'[q] = process[q]
        BY <1>1, <1>2, <1>7, <2>3, <3>2 DEF Runner
      <4>2. Exact(process[q], s)
        BY <2>1, <3>2
      <4> QED
        BY <1>5, <3>1, <4>1, <4>2 DEF Exact
    <3> QED
      BY <3>1, <3>2
  <2>4. ASSUME NEW s \in Runs \ shared
        PROVE  /\ metrics'[s] <= 1
               /\ \A q \in Processes : Runner(q, s) => Exact(process[q], s)'
    <3>1. CASE s = r
      BY <1>8, <2>2, <3>1
    <3>2. CASE s # r
      BY <2>1, <2>3, <3>2
    <3> QED
      BY <3>1, <3>2
  <2> QED
    BY <1>5, <1>10, <2>1, <2>4 DEF UnsharedExact
<1>16. \A s \in Runs : Unclaimed(s)' <=> Unclaimed(s)
  BY <1>5, <1>9 DEF Unclaimed
<1>17. RowBudget'
  <2>1. ASSUME NEW q \in Processes, NEW c \in Cases PROVE Left(process'[q], c) <= Left(process[q], c)
    <3>1. Left(process'[q], c) = Left(process[q], c)
      BY <1>9 DEF Left
    <3>2. Left(process[q], c) \in Nat
      BY ActivityTyped, LeftTyped
    <3> QED
      BY <3>1, <3>2
  <2> QED
    BY <1>5, <1>7, <1>10, <1>16, <2>1, QuietRows
<1>18. MetricBudget'
  <2> SUFFICES ASSUME NEW s \in Runs
      PROVE  /\ metrics'[s] <= 2
             /\ Unclaimed(s) => metrics'[s] <= 1
             /\ \A q \in Processes : Runner(q, s) =>
                  /\ metrics'[s] + LeftM(process'[q]) <= 2
                  /\ Unclaimed(s) => metrics'[s] + LeftM(process'[q]) <= 1
                  /\ \A o \in Processes \ {q} : Runner(o, s) =>
                       metrics'[s] + LeftM(process'[q]) + LeftM(process'[o]) <= 2
    BY <1>10, <1>16 DEF MetricBudget, LeftM
  <2>1. /\ metrics[s] <= 2
        /\ Unclaimed(s) => metrics[s] <= 1
        /\ \A q \in Processes : Runner(q, s) =>
             /\ metrics[s] + LeftM(process[q]) <= 2
             /\ Unclaimed(s) => metrics[s] + LeftM(process[q]) <= 1
             /\ \A o \in Processes \ {q} : Runner(o, s) =>
                  metrics[s] + LeftM(process[q]) + LeftM(process[o]) <= 2
    BY DEF EvalHistory, MetricBudget
  <2>2. CASE s # r
    <3>1. \A q \in Processes : Runner(q, s) => process'[q] = process[q]
      BY <1>1, <1>2, <1>7, <2>2 DEF Runner
    <3> QED
      BY <1>8, <2>1, <2>2, <3>1
  <2>3. CASE s = r
    <3>1. LeftM(process'[p]) = 0 /\ LeftM(process[p]) = 1
      BY <1>1, <1>4, <1>6, <1>7 DEF LeftM
    <3>2. metrics'[r] <= 2 /\ (Unclaimed(r) => metrics'[r] <= 1)
      BY <1>4, <1>8, <2>1, <2>3, <3>1
    <3>3. ASSUME NEW q \in Processes \ {p}, Runner(q, r)
          PROVE  ~Unclaimed(r) /\ metrics'[r] + LeftM(process'[q]) <= 2 /\ LeftM(process'[q]) \in 0 .. 1
      <4>1. process'[q] = process[q] /\ ~Unclaimed(r)
        BY <1>4, <1>7, <3>3, UnclaimedRunner
      <4>2. metrics[r] + LeftM(process[p]) + LeftM(process[q]) <= 2
        BY <1>4, <2>1, <2>3, <3>3
      <4>3. LeftM(process[q]) \in 0 .. 1
        BY DEF LeftM
      <4> QED
        BY <1>8, <3>1, <4>1, <4>2, <4>3
    <3>4. ASSUME NEW q \in Processes \ {p}, Runner(q, r), NEW o \in Processes \ {p, q}, Runner(o, r)
          PROVE  FALSE
      BY <1>4, <3>4, NoThirdRunner
    <3>5. ASSUME NEW q \in Processes, Runner(q, r)
          PROVE  /\ metrics'[r] + LeftM(process'[q]) <= 2
                 /\ Unclaimed(r) => metrics'[r] + LeftM(process'[q]) <= 1
      BY <1>8, <3>1, <3>2, <3>3, <3>5
    <3>6. ASSUME NEW q \in Processes, Runner(q, r), NEW o \in Processes \ {q}, Runner(o, r)
          PROVE  metrics'[r] + LeftM(process'[q]) + LeftM(process'[o]) <= 2
      <4>1. CASE q = p
        BY <1>8, <3>1, <3>3, <3>6, <4>1
      <4>2. CASE o = p
        BY <1>8, <3>1, <3>3, <3>6, <4>2
      <4> QED
        BY <3>4, <3>6, <4>1, <4>2
    <3> QED
      BY <2>3, <3>2, <3>5, <3>6
  <2> QED
    BY <2>2, <2>3
<1> QED
  BY <1>11, <1>12, <1>13, <1>14, <1>15, <1>17, <1>18 DEF EvalHistory

LEMMA EvalInitHistory ==
  ASSUME EvalInit
  PROVE  EvalHistory
<1>1. process \in [Processes -> Activities] /\ \A p \in Processes : process[p] = Idle
  BY IdleIs DEF EvalInit
<1>2. \A p \in Processes, r \in Runs : ~Runner(p, r) /\ ~Holds(p, r)
  BY <1>1, IdleIs DEF Runner, Holds, Executing
<1>3. EvalTypeOK
  <2>1. 0 \in 0 .. Cardinality(Cases) /\ 0 \in 0 .. MaxFailures
    BY CaseSets, EvalAssumption
  <2> QED
    BY <1>1, <2>1 DEF EvalInit, EvalTypeOK, Statuses
<1>4. \A p \in Processes : ShapeOf(process[p])
  <2>1. 0 <= Cardinality(Cases \ Idle.open) /\ 0 < Len(Scorers)
    BY CaseSets, Depth
  <2>2. ShapeOf(Idle)
    BY <2>1, IdleIs DEF ShapeOf
  <2> QED
    BY <1>1, <2>2
<1>5. OneClaim
  BY <1>2 DEF OneClaim
<1>6. RowsSay
  BY <1>2 DEF EvalInit, RowsSay
<1>7. UnsharedExact
  BY <1>2, Depth DEF EvalInit, UnsharedExact
<1>8. RowBudget
  BY <1>2, Depth DEF EvalInit, RowBudget
<1>9. MetricBudget
  BY <1>2 DEF EvalInit, MetricBudget
<1> QED
  BY <1>3, <1>4, <1>5, <1>6, <1>7, <1>8, <1>9 DEF EvalHistory

LEMMA EvalNextKeeps ==
  ASSUME EvalHistory, [EvalNext]_evalVars
  PROVE  EvalHistory'
<1>1. ASSUME NEW p \in Processes, Execute(p) PROVE EvalHistory'
  BY <1>1, NextRunKeeps, ScoreKeeps, CaseRaisesKeeps, CasesDoneKeeps, RollUpKeeps, FinishKeeps DEF Execute
<1>2. CASE UNCHANGED evalVars
  <2>1. UNCHANGED <<runStatus, passed, results, bad, metrics, process, failures, shared>>
    BY <1>2 DEF evalVars
  <2>2. \A s \in Runs, p \in Processes : (Runner(p, s)' <=> Runner(p, s)) /\ (Holds(p, s)' <=> Holds(p, s))
    BY <2>1 DEF Runner, Holds, Executing
  <2>3. \A s \in Runs : Unclaimed(s)' => Unclaimed(s)
    BY <2>1 DEF Unclaimed
  <2>4. EvalTypeOK'
    BY <2>1 DEF EvalHistory, EvalTypeOK
  <2>5. OneClaim' /\ RowsSay'
    BY <2>1, <2>2 DEF EvalHistory, OneClaim, RowsSay
  <2>6. UnsharedExact'
    BY <2>1, <2>2, QuietUnshared
  <2>7. process' \in [Processes -> Activities]
    BY <2>4 DEF EvalTypeOK
  <2>8. \A p \in Processes : LeftM(process[p]) <= LeftM(process[p])
                             /\ \A c \in Cases : Left(process[p], c) <= Left(process[p], c)
    <3>1. \A p \in Processes : LeftM(process[p]) \in Nat /\ \A c \in Cases : Left(process[p], c) \in Nat
      BY LeftTyped, ActivityTyped
    <3> QED
      BY <3>1
  <2>9. RowBudget'
    BY <2>1, <2>2, <2>3, <2>7, <2>8, QuietRows
  <2>10. MetricBudget'
    BY <2>1, <2>2, <2>3, <2>7, <2>8, QuietMetrics
  <2> QED
    BY <2>1, <2>4, <2>5, <2>6, <2>9, <2>10 DEF EvalHistory
<1> QED
  BY <1>1, <1>2, EnqueueKeeps, ClaimKeeps, RunRaisesKeeps, CrashKeeps, RunOnceKeeps DEF EvalNext

LEMMA EvalHistoryShows ==
  ASSUME EvalHistory
  PROVE  EvalInv
<1>1. ASSUME NEW r \in Runs \ shared
      PROVE  Cardinality({p \in Processes : Executing(p) /\ process[p].run = r}) <= 1
  <2> DEFINE S == {p \in Processes : Executing(p) /\ process[p].run = r}
  <2>1. \A p, q \in S : p = q
    BY <1>1 DEF EvalHistory, UnsharedExact, Runner
  <2>2. CASE S = {}
    BY <2>2, FS_EmptySet
  <2>3. CASE S # {}
    <3>1. PICK p : S = {p}
      BY <2>1, <2>3
    <3> HIDE DEF S
    <3>2. Cardinality(S) = 1
      BY <3>1, FS_Singleton
    <3> QED
      BY <3>2 DEF S
  <2> QED
    BY <2>2, <2>3
<1>2. OneExecution
  BY <1>1 DEF OneExecution, EvalHistory, UnsharedExact
<1>3. PassedCountsGood
  BY DEF PassedCountsGood, EvalHistory, UnsharedExact
<1>4. TwiceAtMost
  BY DEF TwiceAtMost, EvalHistory, RowBudget, MetricBudget
<1> QED
  BY <1>2, <1>3, <1>4 DEF EvalInv, EvalHistory

\* However the processes that claim runs, those that run one once, raises and crashes
\* interleave: a run that no two processes executed has the results of one execution and
\* counts the cases that pass, and no run has more rows than two executions write
\* (run_pending, _claim_runs, execute_run, _evaluate_case).
THEOREM RunsCountTheirCases == EvalSpec => []EvalInv
<1>1. EvalInit => EvalHistory
  BY EvalInitHistory
<1>2. EvalHistory /\ [EvalNext]_evalVars => EvalHistory'
  BY EvalNextKeeps
<1>3. EvalHistory => EvalInv
  BY EvalHistoryShows
<1> QED
  BY <1>1, <1>2, <1>3, PTL DEF EvalSpec

-----------------------------------------------------------------------------
(* Scores.  A list comes back of a retrieval; what a metric counts are places *)
(* of it.                                                                    *)

LEMMA TopOfList ==
  ASSUME NEW S, NEW list \in Seq(S), NEW k \in Nat
  PROVE  /\ Top(list, k) \in Seq(S) /\ Len(Top(list, k)) \in Nat
         /\ Len(Top(list, k)) <= k /\ Len(Top(list, k)) <= Len(list)
         /\ \A i \in 1 .. Len(list) : i <= k => i <= Len(Top(list, k))
         /\ \A i \in 1 .. Len(Top(list, k)) : i \in 1 .. Len(list) /\ Top(list, k)[i] = list[i]
         /\ Len(Top(list, k)) = 0 <=> k = 0 \/ list = <<>>
<1> DEFINE n == Shortest(k, Len(list))
<1>1. n \in Nat /\ n <= k /\ n <= Len(list) /\ (n = k \/ n = Len(list)) /\ Len(list) \in Nat
  BY DEF Shortest
<1>2. Top(list, k) = SubSeq(list, 1, n)
  BY DEF Top
<1> HIDE DEF n
<1>3. Top(list, k) \in Seq(S) /\ Len(Top(list, k)) = n
  BY <1>1, <1>2
<1>4. \A i \in 1 .. n : i \in 1 .. Len(list) /\ Top(list, k)[i] = list[i]
  BY <1>1, <1>2
<1>5. list = <<>> <=> Len(list) = 0
  BY EmptySeq
<1> QED
  BY <1>1, <1>3, <1>4, <1>5

\* Hits are finitely many places.
LEMMA HitsAreCounted ==
  ASSUME NEW S, NEW list \in Seq(S), NEW rks
  PROVE  /\ HitsIn(list, rks) \in Nat /\ HitsIn(list, rks) <= Len(list)
         /\ IsFiniteSet({i \in DOMAIN list : list[i] \in rks})
         /\ HitsIn(list, rks) = 0 <=> \A i \in DOMAIN list : list[i] \notin rks
<1> DEFINE hits == {i \in DOMAIN list : list[i] \in rks}
           n == Len(list)
<1>1. n \in Nat /\ DOMAIN list = 1 .. n
  OBVIOUS
<1>2. IsFiniteSet(1 .. n) /\ Cardinality(1 .. n) = n
  <2>1. 1 \in Int /\ n \in Int /\ (1 > n => n = 0) /\ n - 1 + 1 = n
    BY <1>1
  <2> HIDE DEF n
  <2> QED
    BY <2>1, FS_Interval
<1>3. hits \in SUBSET (1 .. n)
  BY <1>1
<1>4. HitsIn(list, rks) = Cardinality(hits)
  BY DEF HitsIn
<1> HIDE DEF n
<1>5. IsFiniteSet(hits) /\ Cardinality(hits) <= n /\ Cardinality(hits) \in Nat /\ (Cardinality(hits) = 0 <=> hits = {})
  <2> HIDE DEF hits
  <2>1. IsFiniteSet(hits) /\ Cardinality(hits) <= n
    BY <1>2, <1>3, FS_Subset
  <2>2. Cardinality(hits) \in Nat /\ (Cardinality(hits) = 0 <=> hits = {})
    BY <2>1, FS_CardinalityType, FS_EmptySet
  <2> QED
    BY <2>1, <2>2
<1> QED
  BY <1>4, <1>5 DEF n

\* In a list without duplicates they are as many as the assets that were hit.
LEMMA HitsAreAssets ==
  ASSUME NEW S, NEW list \in Seq(S), IsInjective(list), NEW rks, IsFiniteSet(rks)
  PROVE  HitsIn(list, rks) = Cardinality(ToSet(list) \intersect rks)
<1> DEFINE hits == {i \in DOMAIN list : list[i] \in rks}
           found == ToSet(list) \intersect rks
           f == [i \in hits |-> list[i]]
<1>1. f \in [hits -> found]
  BY DEF ToSet
<1>2. \A i, j \in hits : f[i] = f[j] => i = j
  BY DEF IsInjective
<1>3. \A x \in found : \E i \in hits : f[i] = x
  BY DEF ToSet
<1>4. IsFiniteSet(hits) /\ HitsIn(list, rks) = Cardinality(hits)
  BY HitsAreCounted DEF HitsIn
<1> HIDE DEF hits, found, f
<1>5. f \in Bijection(hits, found)
  BY <1>1, <1>2, <1>3 DEF Bijection, Injection, Surjection, IsInjective
<1>6. ExistsBijection(hits, found)
  BY <1>5 DEF ExistsBijection
<1> QED
  BY <1>4, <1>6, FS_Bijection DEF found

\* The least of some numbers.
LEMMA LeastPlace ==
  ASSUME NEW places \in SUBSET Nat, places # {}
  PROVE  Min(places) \in places /\ \A i \in places : Min(places) <= i
<1>1. PICK m \in places : \A j \in places : ~ (<<j, m>> \in OpToRel(<, Nat))
  BY NatLessThanWellFounded, WFMin
<1>2. \A j \in places : ~ (j < m)
  BY <1>1 DEF OpToRel
<1>3. m \in places /\ \A j \in places : m <= j
  BY <1>2
<1> QED
  BY <1>3 DEF Min

LEMMA GreatestPlace ==
  ASSUME NEW n \in Nat, NEW places \in SUBSET (1 .. n), places # {}
  PROVE  Max(places) \in places
<1> DEFINE below == {n - i : i \in places}
<1>1. below \in SUBSET Nat /\ below # {}
  <2>1. \A i \in places : n - i \in Nat
    OBVIOUS
  <2> QED
    BY <2>1
<1> HIDE DEF below
<1>2. Min(below) \in below /\ \A y \in below : Min(below) <= y
  BY <1>1, LeastPlace
<1>3. PICK i \in places : Min(below) = n - i
  BY <1>2 DEF below
<1>4. \A j \in places : n - i <= n - j
  BY <1>2, <1>3 DEF below
<1>5. \A j \in places : i >= j
  BY <1>4
<1> QED
  BY <1>5 DEF Max

\* The rank of the first hit.
LEMMA FirstHit ==
  ASSUME NEW S, NEW list \in Seq(S), NEW rks
  PROVE  LET rank == RankOfFirst(list, rks) IN
         /\ rank \in 0 .. Len(list)
         /\ rank # 0 => list[rank] \in rks
         /\ \A i \in 1 .. Len(list) : list[i] \in rks => rank # 0 /\ rank <= i
<1> DEFINE hits == {i \in 1 .. Len(list) : list[i] \in rks}
<1>1. RankOfFirst(list, rks) = IF hits # {} THEN Min(hits) ELSE 0
  BY DEF RankOfFirst, SelectInSeq
<1>2. hits \in SUBSET Nat /\ hits \subseteq 1 .. Len(list) /\ Len(list) \in Nat /\ \A i \in hits : list[i] \in rks
  OBVIOUS
<1>3. \A i \in 1 .. Len(list) : list[i] \in rks => i \in hits
  OBVIOUS
<1> HIDE DEF hits
<1>4. CASE hits = {}
  BY <1>1, <1>2, <1>3, <1>4
<1>5. CASE hits # {}
  <2>1. Min(hits) \in hits /\ \A i \in hits : Min(hits) <= i
    BY <1>2, <1>5, LeastPlace
  <2>2. Min(hits) \in 1 .. Len(list)
    BY <1>2, <2>1
  <2> QED
    BY <1>1, <1>2, <1>3, <1>5, <2>1, <2>2
<1> QED
  BY <1>4, <1>5

\* Precision, recall and reciprocal rank are fractions, recall grows and is whole when
\* everything was found, and what passes has found something - for any list without
\* duplicates, any expected assets and any k (precision_at_k, recall_at_k,
\* mean_reciprocal_rank, HistoricalComparisonScorer.score).
THEOREM ScoresMeanSomething ==
  ASSUME NEW S, NEW list \in Seq(S), NEW expected \in SUBSET S, IsFiniteSet(expected), NEW k \in Nat
  PROVE  ScoresAreFractions(list, expected, k)
<1> SUFFICES ASSUME IsInjective(list) PROVE ScoresAreFractions(list, expected, k)
  BY DEF ScoresAreFractions
<1> DEFINE top == Top(list, k)
           more == Top(list, k + 1)
           h == HitsIn(top, expected)
           h2 == HitsIn(more, expected)
           c == Cardinality(expected)
           rank == RankOfFirst(list, expected)
<1>1. /\ top \in Seq(S) /\ Len(top) \in Nat /\ Len(top) <= k
      /\ \A i \in 1 .. Len(top) : i \in 1 .. Len(list) /\ top[i] = list[i]
      /\ \A i \in 1 .. Len(list) : i <= k => i <= Len(top)
      /\ (Len(top) = 0 <=> k = 0 \/ list = <<>>)
      /\ DOMAIN top = 1 .. Len(top)
  BY TopOfList
<1>2. /\ more \in Seq(S) /\ Len(more) \in Nat
      /\ \A i \in 1 .. Len(more) : i \in 1 .. Len(list) /\ more[i] = list[i]
      /\ \A i \in 1 .. Len(list) : i <= k + 1 => i <= Len(more)
      /\ DOMAIN more = 1 .. Len(more)
  BY TopOfList
<1>3. IsInjective(top) /\ IsInjective(more) /\ \A i, j \in 1 .. Len(list) : list[i] = list[j] => i = j
  <2>1. \A i, j \in 1 .. Len(list) : list[i] = list[j] => i = j
    BY DEF IsInjective
  <2> HIDE DEF top, more
  <2> QED
    BY <1>1, <1>2, <2>1 DEF IsInjective
<1>4. ToSet(top) \subseteq ToSet(more)
  <2>1. ASSUME NEW x \in ToSet(top) PROVE x \in ToSet(more)
    <3> HIDE DEF top, more
    <3>1. PICK i \in 1 .. Len(top) : x = top[i]
      BY <1>1 DEF ToSet
    <3>2. i \in 1 .. Len(list) /\ i <= k + 1 /\ i \in Nat
      BY <1>1, <3>1
    <3>3. i \in 1 .. Len(more) /\ more[i] = x
      BY <1>1, <1>2, <3>1, <3>2
    <3> QED
      BY <1>2, <3>3 DEF ToSet
  <2> QED
    BY <2>1
<1> HIDE DEF top, more
<1>5. /\ h \in Nat /\ h <= Len(top) /\ (h = 0 <=> \A i \in DOMAIN top : top[i] \notin expected)
      /\ h = Cardinality(ToSet(top) \intersect expected)
      /\ h2 \in Nat /\ h2 = Cardinality(ToSet(more) \intersect expected)
  <2>1. /\ h \in Nat /\ h <= Len(top) /\ (h = 0 <=> \A i \in DOMAIN top : top[i] \notin expected)
        /\ h2 \in Nat
    BY <1>1, <1>2, HitsAreCounted
  <2>2. h = Cardinality(ToSet(top) \intersect expected)
    BY <1>1, <1>3, HitsAreAssets
  <2>3. h2 = Cardinality(ToSet(more) \intersect expected)
    BY <1>2, <1>3, HitsAreAssets
  <2> QED
    BY <2>1, <2>2, <2>3
<1>6. /\ c \in Nat /\ (c = 0 <=> expected = {}) /\ h <= c /\ h <= h2
      /\ (h = c <=> expected \subseteq ToSet(top))
  <2>1. c \in Nat /\ (c = 0 <=> expected = {})
    BY FS_CardinalityType, FS_EmptySet
  <2>2. /\ IsFiniteSet(ToSet(more) \intersect expected)
        /\ h <= c /\ (h = c => ToSet(top) \intersect expected = expected)
    <3>1. /\ ToSet(top) \intersect expected \in SUBSET expected
          /\ ToSet(more) \intersect expected \in SUBSET expected
      OBVIOUS
    <3>2. /\ Cardinality(ToSet(top) \intersect expected) <= c
          /\ (c = Cardinality(ToSet(top) \intersect expected) => expected = ToSet(top) \intersect expected)
      BY <3>1, FS_Subset
    <3>3. IsFiniteSet(ToSet(more) \intersect expected)
      BY <3>1, FS_Subset
    <3> QED
      BY <1>5, <3>2, <3>3
  <2>3. h <= h2
    <3>1. ToSet(top) \intersect expected \in SUBSET (ToSet(more) \intersect expected)
      BY <1>4
    <3> QED
      BY <1>5, <2>2, <3>1, FS_Subset
  <2>4. expected \subseteq ToSet(top) => h = c
    <3>1. expected \subseteq ToSet(top) => ToSet(top) \intersect expected = expected
      OBVIOUS
    <3> QED
      BY <1>5, <3>1
  <2>5. h = c => expected \subseteq ToSet(top)
    BY <2>2
  <2> QED
    BY <2>1, <2>2, <2>3, <2>4, <2>5
<1>7. /\ precision_at_k(list, expected, k) = IF Len(top) = 0 THEN Zero ELSE <<h, k>>
      /\ recall_at_k(list, expected, k) = IF expected = {} \/ Len(top) = 0 THEN Zero ELSE <<h, c>>
      /\ recall_at_k(list, expected, k + 1) = IF expected = {} \/ list = <<>> THEN Zero ELSE <<h2, c>>
      /\ mean_reciprocal_rank(list, expected) = IF rank = 0 THEN Zero ELSE <<1, rank>>
  <2>1. k + 1 # 0 /\ (Len(top) = 0 <=> k = 0 \/ list = <<>>)
    BY <1>1
  <2> QED
    BY <2>1 DEF precision_at_k, recall_at_k, mean_reciprocal_rank, top, more
<1>8. /\ rank \in 0 .. Len(list)
      /\ (rank # 0 => list[rank] \in expected)
      /\ \A i \in 1 .. Len(list) : list[i] \in expected => rank # 0 /\ rank <= i
  BY FirstHit
<1> HIDE DEF h, h2, c, rank
<1>9. \A m, n \in Nat : m <= n => AtMost(Zero, <<m, n>>) /\ AtMost(<<m, n>>, <<1, 1>>)
  BY DEF AtMost, Zero
<1>10. AtMost(Zero, Zero) /\ AtMost(Zero, <<1, 1>>)
  BY DEF AtMost, Zero
<1>11. \A score \in {precision_at_k(list, expected, k), recall_at_k(list, expected, k),
                     mean_reciprocal_rank(list, expected)} :
         AtMost(Zero, score) /\ AtMost(score, <<1, 1>>)
  <2>1. h <= k /\ h <= c /\ rank \in Nat /\ (rank # 0 => 1 <= rank)
    BY <1>1, <1>5, <1>6, <1>8
  <2>2. AtMost(Zero, <<h, k>>) /\ AtMost(<<h, k>>, <<1, 1>>)
    BY <1>5, <1>9, <2>1
  <2>3. AtMost(Zero, <<h, c>>) /\ AtMost(<<h, c>>, <<1, 1>>)
    BY <1>5, <1>6, <1>9, <2>1
  <2>4. rank # 0 => AtMost(Zero, <<1, rank>>) /\ AtMost(<<1, rank>>, <<1, 1>>)
    BY <1>9, <2>1
  <2> QED
    BY <1>7, <1>10, <2>2, <2>3, <2>4
<1>12. AtMost(recall_at_k(list, expected, k), recall_at_k(list, expected, k + 1))
  <2>1. CASE expected = {} \/ list = <<>>
    BY <1>1, <1>7, <1>10, <2>1
  <2>2. CASE expected # {} /\ list # <<>> /\ Len(top) = 0
    <3>1. AtMost(Zero, <<h2, c>>)
      BY <1>5, <1>6 DEF AtMost, Zero
    <3> QED
      BY <1>7, <2>2, <3>1
  <2>3. CASE expected # {} /\ list # <<>> /\ Len(top) # 0
    <3>1. \A a, b, n \in Nat : a <= b => a * n <= b * n
      OBVIOUS
    <3>2. AtMost(<<h, c>>, <<h2, c>>)
      BY <1>5, <1>6, <3>1 DEF AtMost
    <3> QED
      BY <1>7, <2>3, <3>2
  <2> QED
    BY <2>1, <2>2, <2>3
<1>13. recall_at_k(list, expected, k) = <<c, c>> <=> expected # {} /\ expected \subseteq ToSet(top)
  <2>1. Zero # <<c, c>>
    BY DEF Zero
  <2>2. Len(top) = 0 => ToSet(top) = {}
    BY <1>1 DEF ToSet
  <2>3. <<h, c>> = <<c, c>> <=> h = c
    OBVIOUS
  <2> QED
    BY <1>6, <1>7, <2>1, <2>2, <2>3
<1>14. ASSUME NEW forbidden \in SUBSET expected, HistoricalPasses(list, expected, forbidden, k)
       PROVE  /\ AtMost(<<1, k>>, mean_reciprocal_rank(list, expected))
              /\ mean_reciprocal_rank(list, expected)[2] \notin {i \in DOMAIN top : list[i] \in forbidden}
              /\ precision_at_k(list, expected, k)[1] # 0
  <2>1. PICK i \in DOMAIN top : list[i] \in expected
    BY <1>14 DEF HistoricalPasses, hit_rate, top
  <2>2. \A j \in DOMAIN top : top[j] \notin forbidden
    <3>1. HitsIn(top, forbidden) = 0
      BY <1>14 DEF HistoricalPasses, forbidden_violations, top
    <3> QED
      BY <1>1, <3>1, HitsAreCounted
  <2>3. i \in 1 .. Len(list) /\ top[i] = list[i] /\ i <= k /\ Len(top) # 0
    BY <1>1, <2>1
  <2>4. rank # 0 /\ rank <= k /\ rank \in Nat
    BY <1>8, <2>1, <2>3
  <2>5. AtMost(<<1, k>>, <<1, rank>>)
    BY <2>4 DEF AtMost
  <2>6. rank \notin {j \in DOMAIN top : list[j] \in forbidden}
    BY <1>1, <2>2
  <2>7. h # 0
    BY <1>5, <2>1, <2>3
  <2> QED
    BY <1>7, <2>3, <2>4, <2>5, <2>6, <2>7
<1> QED
  BY <1>11, <1>12, <1>13, <1>14 DEF ScoresAreFractions, top, c

\* Whatever an answer rates, a case that the judge passes has an item that was rated
\* relevant, and enough coverage (LLMJudgeScorer.score).
THEOREM JudgesAreStrict ==
  ASSUME NEW S, NEW list \in Seq(S), NEW ratings \in Seq([rk : S, rating : 0 .. 2]), NEW coverage \in Nat
  PROVE  JudgeIsStrict(list, ratings, coverage)
<1> SUFFICES ASSUME JudgePasses(list, ratings, coverage)
             PROVE  \E i \in DOMAIN list : i <= ItemLimit /\ [rk |-> list[i], rating |-> 2] \in ToSet(ratings)
  BY DEF JudgeIsStrict, JudgePasses
<1> DEFINE items == Top(list, ItemLimit)
           relevant == {i \in DOMAIN items : RatingOf(items[i], ratings) = 2}
<1>1. /\ items \in Seq(S) /\ Len(items) \in Nat /\ Len(items) <= ItemLimit
      /\ \A i \in 1 .. Len(items) : i \in 1 .. Len(list) /\ items[i] = list[i]
      /\ DOMAIN items = 1 .. Len(items)
  BY TopOfList DEF ItemLimit
<1>2. items # <<>> /\ AtMost(<<3, 10>>, <<Cardinality(relevant), Len(items)>>)
  BY DEF JudgePasses
<1> HIDE DEF items
<1>3. relevant # {}
  <2> SUFFICES ASSUME relevant = {} PROVE FALSE
    OBVIOUS
  <2>1. Cardinality(relevant) = 0
    BY FS_EmptySet
  <2>2. Len(items) # 0
    BY <1>1, <1>2, EmptySeq
  <2> HIDE DEF relevant
  <2> QED
    BY <1>1, <1>2, <2>1, <2>2 DEF AtMost
<1>4. PICK i \in 1 .. Len(items) : RatingOf(items[i], ratings) = 2
  BY <1>1, <1>3
<1> DEFINE places == {n \in 1 .. Len(ratings) : ratings[n].rk = items[i]}
           place == SelectLastInSeq(ratings, LAMBDA r : r.rk = items[i])
<1>5. place = IF places # {} THEN Max(places) ELSE 0
  BY DEF SelectLastInSeq
<1>6. RatingOf(items[i], ratings) = IF place = 0 THEN 0 ELSE ratings[place].rating
  BY DEF RatingOf
<1>7. place \in 1 .. Len(ratings) /\ ratings[place].rk = items[i] /\ ratings[place].rating = 2
  <2> HIDE DEF place
  <2>1. place # 0
    BY <1>4, <1>6
  <2>2. places # {} /\ place = Max(places)
    BY <1>5, <2>1
  <2>3. Max(places) \in places
    <3>1. places \in SUBSET (1 .. Len(ratings)) /\ Len(ratings) \in Nat
      OBVIOUS
    <3> HIDE DEF places
    <3> QED
      BY <2>2, <3>1, GreatestPlace
  <2> QED
    BY <1>4, <1>6, <2>1, <2>2, <2>3
<1>8. ratings[place] = [rk |-> items[i], rating |-> 2]
  <2> HIDE DEF place, places
  <2>1. ratings[place] \in [rk : S, rating : 0 .. 2]
    <3> DEFINE Ratings == [rk : S, rating : 0 .. 2]
    <3>1. ratings \in Seq(Ratings)
      OBVIOUS
    <3> HIDE DEF Ratings
    <3>2. ratings[place] \in Ratings
      BY <1>7, <3>1
    <3> QED
      BY <3>2 DEF Ratings
  <2> QED
    BY <1>7, <2>1
<1>9. [rk |-> list[i], rating |-> 2] \in ToSet(ratings)
  <2> HIDE DEF place, places
  <2>1. items[i] = list[i] /\ DOMAIN ratings = 1 .. Len(ratings)
    BY <1>1
  <2> QED
    BY <1>7, <1>8, <2>1 DEF ToSet
<1>10. i \in DOMAIN list /\ i <= ItemLimit
  BY <1>1, <1>4 DEF ItemLimit
<1> QED
  BY <1>9, <1>10

-----------------------------------------------------------------------------
(* Pooled connections.  The build lock and the second look under it make   *)
(* the cached pool the only one of its source until close() runs; with     *)
(* that, release() finds the pool a connection was taken from.             *)

PoolSpec == PoolInit /\ [][PoolNext]_poolVars

\* A client that is not idle has a source, and past the look-up a pool.
Placed ==
    \A c \in Clients :
        /\ at[c] # "idle" => source[c] \in Sources
        /\ at[c] \in {"acquiring", "using"} => from[c] \in Pools

\* A build goes on only for a source without a pool.
BuildsMissing == \A c \in Clients : at[c] = "building" => cached[source[c]] = None

Owned ==
    /\ \A s \in Sources : cached[s] # None => owner[cached[s]] = s
    /\ \A p \in Pools : state[p] = "unbuilt" => owner[p] = None

Bounded == \A p \in Pools : IsFiniteSet(lent[p]) /\ Cardinality(lent[p]) <= MaxSize

\* Until close() is called a pool once built stays the one of its source, and who
\* acquires from a pool acquires from that one.
BeforeClose ==
    closes = 0 =>
        /\ closing = {}
        /\ \A p \in Pools : owner[p] # None => cached[owner[p]] = p
        /\ \A c \in Clients : at[c] \in {"acquiring", "using"} => from[c] = cached[source[c]]

PoolsInv ==
    /\ PoolTypeOK /\ Placed
    /\ EveryOpenPoolIsKnown /\ BuildIsExclusive /\ BuildsMissing /\ Owned
    /\ Bounded /\ BeforeClose /\ NoLeak

USE ProviderAssumption DEF ProviderAssumption, ClientAt, PoolStates

LEMMA InitPools == PoolInit => PoolsInv
<1> SUFFICES ASSUME PoolInit PROVE PoolsInv
  OBVIOUS
<1> USE DEF PoolInit
<1>1. PoolTypeOK /\ Placed
  BY DEF PoolTypeOK, Placed
<1>2. EveryOpenPoolIsKnown /\ BuildIsExclusive /\ BuildsMissing /\ Owned
  BY DEF EveryOpenPoolIsKnown, BuildIsExclusive, BuildsMissing, Owned
<1>3. Bounded
  BY FS_EmptySet DEF Bounded
<1>4. BeforeClose /\ NoLeak
  BY DEF BeforeClose, NoLeak
<1> QED BY <1>1, <1>2, <1>3, <1>4 DEF PoolsInv

\* The steps before the driver is asked.
LEMMA AskPools ==
  ASSUME PoolsInv, NEW c \in Clients,
         (\E s \in Sources : Ask(c, s)) \/ Reject(c) \/ Look(c)
  PROVE  PoolsInv'
<1> USE DEF PoolsInv, Ask, Reject, Look, QueryOver, Goto, provider, pools, closeVars
<1>1. PoolTypeOK' /\ Placed'
  BY DEF PoolTypeOK, Placed
<1>2. EveryOpenPoolIsKnown'
  BY DEF EveryOpenPoolIsKnown
<1>3. BuildIsExclusive'
  BY DEF BuildIsExclusive, PoolTypeOK
<1>4. BuildsMissing' /\ Owned' /\ Bounded'
  BY DEF BuildsMissing, Owned, Bounded, PoolTypeOK
<1>5. BeforeClose'
  BY DEF BeforeClose, PoolTypeOK
<1>6. NoLeak'
  BY DEF NoLeak, PoolTypeOK
<1> QED BY <1>1, <1>2, <1>3, <1>4, <1>5, <1>6

LEMMA LockPools ==
  ASSUME PoolsInv, NEW c \in Clients, Lock(c)
  PROVE  PoolsInv'
<1> USE DEF PoolsInv, Lock, Goto, pools, closeVars
<1>0. source[c] \in Sources
  BY DEF Placed
<1>1. PoolTypeOK' /\ Placed'
  BY <1>0 DEF PoolTypeOK, Placed
<1>2. EveryOpenPoolIsKnown' /\ Owned' /\ Bounded'
  BY DEF EveryOpenPoolIsKnown, Owned, Bounded
<1>3. BuildIsExclusive'
  BY <1>0 DEF BuildIsExclusive, PoolTypeOK
<1>4. BuildsMissing'
  BY DEF BuildsMissing, PoolTypeOK
<1>5. BeforeClose'
  BY DEF BeforeClose, PoolTypeOK
<1>6. NoLeak'
  BY DEF NoLeak, PoolTypeOK
<1> QED BY <1>1, <1>2, <1>3, <1>4, <1>5, <1>6

LEMMA BuildPools ==
  ASSUME PoolsInv, NEW c \in Clients, Built(c) \/ BuildFails(c)
  PROVE  PoolsInv'
<1>0. source[c] \in Sources /\ cached[source[c]] = None /\ at[c] = "building"
  BY DEF PoolsInv, Placed, BuildsMissing, Built, BuildFails
<1>1. ASSUME NEW p \in Pools, state[p] = "unbuilt",
             state' = [state EXCEPT ![p] = "open"],
             owner' = [owner EXCEPT ![p] = source[c]],
             cached' = [cached EXCEPT ![source[c]] = p],
             from' = [from EXCEPT ![c] = p],
             Built(c)
      PROVE  PoolsInv'
  <2> USE <1>0, <1>1 DEF PoolsInv, Goto, closeVars
  <2>a. /\ lock' = [lock EXCEPT ![source[c]] = None]
        /\ at' = [at EXCEPT ![c] = "acquiring"]
        /\ UNCHANGED <<lent, source, closing, closes>>
    BY DEF Built
  <2> USE <2>a
  <2>1. PoolTypeOK' /\ Placed'
    BY DEF PoolTypeOK, Placed
  <2>2. owner[p] = None
    BY DEF Owned
  <2>3. EveryOpenPoolIsKnown'
    BY <2>2 DEF EveryOpenPoolIsKnown, PoolTypeOK
  <2>4. BuildIsExclusive'
    BY DEF BuildIsExclusive, PoolTypeOK
  <2>5. BuildsMissing'
    BY DEF BuildsMissing, BuildIsExclusive, PoolTypeOK
  <2>6. Owned'
    BY <2>2 DEF Owned, PoolTypeOK
  <2>7. Bounded'
    BY DEF Bounded
  <2>8. BeforeClose'
    <3>1. ASSUME closes = 0, NEW d \in Clients, d # c, at[d] \in {"acquiring", "using"}
          PROVE  source[d] # source[c]
      BY <3>1 DEF BeforeClose, Placed
    <3> QED BY <3>1, <2>2 DEF BeforeClose, PoolTypeOK, Placed
  <2>9. NoLeak'
    BY DEF NoLeak, PoolTypeOK
  <2> QED BY <2>1, <2>3, <2>4, <2>5, <2>6, <2>7, <2>8, <2>9
<1>2. CASE BuildFails(c)
  <2> USE <1>0, <1>2 DEF PoolsInv, BuildFails, QueryOver, Goto, pools, closeVars
  <2>1. PoolTypeOK' /\ Placed'
    BY DEF PoolTypeOK, Placed
  <2>2. EveryOpenPoolIsKnown' /\ Owned' /\ Bounded'
    BY DEF EveryOpenPoolIsKnown, Owned, Bounded
  <2>3. BuildIsExclusive'
    BY DEF BuildIsExclusive, PoolTypeOK
  <2>4. BuildsMissing' /\ BeforeClose' /\ NoLeak'
    BY DEF BuildsMissing, BeforeClose, NoLeak, PoolTypeOK
  <2> QED BY <2>1, <2>2, <2>3, <2>4
<1> QED BY <1>1, <1>2 DEF Built

\* The steps that lend a connection and give it back.
LEMMA LendPools ==
  ASSUME PoolsInv, NEW c \in Clients, Granted(c) \/ AcquireFails(c) \/ QueryEnds(c)
  PROVE  PoolsInv'
<1>0. /\ UNCHANGED <<cached, lock, state, owner, closing, closes>>
      /\ at[c] \in {"acquiring", "using"} /\ at'[c] \in {"idle", "using"}
      /\ \A d \in Clients \ {c} : at'[d] = at[d] /\ source'[d] = source[d] /\ from'[d] = from[d]
      /\ at'[c] = "using" => source'[c] = source[c] /\ from'[c] = from[c]
  BY DEF Granted, AcquireFails, QueryEnds, QueryOver, Goto, PoolsInv, PoolTypeOK, provider,
         pools, closeVars
<1>1. PoolTypeOK'
  BY DEF PoolsInv, Granted, AcquireFails, QueryEnds, QueryOver, Goto, Release, PoolTypeOK,
         provider, pools, closeVars
<1>2. Placed'
  BY <1>0 DEF PoolsInv, Placed
<1>3. EveryOpenPoolIsKnown' /\ Owned'
  BY <1>0 DEF PoolsInv, EveryOpenPoolIsKnown, Owned
<1>4. BuildIsExclusive' /\ BuildsMissing'
  BY <1>0 DEF PoolsInv, BuildIsExclusive, BuildsMissing
<1>5. Bounded'
  <2>1. CASE Granted(c)
    <3>1. ASSUME NEW p \in Pools PROVE IsFiniteSet(lent'[p]) /\ Cardinality(lent'[p]) <= MaxSize
      <4>1. CASE p = from[c]
        <5>1. lent'[p] = lent[p] \union {c} /\ IsFiniteSet(lent[p]) /\ Cardinality(lent[p]) < MaxSize
          BY <2>1, <4>1 DEF Granted, PoolsInv, PoolTypeOK, Bounded
        <5>2. /\ IsFiniteSet(lent[p] \union {c})
              /\ Cardinality(lent[p] \union {c}) \in {Cardinality(lent[p]), Cardinality(lent[p]) + 1}
          BY <5>1, FS_AddElement
        <5>3. Cardinality(lent[p]) \in Nat
          BY <5>1, FS_CardinalityType
        <5> QED BY <5>1, <5>2, <5>3
      <4>2. CASE p # from[c]
        BY <2>1, <4>2 DEF Granted, PoolsInv, PoolTypeOK, Bounded
      <4> QED BY <4>1, <4>2
    <3> QED BY <3>1 DEF Bounded
  <2>2. CASE AcquireFails(c)
    BY <2>2 DEF AcquireFails, PoolsInv, Bounded, pools
  <2>3. CASE QueryEnds(c)
    <3>1. ASSUME NEW p \in Pools PROVE IsFiniteSet(lent'[p]) /\ Cardinality(lent'[p]) <= MaxSize
      <4>1. lent'[p] \subseteq lent[p] /\ IsFiniteSet(lent[p]) /\ Cardinality(lent[p]) <= MaxSize
        BY <2>3 DEF QueryEnds, Release, PoolsInv, Bounded
      <4>2. IsFiniteSet(lent'[p]) /\ Cardinality(lent'[p]) <= Cardinality(lent[p])
        BY <4>1, FS_Subset
      <4>3. Cardinality(lent[p]) \in Nat /\ Cardinality(lent'[p]) \in Nat
        BY <4>1, <4>2, FS_CardinalityType
      <4> QED BY <4>1, <4>2, <4>3
    <3> QED BY <3>1 DEF Bounded
  <2> QED BY <2>1, <2>2, <2>3
<1>6. BeforeClose'
  BY <1>0 DEF PoolsInv, BeforeClose
<1>7. NoLeak'
  <2> SUFFICES ASSUME closes = 0, NEW p \in Pools, NEW d \in lent'[p]
               PROVE  at'[d] = "using" /\ from'[d] = p
    BY <1>0 DEF NoLeak
  <2>0. d \in Clients
    BY <1>1 DEF PoolTypeOK
  <2>1. CASE Granted(c)
    BY <2>0, <2>1 DEF Granted, Goto, PoolsInv, PoolTypeOK, NoLeak
  <2>2. CASE AcquireFails(c)
    BY <1>0, <2>0, <2>2 DEF AcquireFails, PoolsInv, NoLeak, pools
  <2>3. CASE QueryEnds(c)
    <3>1. d \in lent[p]
      BY <2>3 DEF QueryEnds, Release
    <3>2. at[d] = "using" /\ from[d] = p
      BY <3>1 DEF PoolsInv, NoLeak
    <3>3. d # c
      BY <2>3, <3>2 DEF QueryEnds, Release, PoolsInv, BeforeClose
    <3> QED BY <1>0, <2>0, <3>2, <3>3
  <2> QED BY <2>1, <2>2, <2>3
<1> QED BY <1>1, <1>2, <1>3, <1>4, <1>5, <1>6, <1>7 DEF PoolsInv
\* close() and the closing of one pool after the other.
LEMMA ClosePools ==
  ASSUME PoolsInv, Close
  PROVE  PoolsInv'
<1> USE DEF Close, clients
<1>1. CachedPools \subseteq Pools
  BY DEF PoolsInv, PoolTypeOK, CachedPools
<1>2. /\ closing' = CachedPools
      /\ \A p \in Pools : state'[p] = state[p] \/ (p \in CachedPools /\ state'[p] = "closing")
      /\ state' \in [Pools -> PoolStates]
  BY <1>1 DEF CloseNext, PoolsInv, PoolTypeOK
<1>3. closes' = closes + 1 /\ closes \in Nat /\ closes' \in 0..MaxCloses
  BY DEF PoolsInv, PoolTypeOK
<1>4. PoolTypeOK' /\ Placed'
  BY <1>1, <1>2, <1>3 DEF PoolsInv, PoolTypeOK, Placed
<1>5. EveryOpenPoolIsKnown'
  <2> SUFFICES ASSUME NEW p \in Pools, state'[p] = "open" PROVE p \in CachedPools
    BY <1>2 DEF EveryOpenPoolIsKnown
  <2>1. owner[p] # None /\ cached[owner[p]] = p
    BY <1>2 DEF PoolsInv, EveryOpenPoolIsKnown
  <2>2. owner[p] \in Sources
    BY <2>1 DEF PoolsInv, PoolTypeOK
  <2> QED BY <2>1, <2>2 DEF CachedPools
<1>6. BuildIsExclusive'
  BY DEF PoolsInv, BuildIsExclusive
<1>7. BuildsMissing'
  BY DEF PoolsInv, BuildsMissing, Placed
<1>8. Owned'
  BY <1>2 DEF PoolsInv, Owned
<1>9. Bounded'
  BY DEF PoolsInv, Bounded
<1>10. BeforeClose' /\ NoLeak'
  BY <1>3 DEF BeforeClose, NoLeak
<1> QED BY <1>4, <1>5, <1>6, <1>7, <1>8, <1>9, <1>10 DEF PoolsInv

LEMMA ClosedPools ==
  ASSUME PoolsInv, NEW p \in Pools, PoolCloses(p)
  PROVE  PoolsInv'
<1> USE DEF PoolCloses, provider, clients
<1>1. /\ closing' = closing \ {p} /\ closing # {}
      /\ \A q \in Pools : \/ state'[q] = state[q] /\ q # p
                          \/ q = p /\ state'[q] \in {"closed", "closing"}
                          \/ state'[q] = "closing"
      /\ state' \in [Pools -> PoolStates]
  BY DEF CloseNext, PoolsInv, PoolTypeOK
<1>2. PoolTypeOK' /\ Placed'
  BY <1>1 DEF PoolsInv, PoolTypeOK, Placed
<1>3. EveryOpenPoolIsKnown'
  BY <1>1 DEF PoolsInv, EveryOpenPoolIsKnown
<1>4. BuildIsExclusive' /\ BuildsMissing' /\ Bounded'
  BY DEF PoolsInv, BuildIsExclusive, BuildsMissing, Bounded
<1>5. Owned'
  BY <1>1 DEF PoolsInv, Owned
<1>6. BeforeClose' /\ NoLeak'
  BY <1>1 DEF PoolsInv, BeforeClose, NoLeak
<1> QED BY <1>2, <1>3, <1>4, <1>5, <1>6 DEF PoolsInv

LEMMA NextPools == PoolsInv /\ [PoolNext]_poolVars => PoolsInv'
<1> SUFFICES ASSUME PoolsInv, [PoolNext]_poolVars PROVE PoolsInv'
  OBVIOUS
<1>1. ASSUME NEW c \in Clients, (\E s \in Sources : Ask(c, s)) \/ Lock(c) \/ Query(c)
      PROVE  PoolsInv'
  BY <1>1, AskPools, LockPools, BuildPools, LendPools DEF Query
<1>2. CASE Close
  BY <1>2, ClosePools
<1>3. CASE CloseStep
  BY <1>3, ClosedPools DEF CloseStep
<1>4. CASE UNCHANGED poolVars
  <2> USE <1>4 DEF poolVars, provider, pools, clients, closeVars, PoolsInv
  <2>1. PoolTypeOK' /\ Placed' /\ EveryOpenPoolIsKnown' /\ BuildIsExclusive'
    BY DEF PoolTypeOK, Placed, EveryOpenPoolIsKnown, BuildIsExclusive
  <2>2. BuildsMissing' /\ Owned' /\ Bounded' /\ BeforeClose' /\ NoLeak'
    BY DEF BuildsMissing, Owned, Bounded, BeforeClose, NoLeak
  <2> QED BY <2>1, <2>2
<1> QED BY <1>1, <1>2, <1>3, <1>4 DEF PoolNext

LEMMA PoolsAlways == PoolSpec => []PoolsInv
  BY InitPools, NextPools, PTL DEF PoolSpec

\* Before close() the connections of a source are those of its one pool.
LEMMA OnePoolOfASource ==
  ASSUME PoolsInv, closes = 0, NEW s \in Sources
  PROVE  Cardinality(Connections(s)) <= MaxSize
<1>1. CASE cached[s] = None
  <2>1. Connections(s) = {}
    BY <1>1 DEF Connections, PoolsInv, BeforeClose
  <2> QED BY <2>1, FS_EmptySet
<1>2. CASE cached[s] # None
  <2>1. cached[s] \in Pools /\ owner[cached[s]] = s
    BY <1>2 DEF PoolsInv, PoolTypeOK, Owned
  <2>2. \A p \in Pools : owner[p] = s => p = cached[s]
    BY DEF PoolsInv, BeforeClose
  <2>3. Connections(s) = lent[cached[s]]
    BY <2>1, <2>2 DEF Connections, PoolsInv, PoolTypeOK
  <2> QED BY <2>1, <2>3 DEF PoolsInv, Bounded
<1> QED BY <1>1, <1>2

-----------------------------------------------------------------------------
(***************************************************************************)
(* No open pool escapes the cache and the running close(), one build of a  *)
(* source runs at a time, and until close() is called max_size bounds the  *)
(* connections of a source (PooledConnectionProvider._get_or_build_pool,   *)
(* close, AsyncpgPool.acquire).                                            *)
(***************************************************************************)
THEOREM PoolsAreKnown == PoolSpec => []PoolInv
<1>1. PoolsInv => PoolInv
  BY OnePoolOfASource DEF PoolsInv, PoolInv, SourceWithinMaxSize
<1> QED BY <1>1, PoolsAlways, PTL

(***************************************************************************)
(* Until close() is called a connection is lent only to a query that is    *)
(* using it: release() finds the pool it came from, although it looks it   *)
(* up by source (PooledConnectionProvider.release, Router.execute).        *)
(***************************************************************************)
THEOREM ConnectionsComeBack == PoolSpec => []NoLeak
<1>1. PoolsInv => NoLeak
  BY DEF PoolsInv
<1> QED BY <1>1, PoolsAlways, PTL
=============================================================================
