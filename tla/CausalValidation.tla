-------------------------- MODULE CausalValidation --------------------------
(***************************************************************************)
(* The life of a causal candidate: proposed by enrichment, decided by a    *)
(* pass of CausalValidator.run_once or by an operator.  A pass lists the   *)
(* proposed candidates, tests each on sampled data, and commits all its    *)
(* decisions in the session it listed them in; it takes minutes, and more  *)
(* than one may be under way.                                              *)
(***************************************************************************)
EXTENDS Naturals, FiniteSets

CONSTANTS Candidate,    \* the natural keys a candidate may have
          ShapeOf,      \* [Candidate -> Shapes]: what its two references name
          Validators,   \* passes that may be under way
          Limit,        \* candidates a pass lists at most
          MinAlgorithms \* algorithms that must agree on a direction

VARIABLES stored,   \* the candidates with a row
          status,   \* [Candidate -> CandidateStatuses]
          pass,     \* [Validators -> what the pass has listed]
          exposed   \* history: candidates promoted while a pass had them listed

validationVars == <<stored, status, pass, exposed>>

Shapes == {"node", "cross", "asset", "columns"}
Decisions == {"validated", "rejected", "inconclusive"}
CandidateStatuses == Decisions \union {"proposed", "promoted_to_claim"}
NoPass == [listing |-> FALSE, listed |-> {}]

ASSUME ValidationAssumption ==
  /\ ShapeOf \in [Candidate -> Shapes]
  /\ Limit \in Nat \ {0} /\ MinAlgorithms \in Nat \ {0}

ValidationTypeOK ==
  /\ stored \subseteq Candidate
  /\ status \in [Candidate -> CandidateStatuses]
  /\ pass \in [Validators -> [listing : BOOLEAN, listed : SUBSET Candidate]]
  /\ exposed \subseteq Candidate

ValidationInit ==
  /\ stored = {}
  /\ status = [c \in Candidate |-> "proposed"]
  /\ pass = [v \in Validators |-> NoPass]
  /\ exposed = {}

-----------------------------------------------------------------------------
(* The decision about one candidate. *)

\* What the test suite may find: Granger tests the proposed direction only, PC
\* gives the parents it sees, either test may fail and give nothing.
Findings == [granger : SUBSET {"forward"}, PC : SUBSET {"forward", "reverse"}]

\* edge_consensus: the directions that enough algorithms report.
Consensus(f) ==
  {d \in {"forward", "reverse"} :
     Cardinality({a \in DOMAIN f : d \in f[a]}) >= MinAlgorithms}

\* The end of _validate_one, for a sample that is large enough.
Verdict(f) ==
  IF \A a \in DOMAIN f : f[a] = {} THEN "rejected"
  ELSE IF "forward" \in Consensus(f) THEN "validated"
  ELSE IF "reverse" \in Consensus(f) THEN "rejected" ELSE "inconclusive"

\* _validate_one and the handler around it: only two columns of one asset are
\* tested; a sampler that fails, a small sample and an exception leave the
\* candidate inconclusive.
DecisionsOf(c) ==
  {"inconclusive"} \union
    (IF ShapeOf[c] = "columns" THEN {Verdict(f) : f \in Findings} ELSE {})

-----------------------------------------------------------------------------
(* The sessions that touch a candidate. *)

\* Mutant of Propose: the row of a candidate found again starts over.
ProposeAfresh(found) ==
  /\ stored' = stored \union found
  /\ status' = [c \in Candidate |-> IF c \in found THEN "proposed" ELSE status[c]]
  /\ UNCHANGED <<pass, exposed>>

\* upsert_causal_candidate: a row that exists keeps its status.
Propose(found) == stored' = stored \union found /\ UNCHANGED <<status, pass, exposed>>

Proposed == {c \in stored : status[c] = "proposed"}

\* The oldest proposed candidates, as many as the limit allows.  Ages are left
\* out: which are the oldest is any choice.
ListPending(v) ==
  /\ ~pass[v].listing
  /\ \E batch \in SUBSET Proposed :
       /\ Cardinality(batch) <= Limit
       /\ batch = Proposed \/ Cardinality(batch) = Limit
       /\ pass' = [pass EXCEPT ![v] = [listing |-> TRUE, listed |-> batch]]
  /\ UNCHANGED <<stored, status, exposed>>

\* Every listed candidate is tested and gets its decision in one commit.  The
\* session holds the rows as it listed them and does not look again.
Decide(v) ==
  /\ pass[v].listing
  /\ \E d \in [pass[v].listed -> UNION {DecisionsOf(c) : c \in pass[v].listed}] :
       /\ \A c \in DOMAIN d : d[c] \in DecisionsOf(c)
       /\ status' = [c \in Candidate |-> IF c \in DOMAIN d THEN d[c] ELSE status[c]]
  /\ pass' = [pass EXCEPT ![v] = NoPass]
  /\ UNCHANGED <<stored, exposed>>

\* The sampler's connection, the commit or the process fails: nothing of the
\* pass is kept.
LoseTest(v) ==
  /\ pass[v].listing
  /\ pass' = [pass EXCEPT ![v] = NoPass]
  /\ UNCHANGED <<stored, status, exposed>>

\* An operator promotes a candidate to a claim.
Promote(c) ==
  /\ c \in stored /\ status[c] # "promoted_to_claim"
  /\ status' = [status EXCEPT ![c] = "promoted_to_claim"]
  /\ exposed' = IF \E v \in Validators : c \in pass[v].listed
                THEN exposed \union {c} ELSE exposed
  /\ UNCHANGED <<stored, pass>>

ValidationNext ==
  \/ \E found \in SUBSET Candidate : Propose(found)
  \/ \E v \in Validators : ListPending(v) \/ Decide(v) \/ LoseTest(v)
  \/ \E c \in Candidate : Promote(c)

\* Passes are started again and again, and not every one of them fails.
ValidationFairness ==
  \A v \in Validators : WF_validationVars(ListPending(v)) /\ SF_validationVars(Decide(v))

-----------------------------------------------------------------------------
(* Properties. *)

\* A candidate is validated only when it names two columns of one asset, the
\* only ones _validate_one tests, unless an operator promoted it.
OnlyTestedAreDecided ==
  \A c \in Candidate : status[c] \in {"validated", "rejected"} => ShapeOf[c] = "columns"

\* A candidate that was decided is never proposed again, however often
\* enrichment finds it (upsert_causal_candidate keeps the status).
NeverProposedAgain ==
  [][\A c \in Candidate : status[c] # "proposed" => status'[c] # "proposed"]_validationVars

\* What an operator promoted stays promoted, unless a pass had listed the
\* candidate before (list_pending_causal_candidates selects the proposed rows,
\* and the session that lists them decides): later passes do not revisit it.
PromotionStands ==
  [][\A c \in Candidate \ exposed :
       status[c] = "promoted_to_claim" => status'[c] = "promoted_to_claim"]_validationVars

\* Every candidate is decided in the end: no candidate that cannot be tested
\* fills the batches of the passes for ever (each one listed gets a decision).
EveryCandidateDecided ==
  \A c \in Candidate : c \in stored ~> status[c] # "proposed"

\* Decisions are not undone: neither by enrichment nor by later passes
\* (upsert_causal_candidate, list_pending_causal_candidates).
DecisionsStand == NeverProposedAgain /\ PromotionStands
=============================================================================
