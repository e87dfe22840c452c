---------------------------- MODULE EvidenceStore ----------------------------
(***************************************************************************)
(* The two evidence tables of worker_v2/state.py (class Store): the        *)
(* "assignments" table and the "nonces" table.  The master's Runner and a  *)
(* member's Helper each own one such database; both modules extend this    *)
(* one.  Each operator below is one committed SQLite transaction: its      *)
(* conjuncts without a prime are the StateErrors that abort it.            *)
(*                                                                         *)
(* Data abstraction.  A payload stands for the exact serialized assignment *)
(* together with its digest, so "same digest" is "same payload"; a leaf    *)
(* stands for the pair (canonical leaf, quality) a nonce produced.         *)
(***************************************************************************)
EXTENDS Naturals, FiniteSets

CONSTANTS
    Benchmarks,   \* benchmark identifiers
    NumNonces,    \* assignment["num_nonces"], the same for every benchmark
    Leaves,       \* possible outputs of one nonce
    Payloads,     \* possible assignment payloads of one benchmark
    None          \* SQL NULL, Python None, JSON null

ASSUME NumNoncesAssumption == NumNonces \in Nat \ {0}
ASSUME NoneAssumption == None \notin Benchmarks \cup Leaves \cup Payloads

Nonces == 0 .. (NumNonces - 1)

ASSUME NonceAssumption == None \notin Nonces

\* The states in which the pool is done with a benchmark or a request.
TERMINAL == {"active", "verification_failed", "expired", "rejected", "cancelled"}

VARIABLES
    assignments,  \* the assignments table, a row per benchmark
    nonces        \* the nonces table: the saved leaf of each nonce, or None

evidenceVars == <<assignments, nonces>>

\* No output for any nonce.
Blank == [n \in Nonces |-> None]

\* payload = None stands for a row that does not exist.
NoRow == [payload |-> None, acknowledged |-> FALSE, resultSent |-> FALSE,
          proofsSent |-> {}, terminal |-> None]

AssignmentRow == [payload : Payloads \cup {None}, acknowledged : BOOLEAN,
                  resultSent : BOOLEAN, proofsSent : SUBSET Nonces,
                  terminal : TERMINAL \cup {None}]

StoreTypeOK ==
    /\ assignments \in [Benchmarks -> AssignmentRow]
    /\ nonces \in [Benchmarks -> [Nonces -> Leaves \cup {None}]]

StoreInit ==
    /\ assignments = [b \in Benchmarks |-> NoRow]
    /\ nonces = [b \in Benchmarks |-> Blank]

-----------------------------------------------------------------------------
\* Seeded fault: a new payload replaces the saved one.
ReplaceAssignment(b, p) ==
    assignments' = [assignments EXCEPT ![b].payload = p]

\* Store.save_assignment: the first payload saved for a benchmark is immutable.
SaveAssignment(b, p) ==
    /\ assignments[b].payload \in {None, p}
    /\ assignments' = [assignments EXCEPT ![b].payload = p]

\* Store.acknowledge: the pool's handover timestamp becomes durable.
Acknowledge(b) ==
    /\ assignments[b].payload # None
    /\ assignments' = [assignments EXCEPT ![b].acknowledged = TRUE]

\* Store.save_nonce: only after handover, and a saved leaf is immutable.
SaveNonce(b, n, leaf) ==
    /\ assignments[b].acknowledged
    /\ nonces[b][n] \in {None, leaf}
    /\ nonces' = [nonces EXCEPT ![b][n] = leaf]

\* Store.result_sent and Store.proofs_sent.  The digest of the proofs sent is
\* abstracted to the set of nonces they open: the leaves are immutable.
MarkResultSent(b) ==
    assignments' = [assignments EXCEPT ![b].resultSent = TRUE]

MarkProofsSent(b, sampled) ==
    assignments' = [assignments EXCEPT ![b].proofsSent = sampled]

\* The nonces Runner.step still has to compute.
Missing(b) == {n \in Nonces : nonces[b][n] = None}

\* BenchmarkTree.proofs: the saved leaves of exactly the sampled nonces.
Opening(b, sampled) == [n \in Nonces |-> IF n \in sampled THEN nonces[b][n] ELSE None]
=============================================================================
