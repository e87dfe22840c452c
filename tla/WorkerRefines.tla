---------------------------- MODULE WorkerRefines ---------------------------
(***************************************************************************)
(* The worker with its pool implements the abstract contract of            *)
(* WholeBenchmark.  The contract is committed when the handover is durable *)
(* at the member, the result counts as delivered when the pool has it.     *)
(* A benchmark is closed when the row of its request is finished.          *)
(***************************************************************************)
EXTENDS WorkerProperties

\* The mapping, variable by variable of the contract.
Committed ==
    [b \in Benchmarks |-> IF assignments[b].acknowledged THEN assignments[b].payload ELSE None]
Results == [b \in Benchmarks |-> poolBenchmarks[b].result]
Openings == [b \in Benchmarks |-> poolBenchmarks[b].proofs]
ConcludedBenchmarks == {b \in Benchmarks : Concluded(b)}
ClosedBenchmarks ==
    {b \in Benchmarks : \E k \in Keys :
        requests[k].state = "finished" /\ requests[k].bench = b}

Contract == INSTANCE WholeBenchmark WITH
    contract <- Committed, evidence <- nonces, delivered <- Results, opened <- Openings,
    concluded <- ConcludedBenchmarks, closed <- ClosedBenchmarks

\* Through lost replies, failed calls, crashes and restarts the member takes on
\* one benchmark at a time and moves it through the stages of the contract, each
\* at most once and in order (Runner.step as a whole, runner.py:37-148).
ImplementsWholeBenchmark == Contract!Spec
=============================================================================
