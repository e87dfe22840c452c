------------------------------ MODULE MCWorker ------------------------------
(* Small instances of Worker for TLC. *)
EXTENDS WorkerRefines, TLC

\* Neither Worker nor a safety property of it tells benchmarks apart.
BenchmarkSymmetry == Permutations(Benchmarks)
=============================================================================
