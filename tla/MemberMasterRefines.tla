------------------------- MODULE MemberMasterRefines -------------------------
(***************************************************************************)
(* Master, session and helper implement the two stores of SharedBenchmark: *)
(* whatever lies between them, a benchmark changes only by the steps that  *)
(* commit to one of the databases, or in which the pool decides.           *)
(***************************************************************************)
EXTENDS MemberMasterProperties

\* How far a benchmark is, in the words of the abstract specification.
PhaseOf(b) ==
    CASE stage[b] \in {"offered", "saved"} -> "taken"
      [] stage[b] = "finished" -> "closed"
      [] OTHER -> stage[b]
Phase == [b \in Benchmarks |-> PhaseOf(b)]
Given == [b \in Benchmarks |->
            IF assignments[b].acknowledged THEN assignments[b].payload ELSE None]

Shared == INSTANCE SharedBenchmark WITH
    OwnWorkers <- LocalWorkers > 0,
    phase <- Phase, given <- Given, there <- nonces, here <- outputs

\* Broken and replaced sessions, crashes, kills, timeouts and failures of Docker
\* change none of it: the helper gets the payload that was handed over and no
\* other, each store keeps the first output, a coordinator has its helper's, and
\* one benchmark is open at a time, until the pool is done with it
\* (fleet.py:94-158, helper.py:63-93, runner.py:37-148).
ImplementsSharedBenchmark == Shared!Spec

-----------------------------------------------------------------------------
(* What the refinement needs beside FleetInv and HelperHasIt.              *)

\* The open benchmark is the one of the open request, and the pool is done with
\* what is released.
RowIsOpen ==
    /\ \A b \in Benchmarks : stage[b] \in {"offered", "saved", "owned"} <=> row = b
    /\ main = "offer" => row = None
    /\ main = "release" => row \in over

\* The helper is asked to prepare the master's payload and has no other.
PayloadIsOurs ==
    /\ \A m \in Requests : m.op = "prepare" => m.digest = PayloadOf[m.bench]
    /\ \A b \in Benchmarks :
          assignments[b].acknowledged => assignments[b].payload = PayloadOf[b]
=============================================================================
