--------------------------- MODULE SharedBenchmark ---------------------------
(***************************************************************************)
(* What a master and its helper do together for whole benchmarks, without  *)
(* messages, sessions, threads or processes: two stores.  The helper is    *)
(* given exactly the payload the master has for a benchmark whose handover *)
(* is confirmed; each of them keeps the first output it has of a nonce;    *)
(* what the master has from the helper is what the helper has; and a       *)
(* benchmark is closed only when the pool is done with it.                 *)
(***************************************************************************)
CONSTANTS
    Benchmarks, Nonces, Leaves, None,
    PayloadOf,  \* the master's payload of each benchmark
    OwnWorkers  \* the master has workers of its own

VARIABLES
    phase,      \* of each benchmark at the master
    given,      \* the payload the helper has of it, or None
    there,      \* the helper's outputs
    here,       \* the master's outputs
    over        \* benchmarks the pool is done with

sharedVars == <<phase, given, there, here, over>>

Empty == [b \in Benchmarks |-> [n \in Nonces |-> None]]
Open == {b \in Benchmarks : phase[b] \in {"taken", "owned"}}

Init ==
    /\ phase = [b \in Benchmarks |-> "new"] /\ given = [b \in Benchmarks |-> None]
    /\ there = Empty /\ here = Empty /\ over = {}

Take(b) ==
    /\ Open = {} /\ phase[b] = "new"
    /\ phase' = [phase EXCEPT ![b] = "taken"]
    /\ UNCHANGED <<given, there, here, over>>

HandOver(b) ==
    /\ phase[b] = "taken"
    /\ phase' = [phase EXCEPT ![b] = "owned"]
    /\ UNCHANGED <<given, there, here, over>>

\* The helper may take it while the master has closed the benchmark already.
Give(b) ==
    /\ phase[b] \in {"owned", "closed"} /\ given[b] = None
    /\ given' = [given EXCEPT ![b] = PayloadOf[b]]
    /\ UNCHANGED <<phase, there, here, over>>

ComputeThere(b, n, leaf) ==
    /\ given[b] # None /\ there[b][n] = None
    /\ there' = [there EXCEPT ![b][n] = leaf]
    /\ UNCHANGED <<phase, given, here, over>>

\* The helper's output, or one of the master's own workers.
Keep(b, n, leaf) ==
    /\ phase[b] = "owned" /\ here[b][n] = None
    /\ leaf = there[b][n] \/ OwnWorkers
    /\ here' = [here EXCEPT ![b][n] = leaf]
    /\ UNCHANGED <<phase, given, there, over>>

Conclude(b) ==
    /\ b \in Open /\ over' = over \cup {b}
    /\ UNCHANGED <<phase, given, there, here>>

Close(b) ==
    /\ b \in Open /\ b \in over
    /\ phase' = [phase EXCEPT ![b] = "closed"]
    /\ UNCHANGED <<given, there, here, over>>

Next ==
    \E b \in Benchmarks :
        \/ Take(b) \/ HandOver(b) \/ Give(b) \/ Conclude(b) \/ Close(b)
        \/ \E n \in Nonces, leaf \in Leaves : ComputeThere(b, n, leaf) \/ Keep(b, n, leaf)

Spec == Init /\ [][Next]_sharedVars
=============================================================================
