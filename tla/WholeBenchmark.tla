--------------------------- MODULE WholeBenchmark ---------------------------
(***************************************************************************)
(* What a member promises about whole benchmarks, without messages,        *)
(* retries, processes or failures: it takes on a benchmark by committing to*)
(* one payload, computes each nonce once, delivers all of them as one      *)
(* result, opens the sampled nonces of that result, and closes the         *)
(* benchmark, each at most once and in this order.  It works on one        *)
(* benchmark at a time, and keeps it until the pool has concluded it.      *)
(***************************************************************************)
EXTENDS Naturals

CONSTANTS Benchmarks, Nonces, Leaves, Payloads, None

VARIABLES
    contract,   \* the payload the member committed to, or None
    evidence,   \* the output it has of each nonce, or None
    delivered,  \* the result it delivered: an output of every nonce
    opened,     \* the outputs it revealed
    concluded,  \* benchmarks the pool is done with
    closed      \* benchmarks whose slot the member has freed

contractVars == <<contract, evidence, delivered, opened, concluded, closed>>

Nothing == [n \in Nonces |-> None]
Full == [Nonces -> Leaves]

Init ==
    /\ contract = [b \in Benchmarks |-> None]
    /\ evidence = [b \in Benchmarks |-> Nothing]
    /\ delivered = [b \in Benchmarks |-> Nothing]
    /\ opened = [b \in Benchmarks |-> Nothing]
    /\ concluded = {} /\ closed = {}

\* The benchmark the member works on is open until it is closed.
TakeOn(b, p) ==
    /\ contract[b] = None /\ b \notin closed
    /\ \A c \in Benchmarks : contract[c] # None => c \in closed
    /\ contract' = [contract EXCEPT ![b] = p]
    /\ UNCHANGED <<evidence, delivered, opened, concluded, closed>>

Compute(b, n, leaf) ==
    /\ contract[b] # None /\ b \notin closed
    /\ evidence[b][n] = None
    /\ evidence' = [evidence EXCEPT ![b][n] = leaf]
    /\ UNCHANGED <<contract, delivered, opened, concluded, closed>>

Deliver(b) ==
    /\ delivered[b] = Nothing /\ b \notin closed
    /\ evidence[b] \in Full
    /\ delivered' = [delivered EXCEPT ![b] = evidence[b]]
    /\ UNCHANGED <<contract, evidence, opened, concluded, closed>>

Reveal(b, sampled) ==
    /\ opened[b] = Nothing /\ b \notin closed
    /\ delivered[b] # Nothing /\ sampled # {}
    /\ opened' = [opened EXCEPT ![b] =
                    [n \in Nonces |-> IF n \in sampled THEN delivered[b][n] ELSE None]]
    /\ UNCHANGED <<contract, evidence, delivered, concluded, closed>>

\* The pool's decision, at any stage.
Conclude(b) ==
    /\ b \notin concluded
    /\ concluded' = concluded \cup {b}
    /\ UNCHANGED <<contract, evidence, delivered, opened, closed>>

\* Also a benchmark that was never taken on.
Close(b) ==
    /\ b \in concluded /\ b \notin closed
    /\ closed' = closed \cup {b}
    /\ UNCHANGED <<contract, evidence, delivered, opened, concluded>>

Next ==
    \E b \in Benchmarks :
        \/ \E p \in Payloads : TakeOn(b, p)
        \/ \E n \in Nonces, leaf \in Leaves : Compute(b, n, leaf)
        \/ Deliver(b)
        \/ \E sampled \in SUBSET Nonces : Reveal(b, sampled)
        \/ Conclude(b)
        \/ Close(b)

Spec == Init /\ [][Next]_contractVars
=============================================================================
