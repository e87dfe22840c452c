-------------------------------- MODULE Pool --------------------------------
(***************************************************************************)
(* The community pool, which is not part of this repository: what          *)
(* worker_v2/runner.py and the pool of tests/v2/test_worker.py use of it.  *)
(* Where the two leave a choice the model takes the weaker pool: it hands  *)
(* over whatever payload it currently offers and reports that payload's    *)
(* digest, without checking the digest it was sent.                        *)
(***************************************************************************)
EXTENDS EvidenceStore

CONSTANTS
    MaxRequests,  \* bound: how many work requests the worker may ever create
    Releases,     \* published releases, named by their runtime images; None stands for
                  \* capabilities without a release_digest
    Outcomes      \* the terminal states this instance lets the pool reach

\* request_key values; a key's number is its rowid in the requests table.
Keys == 1 .. MaxRequests

ASSUME MaxRequestsAssumption == MaxRequests \in Nat \ {0}
ASSUME OutcomesAssumption == Outcomes \subseteq TERMINAL /\ "expired" \in Outcomes

VARIABLES
    poolRequests,    \* the pool's row of each work request
    poolBenchmarks,  \* the pool's row of each benchmark
    workEnabled,     \* capabilities["work_enabled"]
    poolRelease      \* GET /api/v2/release and the digest in the capabilities

poolVars == <<poolRequests, poolBenchmarks, workEnabled, poolRelease>>

PoolRequest == [state : {"unknown", "queued", "assigned"} \cup TERMINAL,
                bench : Benchmarks \cup {None}, fresh : BOOLEAN]

PoolBenchmark == [state : {"free", "accepted"} \cup TERMINAL,
                  payload : Payloads, handed : Payloads \cup {None},
                  result : [Nonces -> Leaves \cup {None}],
                  sample : SUBSET Nonces,
                  proofs : [Nonces -> Leaves \cup {None}]]

PoolTypeOK ==
    /\ poolRequests \in [Keys -> PoolRequest]
    /\ poolBenchmarks \in [Benchmarks -> PoolBenchmark]
    /\ workEnabled \in BOOLEAN
    /\ poolRelease \in Releases

PoolInit ==
    /\ poolRequests = [k \in Keys |-> [state |-> "unknown", bench |-> None, fresh |-> FALSE]]
    /\ \E p \in Payloads : poolBenchmarks =
           [b \in Benchmarks |-> [state |-> "free", payload |-> p, handed |-> None,
                                  result |-> Blank, sample |-> {}, proofs |-> Blank]]
    /\ workEnabled \in BOOLEAN
    /\ poolRelease \in Releases

Concluded(b) == poolBenchmarks[b].state \in TERMINAL

-----------------------------------------------------------------------------
(* What a call of the worker does at the pool.                             *)

\* POST /work-requests: idempotent in the request key.
Receive(k) ==
    /\ poolRequests' = IF poolRequests[k].state = "unknown"
                       THEN [poolRequests EXCEPT ![k] = [@ EXCEPT !.state = "queued", !.fresh = TRUE]]
                       ELSE poolRequests
    /\ UNCHANGED <<poolBenchmarks, workEnabled, poolRelease>>

\* POST /work-requests/<id>/refresh: a queued offer is kept alive.
Refresh(k) ==
    /\ poolRequests' = IF poolRequests[k].state = "queued"
                       THEN [poolRequests EXCEPT ![k].fresh = TRUE]
                       ELSE poolRequests
    /\ UNCHANGED <<poolBenchmarks, workEnabled, poolRelease>>

\* POST /benchmarks/<id>/acknowledge: durable handover, committed once.
HandedAfter(b) == IF poolBenchmarks[b].handed = None THEN poolBenchmarks[b].payload
                                                     ELSE poolBenchmarks[b].handed
HandOver(b) ==
    /\ poolBenchmarks' = [poolBenchmarks EXCEPT ![b].handed = HandedAfter(b)]
    /\ UNCHANGED <<poolRequests, workEnabled, poolRelease>>

\* POST /benchmarks/<id>/results and /proofs: a changed repetition is rejected.
StoreResult(b, result) ==
    /\ poolBenchmarks[b].handed # None
    /\ poolBenchmarks[b].result \in {Blank, result}
    /\ poolBenchmarks' = [poolBenchmarks EXCEPT ![b].result = result]
    /\ UNCHANGED <<poolRequests, workEnabled, poolRelease>>

StoreProofs(b, proofs) ==
    /\ poolBenchmarks[b].result # Blank
    /\ poolBenchmarks[b].proofs \in {Blank, proofs}
    /\ poolBenchmarks' = [poolBenchmarks EXCEPT ![b].proofs = proofs]
    /\ UNCHANGED <<poolRequests, workEnabled, poolRelease>>

-----------------------------------------------------------------------------
(* What the pool does by itself.                                           *)

Assign(k, b) ==
    /\ poolRequests[k].state = "queued" /\ poolRequests[k].fresh
    /\ poolBenchmarks[b].state = "free"
    /\ poolRequests' = [poolRequests EXCEPT ![k] = [state |-> "assigned", bench |-> b, fresh |-> FALSE]]
    /\ poolBenchmarks' = [poolBenchmarks EXCEPT ![b].state = "accepted"]
    /\ UNCHANGED <<workEnabled, poolRelease>>

\* Without a refresh a queued offer goes stale, and a stale offer expires.
Age(k) ==
    /\ poolRequests[k].state = "queued" /\ poolRequests[k].fresh
    /\ poolRequests' = [poolRequests EXCEPT ![k].fresh = FALSE]
    /\ UNCHANGED <<poolBenchmarks, workEnabled, poolRelease>>

Expire(k) ==
    /\ poolRequests[k].state = "queued" /\ ~poolRequests[k].fresh
    /\ poolRequests' = [poolRequests EXCEPT ![k].state = "expired"]
    /\ UNCHANGED <<poolBenchmarks, workEnabled, poolRelease>>

\* A request that got its benchmark may be closed while the benchmark goes on.
CloseAssigned(k) ==
    /\ poolRequests[k].state = "assigned"
    /\ poolRequests' = [poolRequests EXCEPT ![k].state = "expired"]
    /\ UNCHANGED <<poolBenchmarks, workEnabled, poolRelease>>

\* Before the handover the offered payload may still change.
Reissue(b, p) ==
    /\ poolBenchmarks[b].state = "accepted" /\ poolBenchmarks[b].handed = None
    /\ poolBenchmarks[b].payload # p
    /\ poolBenchmarks' = [poolBenchmarks EXCEPT ![b].payload = p]
    /\ UNCHANGED <<poolRequests, workEnabled, poolRelease>>

Sample(b, sampled) ==
    /\ poolBenchmarks[b].state = "accepted"
    /\ poolBenchmarks[b].result # Blank
    /\ poolBenchmarks[b].sample = {} /\ sampled # {}
    /\ poolBenchmarks' = [poolBenchmarks EXCEPT ![b].sample = sampled]
    /\ UNCHANGED <<poolRequests, workEnabled, poolRelease>>

Conclude(b, outcome) ==
    /\ poolBenchmarks[b].state = "accepted"
    /\ outcome = "active" => poolBenchmarks[b].proofs # Blank
    /\ outcome = "verification_failed" => poolBenchmarks[b].result # Blank
    /\ poolBenchmarks' = [poolBenchmarks EXCEPT ![b].state = outcome]
    /\ UNCHANGED <<poolRequests, workEnabled, poolRelease>>

ToggleEnabled ==
    /\ workEnabled' = ~workEnabled
    /\ UNCHANGED <<poolRequests, poolBenchmarks, poolRelease>>

ChangeRelease(r) ==
    /\ poolRelease # r /\ poolRelease' = r
    /\ UNCHANGED <<poolRequests, poolBenchmarks, workEnabled>>

PoolStep ==
    \/ \E k \in Keys, b \in Benchmarks : Assign(k, b)
    \/ \E k \in Keys : Age(k)
    \/ \E k \in Keys : Expire(k)
    \/ \E k \in Keys : CloseAssigned(k)
    \/ \E b \in Benchmarks, p \in Payloads : Reissue(b, p)
    \/ \E b \in Benchmarks, sampled \in SUBSET Nonces : Sample(b, sampled)
    \/ \E b \in Benchmarks, outcome \in Outcomes : Conclude(b, outcome)
    \/ ToggleEnabled
    \/ \E r \in Releases : ChangeRelease(r)
=============================================================================
