-------------------------- MODULE WorkerProperties --------------------------
(***************************************************************************)
(* What the worker of module Worker promises its member and the pool.      *)
(***************************************************************************)
EXTENDS Worker

Owned(b) == assignments[b].acknowledged

\* A benchmark the process computes for, or a nonce it has saved.
ComputesFor(b) == step.bench = b /\ \E n \in Nonces : futures[n] # "idle"
HasEvidence(b) == \E n \in Nonces : nonces[b][n] # None

\* No computation starts and no output is saved before the pool has durably
\* handed over exactly the payload that is saved here (runner.py:82-94): a lost
\* acknowledgement, a reissued payload and a restart cannot make the worker
\* compute for an assignment that is not its own.
EvidenceMatchesHandover ==
    \A b \in Benchmarks : ComputesFor(b) \/ HasEvidence(b) =>
        /\ Owned(b)
        /\ poolBenchmarks[b].handed # None
        /\ poolBenchmarks[b].handed = assignments[b].payload

\* Whatever result the pool holds is the saved output of every nonce, for ever:
\* retries, recomputation after crashes and finishing the request never make
\* the member's evidence differ from what it delivered (runner.py:95-133,
\* state.py:158-164).
EvidenceRetained ==
    \A b \in Benchmarks : poolBenchmarks[b].result # Blank =>
        poolBenchmarks[b].result = nonces[b]

\* The proofs at the pool open exactly the sampled nonces of the delivered
\* result (runner.py:139-147).
ProofsOpenTheResult ==
    \A b \in Benchmarks : poolBenchmarks[b].proofs # Blank =>
        \A n \in Nonces : poolBenchmarks[b].proofs[n] =
            IF n \in poolBenchmarks[b].sample THEN poolBenchmarks[b].result[n] ELSE None

\* A request at the pool that may still bring or hold a benchmark.
Live(k) ==
    IF poolRequests[k].bench = None THEN poolRequests[k].state = "queued"
    ELSE ~Concluded(poolRequests[k].bench)

\* The member never has two live requests at the pool, whatever replies were
\* lost: a saved key is reused until its row is finished (state.py:82-89).
OneLiveRequest == \A j, k \in Keys : Live(j) /\ Live(k) => j = k

\* A row is finished only when the pool is done with everything it stands for;
\* a request closed while its benchmark goes on keeps its slot (runner.py:58-61).
FinishedIsConcluded ==
    \A k \in Keys : requests[k].state = "finished" => ~Live(k)

\* A runtime container exists for the benchmark of the open row only, through every
\* crash and failure, but for two: one whose docker run was given up and which
\* appeared later, and one that a failing docker inspect hid from the release
\* (runner.py:73-81, 134-138, runtime.py:93-96, 182, 203-212).
NoOrphanContainer ==
    \A b \in containers \ untracked : \E k \in Keys : Open(k) /\ requests[k].bench = b

\* The step runs the release its capabilities named, or no release is checked.
ReleaseAccepted == Images = None \/ step.release \in {None, Images}

\* A request reaches the pool for the first time only in a step whose capabilities
\* named the release installed here, if they named one and the runtime checks it,
\* however long the key has waited (runner.py:26-35, 45, 53).
OffersMatchRelease ==
    [][\A k \in Keys : poolRequests[k].state = "unknown" /\ poolRequests'[k].state # "unknown"
            => ReleaseAccepted]_vars

Immutable ==
    \A b \in Benchmarks :
        /\ assignments[b].payload # None => assignments'[b].payload = assignments[b].payload
        /\ assignments[b].acknowledged => assignments'[b].acknowledged
        /\ \A n \in Nonces : nonces[b][n] # None => nonces'[b][n] = nonces[b][n]

\* What was saved of a benchmark is never changed or dropped: the payload, the
\* handover and every leaf, through restarts and after the terminal state
\* (state.py:104-145, 158-164).
EvidenceNeverChanges == [][Immutable]_vars

\* WORKER_V2.md:65 "--drain finishes existing work without requesting more":
\* no request reaches the pool for the first time in a draining step.  The code
\* POSTs a key whose earlier POST was lost (runner.py:50-55): see README.
DrainRequestsNothingNew ==
    [][\A k \in Keys : poolRequests[k].state = "unknown" /\ poolRequests'[k].state # "unknown"
            => ~step.drain]_vars

-----------------------------------------------------------------------------
(* The inductive invariants behind these properties, see WorkerProofs.     *)

\* Where the locals `request` and `identity` of a step are bound.
RowPoints == Control \ {"down", "sleep", "check_new", "exited"}
ComputePoints == {"submit", "wait", "save", "shutdown"}
OwnedPoints == ComputePoints \cup {"prepare", "deliver", "get_sampled", "post_proofs"}
BenchPoints == OwnedPoints \cup {"get_bench", "acknowledge", "recover", "release"}

Located ==
    /\ pc \in RowPoints => step.key \in Keys
    /\ pc \in BenchPoints => step.bench \in Benchmarks

\* How the process gets to the end of a row.
Leaving ==
    /\ pc \in {"check_new", "check_post", "post_request", "get_request"} => step.bench = None
    /\ pc = "release" => Concluded(step.bench)
    /\ pc = "finish" => /\ step.bench \in Benchmarks \/ poolRequests[step.key].bench = None
                       /\ Outcome \in TERMINAL

\* Futures only live inside the with-block of the executor.
FuturesInside == pc \notin ComputePoints => futures = NoFutures

\* The pool stops changing the payload when it hands the benchmark over.
PayloadFixed ==
    \A b \in Benchmarks :
        poolBenchmarks[b].handed # None => poolBenchmarks[b].handed = poolBenchmarks[b].payload

HandedOver(b) ==
    /\ poolBenchmarks[b].handed # None
    /\ poolBenchmarks[b].handed = assignments[b].payload

OwnedIsHanded == \A b \in Benchmarks : Owned(b) => HandedOver(b)
EvidenceIsOwned == \A b \in Benchmarks : HasEvidence(b) => Owned(b)
StepIsOwned ==
    /\ pc \in OwnedPoints => Owned(step.bench)
    /\ pc = "recover" => HandedOver(step.bench)

\* Strengthens EvidenceMatchesHandover to an inductive invariant.
HandoverInv ==
    /\ TypeOK /\ Located /\ Leaving /\ FuturesInside
    /\ PayloadFixed /\ OwnedIsHanded /\ EvidenceIsOwned /\ StepIsOwned

-----------------------------------------------------------------------------
(* The slot: the member's rows, the pool's rows of the same keys, the step *)
(* that works on the open row, and the containers.                         *)

\* The pool knows no key that has no row, and a row names the pool's benchmark.
RowsAgree ==
    \A k \in Keys :
        /\ requests[k].state = "absent" => poolRequests[k].state = "unknown"
        /\ requests[k].bench \in {None, poolRequests[k].bench}

\* The pool gives a benchmark to one request.
AssignedOnce ==
    \A k \in Keys : poolRequests[k].bench # None =>
        /\ poolRequests[k].state \notin {"unknown", "queued"}
        /\ poolBenchmarks[poolRequests[k].bench].state # "free"
        /\ \A j \in Keys : poolRequests[j].bench = poolRequests[k].bench => j = k

\* The step works on the one open row, or has found that there is none.
OneOpenRow ==
    /\ \A j, k \in Keys : Open(j) /\ Open(k) => j = k
    /\ pc = "check_new" => \A k \in Keys : ~Open(k)
    /\ pc \in RowPoints => /\ Open(step.key)
                           /\ step.bench \in {None, requests[step.key].bench}

OwnedHasRow == \A b \in Benchmarks : Owned(b) => \E k \in Keys : requests[k].bench = b

ContainersOwned ==
    /\ \A b \in containers \cup ordered : Owned(b)
    /\ pc = "finish" => containers \subseteq untracked

OfferChecked == pc = "post_request" => ReleaseAccepted

\* Strengthens OneLiveRequest, FinishedIsConcluded and NoOrphanContainer.
SlotInv ==
    /\ RowsAgree /\ AssignedOnce /\ OneOpenRow
    /\ OwnedHasRow /\ ContainersOwned /\ OfferChecked
    /\ FinishedIsConcluded /\ NoOrphanContainer

\* What the pool holds of a benchmark is complete, and proofs follow a result.
DeliveredWhole ==
    \A b \in Benchmarks :
        /\ poolBenchmarks[b].result # Blank => Missing(b) = {}
        /\ poolBenchmarks[b].proofs # Blank => poolBenchmarks[b].result # Blank

\* Strengthens EvidenceRetained and ProofsOpenTheResult.
DeliveryInv == DeliveredWhole /\ EvidenceRetained /\ ProofsOpenTheResult

\* Everything that is proved to hold in every state of the worker.
WorkerInv == HandoverInv /\ SlotInv /\ DeliveryInv

-----------------------------------------------------------------------------
(* Liveness.  The process runs whenever it can, is launched again when it  *)
(* is down (the unit's restart, or the operator), and computations end.    *)
(* Only DrainExits needs the pool: it lets queued offers go stale and      *)
(* expire, and it concludes every accepted benchmark, both by a deadline;  *)
(* and from some time on it accepts work and keeps this release, since a   *)
(* key that it never answered for waits or is refused otherwise            *)
(* (runner.py:50-53).  It need never assign or sample anything.            *)

WorkerFairness ==
    /\ WF_vars(RunnerStep)
    /\ WF_vars(Launch)
    /\ WF_vars(\E n \in Nonces : NonceDone(n))

PoolFairness ==
    /\ WF_vars(PoolActs /\ \E k \in Keys : Age(k))
    /\ WF_vars(PoolActs /\ \E k \in Keys : Expire(k))
    /\ WF_vars(PoolActs /\ \E b \in Benchmarks, outcome \in Outcomes : Conclude(b, outcome))

\* The pool may hold a benchmark for as long as it likes.
FairSpec == Spec /\ WorkerFairness

\* A handed-over benchmark is delivered, unless the pool concludes it first,
\* although calls, nonces and the process fail in between.
WorkIsDelivered ==
    \A b \in Benchmarks : Owned(b) ~> (poolBenchmarks[b].result # Blank \/ Concluded(b))

\* The slot of a benchmark the pool concluded is freed.
ConcludedIsFinished ==
    \A k \in Keys : (Open(k) /\ requests[k].linked /\ poolRequests[k].bench # None
                     /\ (poolRequests[k].bench # None => Concluded(poolRequests[k].bench)))
                    ~> (requests[k].state = "finished")

\* A worker that is asked to drain stops in the end, provided the pool settles:
\* it keeps its deadlines, goes on accepting work and keeps the release of this
\* installation (runner.py:42-69, __main__.py:54-58).  Without the last two it
\* need not: INSTALL_V2.md:76 "Existing ambiguity can still require protocol
\* reconciliation before draining can finish".
DrainExits ==
    (PoolFairness /\ <>[](drainFile /\ workEnabled /\ poolRelease = Images)) => <>(pc = "exited")
=============================================================================
