------------------------------- MODULE Worker -------------------------------
(***************************************************************************)
(* The worker process of a member: the loop of worker_v2/__main__.py around*)
(* Runner.step (worker_v2/runner.py), its durable state (Store.requests,   *)
(* the evidence tables, the runtime containers of Docker) and the pool it  *)
(* talks to.  Control is at the grain of one call to the pool or to Docker *)
(* together with the commits the code makes on its reply; a reply may be   *)
(* lost after the pool committed, a call may fail, and the process may be  *)
(* killed between any two of them and launched again.  A docker run that   *)
(* was given up may still make its container, at any later time.           *)
(***************************************************************************)
EXTENDS Pool

CONSTANTS
    Images,     \* config["runtime_images"]: the release this installation runs,
                \* or None for a runtime without validate_release
    Workers,    \* concurrent nonce computations
    MaxFaults   \* bound: lost replies, failed calls, failed nonces and crashes

ASSUME WorkersAssumption == Workers \in Nat \ {0}
ASSUME MaxFaultsAssumption == MaxFaults \in Nat
ASSUME FutureAssumption == {"idle", "running", "failed"} \cap Leaves = {}

VARIABLES
    requests,    \* durable: the requests table of Store
    containers,  \* durable: benchmarks whose runtime container exists
    ordered,     \* durable: those whose docker run was given up and may take effect yet
    untracked,   \* history: those whose container appeared late, or was not seen by the
                 \* release, and which no command of the worker has found since
    drainFile,   \* durable: data/drain.request exists
    drainFlag,   \* this process was launched with --drain
    pc,          \* where the process is in main / Runner.step
    step,        \* locals of Runner.step
    futures,     \* the executor's future of each nonce; a leaf is its result
    ready,       \* the futures the last wait() returned and not yet popped
    todo,        \* what is left of the `missing` iterator
    faults       \* how much of MaxFaults is used

docker == <<containers, ordered, untracked>>
durable == <<assignments, nonces, requests, containers, ordered, untracked>>
computation == <<futures, ready, todo>>
vars == <<durable, drainFile, drainFlag, pc, step, computation, faults, poolVars>>

Control == {"down", "sleep", "check_new", "check_post", "post_request", "get_request",
            "refresh", "get_bench", "acknowledge", "recover", "prepare", "submit", "wait",
            "save", "shutdown", "deliver", "get_sampled", "post_proofs", "release",
            "finish", "exited"}

\* A row of the requests table; server_id is abstracted to "is it known".
RequestRow == [state : {"absent", "open", "finished"}, linked : BOOLEAN,
               bench : Benchmarks \cup {None}]
StepLocals == [drain : BOOLEAN, release : Releases \cup {None},
               key : Keys \cup {0}, bench : Benchmarks \cup {None}]

NoStep == [drain |-> FALSE, release |-> None, key |-> 0, bench |-> None]
NoFutures == [n \in Nonces |-> "idle"]

MemberTypeOK ==
    /\ requests \in [Keys -> RequestRow]
    /\ containers \subseteq Benchmarks
    /\ ordered \subseteq Benchmarks /\ untracked \subseteq Benchmarks
    /\ drainFile \in BOOLEAN /\ drainFlag \in BOOLEAN

ProcessTypeOK ==
    /\ pc \in Control
    /\ step \in StepLocals
    /\ faults \in 0 .. MaxFaults

ComputationTypeOK ==
    /\ futures \in [Nonces -> {"idle", "running", "failed"} \cup Leaves]
    /\ ready \subseteq Nonces /\ todo \subseteq Nonces

\* Every variable holds what its column, file or local may hold.
TypeOK ==
    StoreTypeOK /\ PoolTypeOK /\ MemberTypeOK /\ ProcessTypeOK /\ ComputationTypeOK

Init ==
    /\ StoreInit
    /\ PoolInit
    /\ requests = [k \in Keys |-> [state |-> "absent", linked |-> FALSE, bench |-> None]]
    /\ containers = {} /\ ordered = {} /\ untracked = {}
    /\ drainFile = FALSE /\ drainFlag = FALSE
    /\ pc = "down" /\ step = NoStep
    /\ futures = NoFutures /\ ready = {} /\ todo = {}
    /\ faults = 0

-----------------------------------------------------------------------------
(* How a step ends.                                                        *)

Open(k) == requests[k].state = "open"

\* Seeded fault: a row the pool never answered for is not picked up again.
UnfinishedLinked == {k \in Keys : Open(k) /\ requests[k].linked
                                 /\ \A j \in Keys : Open(j) /\ requests[j].linked => k <= j}

\* Store.unfinished: the first open row, if any.
Unfinished == {k \in Keys : Open(k) /\ \A j \in Keys : Open(j) => k <= j}

\* step() returned: a draining process with no open row left exits.
Return ==
    /\ step' = NoStep
    /\ pc' = IF step.drain /\ \A k \in Keys : requests'[k].state # "open"
             THEN "exited" ELSE "sleep"

\* step() raised: logged, and retried after the pause whatever the drain says.
Raise == pc' = "sleep" /\ step' = NoStep

\* A call whose effect may have happened, but whose reply did not arrive.
Fault == faults < MaxFaults /\ faults' = faults + 1
ReplyLost == Fault /\ Raise

Goto(next) == pc' = next /\ UNCHANGED <<step, faults>>
ReturnNow == Return /\ UNCHANGED faults
RaiseNow == Raise /\ UNCHANGED faults

\* Frames: what the actions of a group leave alone.
KeepComputation == UNCHANGED <<computation, drainFile, drainFlag>>
KeepDurable == UNCHANGED durable
KeepEvidence == UNCHANGED <<assignments, nonces, docker>>

-----------------------------------------------------------------------------
(* The top of step(): capabilities, the open row, the release check.       *)

\* drain as the main loop computes it before every step.
Draining == drainFlag \/ drainFile

\* A step that finds the row k (0: none) and has something to do.
Enter(k, next) ==
    /\ pc = "sleep"
    /\ pc' = next
    /\ step' = [drain |-> Draining, release |-> poolRelease, key |-> k, bench |-> None]
    /\ KeepDurable /\ KeepComputation
    /\ UNCHANGED <<faults, poolVars>>

\* "idle" without an open row, "waiting" with one the pool never answered for.
\* A worker that used up its MaxRequests keys is idle too: the model's bound.
NothingToDo ==
    \/ Unfinished = {} /\ (Draining \/ ~workEnabled \/ \A k \in Keys : requests[k].state # "absent")
    \/ \E k \in Unfinished : ~requests[k].linked /\ ~workEnabled

StepIdle ==
    /\ pc = "sleep"
    /\ NothingToDo
    /\ pc' = IF Draining /\ Unfinished = {} THEN "exited" ELSE "sleep"
    /\ KeepDurable /\ KeepComputation
    /\ UNCHANGED <<step, faults, poolVars>>

StepNew ==
    /\ Unfinished = {} /\ ~NothingToDo
    /\ Enter(0, "check_new")

StepUnlinked ==
    \E k \in Unfinished : ~requests[k].linked /\ workEnabled /\ Enter(k, "check_post")

StepLinked ==
    \E k \in Unfinished : requests[k].linked /\ Enter(k, "get_request")

\* Runner.check_release: unless the capabilities of this step named no release,
\* or the runtime cannot check one, the release fetched now is the one they
\* named, and it is the one this runtime runs.
ReleaseMatches ==
    step.release # None /\ Images # None => poolRelease = step.release /\ poolRelease = Images

\* The request key is committed before the POST.
OfferWork ==
    /\ pc = "check_new"
    /\ ReleaseMatches
    /\ \E k \in Keys :
         /\ requests[k].state = "absent"
         /\ \A j \in Keys : requests[j].state = "absent" => k <= j
         /\ requests' = [requests EXCEPT ![k].state = "open"]
         /\ step' = [step EXCEPT !.key = k]
    /\ pc' = "check_post"
    /\ KeepEvidence /\ KeepComputation
    /\ UNCHANGED <<faults, poolVars>>

\* Seeded fault: the second check, before the POST itself, is skipped.
PostWithoutCheck ==
    /\ pc = "check_post"
    /\ Goto("post_request")
    /\ KeepDurable /\ KeepComputation /\ UNCHANGED poolVars

CheckBeforePost ==
    /\ pc = "check_post"
    /\ ReleaseMatches
    /\ Goto("post_request")
    /\ KeepDurable /\ KeepComputation /\ UNCHANGED poolVars

ReleaseRefused ==
    /\ pc \in {"check_new", "check_post", "refresh"}
    /\ ~ReleaseMatches
    /\ RaiseNow
    /\ KeepDurable /\ KeepComputation /\ UNCHANGED poolVars

PostRequest ==
    /\ pc = "post_request"
    /\ Receive(step.key)
    /\ \/ /\ requests' = [requests EXCEPT ![step.key] =
                            [@ EXCEPT !.linked = TRUE, !.bench = poolRequests[step.key].bench]]
          /\ Goto("get_request")
       \/ ReplyLost /\ UNCHANGED requests
    /\ KeepEvidence /\ KeepComputation

-----------------------------------------------------------------------------
(* GET /work-requests/<id> and what its state leads to.                    *)

\* Seeded fault: a closed request is finished even if it got a benchmark.
RequestIsClosed ==
    poolRequests[step.key].state \in TERMINAL

RequestIsOver ==
    /\ poolRequests[step.key].state \in TERMINAL
    /\ poolRequests[step.key].bench = None

RequestClosed ==
    /\ pc = "get_request"
    /\ RequestIsOver
    /\ Goto("finish")
    /\ KeepDurable /\ KeepComputation /\ UNCHANGED poolVars

\* Seeded fault: the offer is refreshed while draining as well.
AlwaysWantsWork == TRUE

\* Only a worker that still wants new work keeps its offer alive.
WantsWork == ~step.drain

RequestQueued ==
    /\ pc = "get_request"
    /\ poolRequests[step.key].state = "queued"
    /\ KeepDurable /\ KeepComputation /\ UNCHANGED poolVars
    /\ \/ WantsWork /\ Goto("refresh")
       \/ ~WantsWork /\ ReturnNow

RefreshRequest ==
    /\ pc = "refresh"
    /\ ReleaseMatches
    /\ Refresh(step.key)
    /\ UNCHANGED requests /\ ReturnNow
    /\ KeepEvidence /\ KeepComputation

RequestAssigned ==
    /\ pc = "get_request"
    /\ ~RequestIsOver
    /\ poolRequests[step.key].bench # None
    /\ requests' = [requests EXCEPT ![step.key].bench = poolRequests[step.key].bench]
    /\ step' = [step EXCEPT !.bench = poolRequests[step.key].bench]
    /\ pc' = "get_bench"
    /\ KeepEvidence /\ KeepComputation
    /\ UNCHANGED <<faults, poolVars>>

-----------------------------------------------------------------------------
(* GET /benchmarks/<id>, the saved assignment and the handover.            *)

\* After the evidence is complete: deliver it unless that is already recorded.
AfterEvidence(b) == IF assignments[b].resultSent THEN "get_sampled" ELSE "deliver"

\* After the confirmed handover: compute the missing nonces first.
AfterHandover(b) == IF Missing(b) # {} THEN "prepare" ELSE AfterEvidence(b)

\* Seeded fault: without a saved assignment the lookup raises.
BenchmarkGoneIfSaved ==
    /\ pc = "get_bench"
    /\ Concluded(step.bench)
    /\ \/ assignments[step.bench].payload # None /\ Goto("release")
       \/ assignments[step.bench].payload = None /\ RaiseNow
    /\ KeepDurable /\ KeepComputation /\ UNCHANGED poolVars

BenchmarkGone ==
    /\ pc = "get_bench"
    /\ Concluded(step.bench)
    /\ Goto(IF assignments[step.bench].payload # None THEN "release" ELSE "finish")
    /\ KeepDurable /\ KeepComputation /\ UNCHANGED poolVars

BenchmarkOffered ==
    /\ pc = "get_bench"
    /\ ~Concluded(step.bench)
    /\ SaveAssignment(step.bench, poolBenchmarks[step.bench].payload)
    /\ Goto(IF assignments[step.bench].acknowledged THEN AfterHandover(step.bench)
            ELSE IF poolBenchmarks[step.bench].handed # None THEN "recover" ELSE "acknowledge")
    /\ KeepComputation
    /\ UNCHANGED <<nonces, requests, docker, poolVars>>

\* "immutable benchmark assignment changed"
AssignmentChanged ==
    /\ pc = "get_bench"
    /\ ~Concluded(step.bench)
    /\ assignments[step.bench].payload \notin {None, poolBenchmarks[step.bench].payload}
    /\ RaiseNow
    /\ KeepDurable /\ KeepComputation /\ UNCHANGED poolVars

\* Seeded fault: the digest in the acknowledgement is not compared.
AnyAssignment == HandedAfter(step.bench) # None

\* The reply must carry the digest of the saved payload.
SameAssignment == HandedAfter(step.bench) = assignments[step.bench].payload

AcknowledgeHandover ==
    /\ pc = "acknowledge"
    /\ HandOver(step.bench)
    /\ \/ SameAssignment /\ Acknowledge(step.bench) /\ Goto(AfterHandover(step.bench))
       \/ ~SameAssignment /\ RaiseNow /\ UNCHANGED assignments
       \/ ReplyLost /\ UNCHANGED assignments
    /\ KeepComputation
    /\ UNCHANGED <<nonces, requests, docker>>

\* The pool had committed the handover before: its GET carried the timestamp.
RecoverHandover ==
    /\ pc = "recover"
    /\ Acknowledge(step.bench)
    /\ Goto(AfterHandover(step.bench))
    /\ KeepComputation
    /\ UNCHANGED <<nonces, requests, docker, poolVars>>

-----------------------------------------------------------------------------
(* Computing the missing nonces.                                           *)

\* The container of b is found or created, and known.
Stands(b) ==
    /\ containers' = containers \cup {b} /\ untracked' = untracked \ {b}
    /\ UNCHANGED ordered

\* It is removed, or there was none.
IsRemoved(b) ==
    /\ containers' = containers \ {b} /\ untracked' = untracked \ {b}
    /\ UNCHANGED ordered

\* There is none when docker run is given up; it may be made later.
IsOrdered(b) ==
    /\ containers' = containers \ {b} /\ untracked' = untracked \ {b}
    /\ ordered' = ordered \cup {b}

\* It is made after all; Docker refuses a second container of one name.
Appears(b) ==
    /\ b \in ordered /\ ordered' = ordered \ {b}
    /\ containers' = containers \cup {b}
    /\ untracked' = untracked \cup ({b} \ containers)

\* DockerRuntime.prepare.  It may raise with a container made, removed or ordered,
\* or because the name of the new one was taken meanwhile.
Prepare ==
    /\ pc = "prepare"
    /\ \/ Stands(step.bench) /\ Goto("submit") /\ todo' = Missing(step.bench)
       \/ /\ Stands(step.bench) \/ IsRemoved(step.bench) \/ IsOrdered(step.bench)
          /\ ReplyLost /\ UNCHANGED todo
       \/ Appears(step.bench) /\ RaiseNow /\ UNCHANGED todo
    /\ UNCHANGED <<assignments, nonces, requests, futures, ready, drainFile, drainFlag, poolVars>>

InFlight == {n \in Nonces : futures[n] # "idle"}

\* The next nonces in order, until Workers are in flight or none is left.
IsBatch(batch) ==
    /\ \A n \in batch, m \in todo \ batch : n < m
    /\ Cardinality(InFlight \cup batch) <= Workers
    /\ batch = todo \/ Cardinality(InFlight \cup batch) = Workers

Submit ==
    /\ pc = "submit"
    /\ \E batch \in SUBSET todo :
         /\ IsBatch(batch)
         /\ futures' = [n \in Nonces |-> IF n \in batch THEN "running" ELSE futures[n]]
         /\ todo' = todo \ batch
         /\ Goto(IF InFlight \cup batch = {} THEN AfterEvidence(step.bench) ELSE "wait")
    /\ KeepDurable
    /\ UNCHANGED <<ready, drainFile, drainFlag, poolVars>>

\* Seeded fault: a computation that raised does not count as completed.
Succeeded(n) == futures[n] \in Leaves

Done(n) == futures[n] \in Leaves \cup {"failed"}

\* wait(FIRST_COMPLETED): everything that is done by now.
Wait ==
    /\ pc = "wait"
    /\ \E n \in Nonces : Done(n)
    /\ ready' = {n \in Nonces : Done(n)}
    /\ Goto("save")
    /\ KeepDurable
    /\ UNCHANGED <<futures, todo, drainFile, drainFlag, poolVars>>

SaveReady ==
    /\ pc = "save"
    /\ \E n \in ready :
         /\ futures[n] \in Leaves
         /\ SaveNonce(step.bench, n, futures[n])
         /\ futures' = [futures EXCEPT ![n] = "idle"]
         /\ ready' = ready \ {n}
         /\ Goto(IF ready = {n} THEN "submit" ELSE "save")
    /\ UNCHANGED <<assignments, requests, docker, todo, drainFile, drainFlag, poolVars>>

\* future.result() raised: the other results of this round are dropped.
NonceFailed ==
    /\ pc = "save"
    /\ \E n \in ready : futures[n] = "failed"
    /\ Goto("shutdown")
    /\ ready' = {} /\ todo' = {}
    /\ KeepDurable
    /\ UNCHANGED <<futures, drainFile, drainFlag, poolVars>>

\* The executor's __exit__ waits for the computations that still run.
Shutdown ==
    /\ pc = "shutdown"
    /\ \A n \in Nonces : futures[n] # "running"
    /\ futures' = NoFutures
    /\ RaiseNow
    /\ KeepDurable
    /\ UNCHANGED <<ready, todo, drainFile, drainFlag, poolVars>>

-----------------------------------------------------------------------------
(* Delivering the evidence, and leaving the benchmark.                     *)

Deliver ==
    /\ pc = "deliver"
    /\ Missing(step.bench) = {}
    /\ StoreResult(step.bench, nonces[step.bench])
    /\ \/ MarkResultSent(step.bench) /\ Goto("get_sampled")
       \/ ReplyLost /\ UNCHANGED assignments
    /\ KeepComputation
    /\ UNCHANGED <<nonces, requests, docker>>

DeliveredGone ==
    /\ pc = "get_sampled"
    /\ Concluded(step.bench)
    /\ Goto("release")
    /\ KeepDurable /\ KeepComputation /\ UNCHANGED poolVars

Sampled(b) == poolBenchmarks[b].sample

\* Proofs are posted unless these very proofs were stored before.
ProofsMissing(b) == Sampled(b) # {} /\ assignments[b].proofsSent # Sampled(b)

AwaitVerification ==
    /\ pc = "get_sampled"
    /\ ~Concluded(step.bench)
    /\ KeepDurable /\ KeepComputation /\ UNCHANGED poolVars
    /\ \/ ProofsMissing(step.bench) /\ Goto("post_proofs")
       \/ ~ProofsMissing(step.bench) /\ ReturnNow

\* Seeded fault: proofs for every nonce but the sampled ones.
OpeningOfOthers(b) == Opening(b, Nonces \ Sampled(b))

SampledOpening(b) == Opening(b, Sampled(b))

PostProofs ==
    /\ pc = "post_proofs"
    /\ StoreProofs(step.bench, SampledOpening(step.bench))
    /\ UNCHANGED requests
    /\ \/ MarkProofsSent(step.bench, Sampled(step.bench)) /\ ReturnNow
       \/ ReplyLost /\ UNCHANGED assignments
    /\ KeepComputation
    /\ UNCHANGED <<nonces, docker>>

\* Seeded fault: the container is left running.
KeepContainer ==
    /\ pc = "release"
    /\ UNCHANGED docker
    /\ Goto("finish")
    /\ KeepComputation
    /\ UNCHANGED <<assignments, nonces, requests, poolVars>>

\* A failing docker inspect reads as "no container": the container of b stays.
IsNotSeen(b) ==
    /\ b \in containers /\ untracked' = untracked \cup {b}
    /\ UNCHANGED <<containers, ordered>>

\* DockerRuntime.release.
ReleaseContainer ==
    /\ pc = "release"
    /\ \/ IsRemoved(step.bench) /\ (Goto("finish") \/ ReplyLost)
       \/ IsNotSeen(step.bench) /\ Fault /\ pc' = "finish" /\ UNCHANGED step
    /\ KeepComputation
    /\ UNCHANGED <<assignments, nonces, requests, poolVars>>

\* Seeded fault: the state of the request is recorded for the benchmark.
RequestState == poolRequests[step.key].state

\* The terminal state finish() records.
Outcome == IF step.bench = None THEN poolRequests[step.key].state
                                ELSE poolBenchmarks[step.bench].state

\* Seeded fault: finishing a benchmark also deletes its saved outputs.
FinishAndForget ==
    /\ pc = "finish"
    /\ requests' = [requests EXCEPT ![step.key].state = "finished"]
    /\ nonces' = IF step.bench = None THEN nonces ELSE [nonces EXCEPT ![step.bench] = Blank]
    /\ ReturnNow
    /\ KeepComputation
    /\ UNCHANGED <<assignments, docker, poolVars>>

\* Store.finish: frees the slot; the evidence stays.
Finish ==
    /\ pc = "finish"
    /\ requests' = [requests EXCEPT ![step.key].state = "finished"]
    /\ assignments' = [b \in Benchmarks |->
           IF b = step.bench /\ assignments[b].payload # None
           THEN [assignments[b] EXCEPT !.terminal = Outcome] ELSE assignments[b]]
    /\ ReturnNow
    /\ KeepComputation
    /\ UNCHANGED <<nonces, docker, poolVars>>

-----------------------------------------------------------------------------
(* Failures, the process, and everything that runs beside it.              *)

\* One call of the step raised before it had any effect.
CallPoints == {"sleep", "check_new", "check_post", "post_request", "get_request", "refresh",
               "get_bench", "acknowledge", "prepare", "deliver", "get_sampled",
               "post_proofs", "release"}

CallFails ==
    /\ pc \in CallPoints
    /\ ReplyLost
    /\ KeepDurable /\ KeepComputation /\ UNCHANGED poolVars

\* kill -9 anywhere; SIGTERM takes effect at "sleep" only and leaves the same.
Crash ==
    /\ pc \notin {"down", "exited"}
    /\ Fault
    /\ pc' = "down" /\ step' = NoStep /\ drainFlag' = FALSE
    /\ futures' = NoFutures /\ ready' = {} /\ todo' = {}
    /\ KeepDurable
    /\ UNCHANGED <<drainFile, poolVars>>

Launch ==
    /\ pc = "down"
    /\ pc' = "sleep"
    /\ drainFlag' \in BOOLEAN
    /\ KeepDurable
    /\ UNCHANGED <<drainFile, step, computation, faults, poolVars>>

\* The installer's drain command, at any time.
RequestDrain ==
    /\ ~drainFile /\ drainFile' = TRUE
    /\ KeepDurable
    /\ UNCHANGED <<drainFlag, pc, step, computation, faults, poolVars>>

\* A pool thread finishes computing a nonce, or fails.
NonceDone(n) ==
    /\ futures[n] = "running"
    /\ \E leaf \in Leaves : futures' = [futures EXCEPT ![n] = leaf]
    /\ KeepDurable
    /\ UNCHANGED <<drainFile, drainFlag, pc, step, ready, todo, faults, poolVars>>

NonceFails(n) ==
    /\ futures[n] = "running"
    /\ Fault
    /\ futures' = [futures EXCEPT ![n] = "failed"]
    /\ KeepDurable
    /\ UNCHANGED <<drainFile, drainFlag, pc, step, ready, todo, poolVars>>

\* Docker carries out an order, whatever the worker does meanwhile.
CreatedLate ==
    /\ \E b \in ordered : Appears(b)
    /\ UNCHANGED <<assignments, nonces, requests>>
    /\ UNCHANGED <<drainFile, drainFlag, pc, step, computation, faults, poolVars>>

PoolActs ==
    /\ PoolStep
    /\ KeepDurable
    /\ UNCHANGED <<drainFile, drainFlag, pc, step, computation, faults>>

\* The main thread.
RunnerStep ==
    \/ StepIdle \/ StepNew \/ StepUnlinked \/ StepLinked
    \/ OfferWork \/ CheckBeforePost \/ ReleaseRefused \/ PostRequest
    \/ RequestClosed \/ RequestQueued \/ RefreshRequest \/ RequestAssigned
    \/ BenchmarkGone \/ BenchmarkOffered \/ AssignmentChanged
    \/ AcknowledgeHandover \/ RecoverHandover
    \/ Prepare \/ Submit \/ Wait \/ SaveReady \/ NonceFailed \/ Shutdown
    \/ Deliver \/ DeliveredGone \/ AwaitVerification \/ PostProofs
    \/ ReleaseContainer \/ Finish

Next ==
    \/ RunnerStep
    \/ CallFails \/ Crash \/ Launch \/ RequestDrain
    \/ \E n \in Nonces : NonceDone(n) \/ NonceFails(n)
    \/ CreatedLate
    \/ PoolActs

Spec == Init /\ [][Next]_vars
=============================================================================
