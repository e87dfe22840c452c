# InnoPool member worker: specification, model checking and proofs

This directory holds the TLA+ development of the v2 member worker: the program
a pool member runs to take on whole TIG benchmarks, compute every nonce of
them, deliver the result and the sampled proofs, and keep the evidence. The
models are translated from `worker_v2/` and `tools/`; file and line references
below are to this repository (`runner.py` is `worker_v2/runner.py`, and so on).

## 1. Inventory of the system

| Part | State it keeps | Operations | In the models |
|---|---|---|---|
| Evidence store, `state.py` | SQLite tables `requests`, `assignments`, `nonces`, `identity` | one transaction per method of `Store` | `EvidenceStore`, requests in `Worker` |
| Runner and main loop, `runner.py`, `__main__.py` | locals of one step, the executor's futures, `worker.lock`, `data/drain.request` | `Runner.step` every 3 s, SIGTERM, `--drain` | `Worker` |
| Community pool (not in this repository) | requests, benchmarks, release, `work_enabled` | the HTTP calls of `client.py` | `Pool`, external |
| Fleet of a member master, `fleet.py` | `available`, `slots`, `RemoteRuntime.saved` | `check_resources`, `validate`, `prepare`, `compute`, `release` | `MemberMaster` |
| SSH transport, `ssh_transport.py` | child process, `pending`, `failure` | `start`, `call`, `close`, two reader threads | `SSHTransport`; `MemberMaster` at the grain of a call |
| Compute helper, `helper.py` | its own store, `prepared`, `active`, the event queue, `helper.lock` | `hello`, `validate`, `prepare`, `compute`, `release`, end of input, signals | `Helper` |
| Docker runtime, `runtime.py` | one container per benchmark, library cache, result files | `prepare`, `compute`, `release` | `DockerRuntime`; `Worker`, `Helper`: the container exists or not |
| Merkle proofs, `proofs.py` | none | `BenchmarkTree`, `leaf_hash` | as the opening of leaves only |
| Installer and launcher, `tools/install_worker_v2.py`, `scripts/start-fresh.sh` | installation marker, release directories, `drain.request`, two locks | `install`, `update`, `drain`, the launcher `run` | `Installer` |
| Resource limits, `resources.py` | none | `parse`, `matches`, `check_process_group` | `matches` in `DockerRuntime` |
| Artifact checks, pool client, CPU pilot | none | pure checks, one HTTP request per call, a script | not modelled |

How the parts interact. One master process holds `worker.lock` and calls
`Runner.step` in a loop; the step talks to the pool by HTTP, commits to its
store on the replies, and hands nonces to an executor whose threads call
`runtime.compute`. With helpers configured, the runtime is a `FleetRuntime`:
its threads take slots of a shared queue, run the nonce locally or ask the
helper over an SSH session. A session is a child process of the master whose
pipes lead to one `worker_v2.helper` process on the helper's server; that
process holds `helper.lock`, reads requests in one thread, computes in others,
and does every database write and reply in its main thread. Both ends compute
with a `DockerRuntime`, by commands in one container per benchmark. The installer
shares files with the worker and two locks: the launcher `run` takes
`installation.lock` and keeps it when it becomes the worker, the worker takes
`data/worker.lock`, and an update needs both.

What is hard.

* *Failures between commit and reply.* Every POST may have taken effect at the
  pool although its reply was lost, and the process may be killed between any
  two commits. The request key, the payload, the handover timestamp, each
  output and each delivery are saved so that the next step can go on.
* *Threads.* Nonces finish in any order and fail in the middle of a batch; in
  the helper, requests, completions, signals and the end of the input meet in
  one queue.
* *Sessions.* A broken session leaves a helper process that still computes and
  holds its lock, while the master opens new sessions, retries, or is itself
  killed and launched again.
* *Two stores.* The helper saves outputs before it answers, the master after;
  either may be ahead of the other.
* *What is left behind.* A docker command that is given up may still take effect:
  the computation goes on in the container, the container appears later. Copies,
  extractions, installations and updates are interrupted between two files.
* *Time.* Requests time out while their answers are under way, offers expire,
  the release changes between a check and the call it was made for.

What makes each part correct.

* Store: saved payloads, handovers and outputs never change.
* Worker: no computation before the handover of exactly the saved payload; one
  live request; a slot is freed only when the pool is done with the benchmark,
  and its container was removed, as far as Docker shows and does what it is asked;
  owned work is delivered; a drain ends if the pool settles.
* Helper: it works for handed-over benchmarks only, saves before it answers,
  never pulls a container from under a computation, and ends when its master
  has gone.
* Fleet: no slot is lost or doubled, no thread waits for ever, a helper that
  is gone does not stop the master.
* SSH transport: a failure reaches every pending call, each future is resolved
  once, and sessions do not mix.
* Docker runtime: what is saved is what was verified, computed from whole files
  under the configured limits; a leftover never stops the next attempt for good.
* Installer: only a recorded, complete and unchanged release runs; nothing
  changes under a worker or its unfinished work; an interrupted update can be
  repeated.

The full list of hazards, each at its line, is `hazards` in `PROJECT.json`.

## 2. Modules

```
EvidenceStore ─┬─ Pool ── Worker ── WorkerProperties ─┬─ WorkerRefines ── MCWorker
               │                    WholeBenchmark ───┘ (INSTANCE)
               └─ Helper ── HelperProperties
                    └────── MemberMaster ── MemberMasterProperties ─┬─ MemberMasterRefines ── MCMemberMaster
                                            SharedBenchmark ────────┘ (INSTANCE)

SSHTransport ── SSHTransportProperties ─┬─ SSHTransportRefines ── MCSSHTransport
                CallSession ────────────┘ (INSTANCE)
Installer ── InstallerProperties ─┬─ InstallerRefines ── MCInstaller
             InstalledWorker ─────┘ (INSTANCE)
DockerRuntime ── DockerRuntimeProperties ── MCDockerRuntime

WorkerProofs ── WorkerSlotProofs ── WorkerContractProofs     (of WorkerProperties, WorkerRefines)
HelperProofs ── MemberMasterProofs                           (of HelperProperties, MemberMasterRefines)
SSHTransportProofs, InstallerProofs                          (each of its Refines)
DockerRuntimeProofs                                          (of DockerRuntimeProperties)
```

**EvidenceStore.** The tables `assignments` and `nonces` of one database. An
operator is one committed transaction; its unprimed conjuncts are the
`StateError`s that abort it. A payload stands for the serialized assignment
*and* its SHA-256, a leaf for the pair (canonical output, quality), and the
digest of posted proofs for the set of nonces they open. Master and helper both
have such a store, so both models extend this module.

**Pool.** What the worker's calls and the pool of `tests/v2/test_worker.py` show
of the pool. Where these leave a choice, the module takes the weaker pool: it
hands over whatever payload it currently offers, does not check the digest it
was sent, may reissue the payload until the handover, may close a request while
its benchmark goes on, conclude a benchmark at any time, sample any set of
nonces, and change its release and `work_enabled` at any moment.

**Worker.** The main loop and `Runner.step`. `pc` says which call of the step is
next; an action is one call together with the commits the code makes on its
reply. `step` holds the locals (`drain`, the release of the capabilities,
`request`, `identity`), `futures`, `ready` and `todo` are the executor's futures,
the result of `wait` and the `missing` iterator. `ReplyLost` is the alternative
in which the pool has committed and the reply is lost; `CallFails` the one in
which the call raised without effect; `NonceFails` an exception of
`runtime.compute`; `Crash` a kill anywhere, after which only the store, the
containers and the drain file are left. SIGTERM acts at the pause between steps
only and leaves what a crash there leaves. The capacity inside an offer is
abstracted, and so is the number of seconds between steps.
Capabilities without `release_digest` are `step.release = None`, a runtime without
`validate_release` is `Images = None`: in both cases `check_release` returns without a
check and the offer is posted (`ReleaseMatches`). Docker may do late what it was asked:
`ordered` are the benchmarks whose `docker run` was given up, by its timeout or a kill,
and `CreatedLate` makes such a container at any later moment, after the release or the
row's end as well. `IsNotSeen` is a `docker inspect` that fails and is read as "no
container" (`runtime.py:93-96`): the release returns and the container stays. `untracked`
is a history variable: the containers that appeared late or that a release did not see.

**WholeBenchmark.** The abstract contract: take on a benchmark by committing to
one payload, compute each nonce once, deliver all outputs, reveal the sampled
ones, close. No messages, retries or failures, and one benchmark at a time.

**WorkerRefines.** The refinement mapping from `Worker` to `WholeBenchmark`: the
contract is the payload of an acknowledged row, the result is delivered when
the pool has it, a benchmark is closed when its row is finished.

**Helper.** The helper's process: `ReadRequest` and `ReadEnd` are its reader
thread, `Computed` its executor, and each of `TakeEnd`, `TakeComplete`,
`DropRequest`, `TakeInquiry`, `TakePrepare`, `TakeCompute`, `TakeRelease`
takes one event in the main loop of `serve()`. `Leave` and `Exit` are the
end of the loop and the `finally` clause (wait for the threads, then
`Helper.close`). `Answer` has the case of a master that is gone: the line is
lost in the pipe, or the write raises, the handler's own error reply raises
too, and `serve()` is left. `Killed`, `Signalled` and `ExitFails` are its
failures. `TakeReleaseFails` is a release that raises in Docker, and one whose failing
`docker inspect` is read as "no container", which succeeds and leaves the container. A
container that appears after its `docker run` was given up is taken to exist at once:
nothing the helper does or promises tells the two apart. The checks that compare
configurations are assumed to pass.

**MemberMaster.** The master with one helper. The pool and `Runner.step` are
reduced to what they mean for the fleet: `stage` is how far the master's store
got with a benchmark (`offered`, `saved`, `owned`, `finished`), and `main` where
the main thread is. In detail are `FleetRuntime` (`available`, `slots`, one
thread per nonce), `RemoteRuntime` (`saved`) and `SSHTransport` (`session`,
`calls`): a call is a message in `inbox` and an entry in `calls`, resolved by
`Receive`, or failed with all others by `SessionEnds` or `TimesOut`. A new
session while the helper's lock is taken, or its server is gone, has nobody at
its other end. `LocalWorkers = 0` is a coordinator without local backend. A call
that times out closes the session under the threads that are still about to
write (`TimesOut`): such a thread finds no process, its `AttributeError` is no
`HelperError`, its nonce fails and the backend stays `available`.

**SharedBenchmark.** What a master and its helper promise together: two stores. The
helper is given exactly the master's payload, once and after the handover; each
store keeps the first output of a nonce; what a master without workers of its own
has is what the helper has; one benchmark is open at a time and is closed when the
pool is done with it. No messages, sessions, threads, containers or failures.

**MemberMasterRefines.** The refinement mapping from `MemberMaster`: `stage` gives the
phase, the helper was given the payload of a row that it saved with its handover,
and the outputs are the two `nonces` tables. Every other variable is invisible.

**SSHTransport.** The object behind `session` and `calls` of `MemberMaster`, at the
grain of its locks and of its accesses to `process`: `call` is `EnterCall` (the
check of `alive`), `Register` (under `lock`), `Write`, and `Returned` or `TimeOut`;
`_fail` takes `pending` under the lock (`TakePending`) and resolves the futures
outside of it, one by one; `close` reads `process`, clears it, fails, stops the
process and joins the reader; the reader pops a future under the lock and
resolves it outside. What happens between two of these accesses of a thread is
its own. The main thread is alone when it calls or opens a session, because the
executor's block ends before the step does: `MayCall`, `Quiet`. `writer_lock` only
keeps two lines from mixing. The model shows why the atomic steps of
`MemberMaster` are right, and where they are not: the lines not yet written.

**CallSession.** The grain of `MemberMaster`, stated on its own: a call belongs to the
one session that is open when it is made; it is answered while that session is open
or fails with all others when it breaks, in one step; it returns once; and a session
opens only when no call of an earlier one is left.

**SSHTransportRefines.** The refinement mapping from `SSHTransport`. A session ends
for its callers with `failure`, or when `close()` clears `process`. A call is open
while its future is pending, and answered or failed from the moment a thread has
taken the future, although that thread resolves it later.

**DockerRuntime.** One benchmark at the machine that computes it. `main` is the
main thread in `prepare` (`check` to `create`) and in the executor's loop, `thread`
each nonce's `compute`: `tig-runtime`, `tig-verifier`, the reading of the file.
`cache`, `work` and `archived` are the files of the archive, each absent, half
written or whole; `box` the container with its limits; `strays` the processes in it
that a timeout or a crash abandoned, and `ordered` a container that Docker creates
after its command was given up. Contents are members of a small set, since the
verifier's quality is a function of the content it saw: a saved output keeps both
what was read and what was verified. A benchmark is released at any time after its
last nonce is saved.

**Installer.** `pc[i]` is the next file operation of installer `i`, `want` and
`seen` are its manifest and marker. A release stands for manifest, commit and
digest, `config` for the runtime images of `worker.json`. `Dies` is a failure or a
kill before any step, with what was written so far in place; it is no power loss, since
`build_release` flushes only the directory a tree is renamed in, not the tree
(`install_worker_v2.py:189`). Locks end with their process. The worker is `record`,
`config` (the launcher's checks), `start` (after `exec`) and then `run`, `step`, of
which module `Worker` has the inside; `unfinished` is what the installer can see of
it, an unfinished row. A step that raises leaves the worker in its loop, also while it
drains. The environment edits checkouts (`EditCheckout`).

**InstalledWorker.** What an installation promises: one recorded release, activated with
its runtimes while nothing runs and no work is open; a worker that is this release;
work finished by the release that took it; a worker that was told to drain takes
nothing more and ends with its work. No files, locks, installers or crashes.

**InstallerRefines.** The refinement mapping from `Installer`: the release is the one of
the marker, a worker runs from the moment the launcher has checked everything
(before `exec`), and open work belongs to the recorded release.

**The `Properties` modules.** The properties and the fairness of each component, and the
inductive invariants of the proofs; `HelperProperties` has the one of a helper's
process alone, on which `MemberMasterProperties` builds. **The `Proofs` modules.**
The theorems, section 4. **The `MC` modules.** The instances for TLC.

A definition commented "Seeded fault" is the form a plausible bug would give to
the definition after it. No specification uses one; they show that the
properties notice the bug (`mutants` in `PROJECT.json`).

## 3. What the runs check

| Run (`.cfg`) | Instance | Checked |
|---|---|---|
| `worker_evidence` (`MCWorkerEvidence`) | 1 benchmark, 2 nonces on 2 workers, 2 outputs, 2 payloads, 3 faults, fair | `WorkerInv` (with `TypeOK`), `EvidenceMatchesHandover`, `EvidenceRetained`, `ProofsOpenTheResult`, `EvidenceNeverChanges`, `ImplementsWholeBenchmark`, `WorkIsDelivered`, `ConcludedIsFinished`, `DrainExits` |
| `worker_slots` (`MCWorkerSlots`) | 2 requests, 2 benchmarks, 2 releases or none named, 2 faults | `OneLiveRequest`, `FinishedIsConcluded`, `NoOrphanContainer`, `OffersMatchRelease` |
| `fleet_safety` (`MCFleetSafety`) | 2 nonces, 2 outputs, 1 local and 2 remote workers, every kind of failure, 2 of them | `FleetInv` (with `TypeOK`), `HelperWorksForHandedOver`, `AnsweredIsSaved`, `RuntimeOutlivesComputation`, `SavedWhileAttached`, `ImplementsSharedBenchmark` |
| `fleet_progress` (`MCFleetProgress`) | 2 nonces, 1 local and 1 remote worker, cuts for good too, timeouts, signals, failed nonces and containers, 2 of them, fair | `NoRuntimeWithoutProcess`, `HandedOverIsCompleted`, `OldSessionEnds`, `FinishedIsCleanedUp` |
| `ssh_transport` (`MCSSHTransport`) | main thread and 2 of the executor, 2 sessions, 3 calls, fair | `TransportInv` (with `TypeOK`), `ResolvedOnce`, `OldSessionIsOver`, `BrokenCallsReturn`, `ImplementsCallSession` |
| `docker_runtime` (`MCDockerRuntime`) | 2 nonces, 2 contents, 2 files, 2 limits or none, 3 faults, fair | `RuntimeInv` (with `TypeOK`), `VerifiedIsSaved`, `WholeLibrary`, `LimitsHold`, `EveryNonceSaved` |
| `installer` (`MCInstaller`) | 2 installers, 2 releases, 2 faults, fair | `InstallationInv` (with `TypeOK`), `RunningIsRecorded`, `RetrySucceeds`, `CheckoutsStay`, `WorkUndisturbed`, `DrainStopsWorker`, `ImplementsInstalledWorker` |
| `worker_drain_offers`, `fleet_lost`, `fleet_gone`, `fleet_release`, `installer_failed` | the smallest that show it | one documented promise each, refuted: section 5 |

*Bounds.* `MaxRequests` bounds the request keys: two are needed for a lost POST
to be able to make a second live request, and for a second benchmark to meet
what is left of the first. `MaxFaults` bounds lost replies, failed calls, failed
nonces, crashes and broken sessions: three let a lost reply, a crash of the
retry and a failed nonce meet in one behaviour, two let a session break and the
one that replaces it fail as well. Two nonces on two workers give every order
of completion and a failure beside a running nonce; two on one worker, the
second batch. Two outputs per nonce tell a recomputation that differs from one
that agrees; two payloads, a reissued assignment. One helper suffices for the
properties stated here, each of which relates the master with one helper at a
time. Two sessions and three calls of the transport give an old reader beside a
new session, and a call that is registered, one that is written and one that
waits when a session fails. Two installers beside a worker are all that can meet
in one step of the locks; two releases give an update and a downgrade. Three
faults of the runtime let an abandoned computation, the crash after it and the
failure of the retry meet, with the container created late. Data that no property
tells apart is not in the model: the passing runs of the worker have one outcome of a
concluded benchmark, on which none of their properties depends. `worker_slots`
takes its two benchmarks as a symmetry set: nothing in `Worker` and `Pool` tells one
from the other, and the run has no liveness property. No other run uses symmetry.

*Deadlock* is checked in every run. Where nothing is left to do the code polls,
and so does the model: `StepIdle` of `Worker`, `Idle` of `MemberMaster`, `Rest` of
`SSHTransport`, where the next call or session is beyond the bounds, and `Finished`
of `DockerRuntime`, whose benchmark was released. The one end of a worker,
`exited`, is reached when it drained; the pool goes on.

*Fairness.* `WF` of `RunnerStep`, `Launch` and `MainStep`: the loop of
`__main__.py` never stops by itself, its calls have timeouts (20 s at the pool,
`timeout=` of every `SSHTransport.call`), and a process that is down is started
again by its unit or operator, as the documents assume. `WF` of `NonceDone`,
`Computing` and each thread: `nonce_timeout_seconds` ends every computation.
`WF` of the helper's `ServeStep` and `Reading`, of `Receive` and `SessionEnds`:
threads run, and both ends of a broken connection notice. At the master
`ServerAliveInterval` (`ssh_transport.py`) sees to that; the code sets nothing for the
helper's server, where it rests on the transport's own keepalive.
Failures have no fairness: they may happen or not. `DrainExits` alone
assumes something of the pool, as its premise. `PoolFairness`: queued offers go stale
and expire, and accepted benchmarks are concluded, both by the deadlines of the
protocol. And from some time on the request to drain stays, the pool accepts work, and
its release is the installed one. Without the last two the worker need not end: a key
whose POST was lost waits while work is disabled (`runner.py:51-52`) and is refused
when the release changed (`runner.py:53`), in every step, of which `INSTALL_V2.md:76-77`
says "Existing ambiguity can still require protocol reconciliation before draining can
finish." `Assign`, `Sample`, `ToggleEnabled` and `ChangeRelease` are never assumed to
happen; the premise asks that the last two come to an end in this state. In `SSHTransport` every thread goes on, and the reader of a
process that has ended reads the end of its output; neither a timeout nor an
answer is assumed, so `BrokenCallsReturn` does not rest on the timeouts. In
`DockerRuntime` the main thread and the commands of `compute` go on: each has a
timeout, and a failed step is followed by another; abandoned processes need never
write or end. In `Installer` only the launcher and the worker go on (`WF` of `WorkerStep`);
installers may stop between any two operations. That a draining step in the end
neither raises nor waits is no assumption of the specification: `DrainsInTheEnd`, which
is what `DrainExits` gives under its own premise, is the premise of the second half of
`DrainStopsWorker`. The first half, that a running worker comes to see the request
although updates and installers go on, has no premise.

## 4. What is proved

TLAPS checks the theorems for every value of the constants that satisfies the
assumptions of the modules, whatever their number of failures. `WorkerInv`,
`FleetInv`, `TransportInv`, `RuntimeInv` and `InstallationInv` are the inductive
invariants together with what rests on them, and TLC finds them true on the
instances of section 3. The few invariants that only a proof needs (`LeftBehind`,
`Activating`, `DrainInSight`, `RowIsOpen`, `PayloadIsOurs`, `HelperHasIt`) are
proved and no run states them. The assumptions are
that numbers of nonces, workers, sessions, calls and requests are positive,
that `None` is none of the values it stands beside, and that the words a
variable also takes (`idle`, `running`, `local`, `worker`, ...) are not the
names of outputs, threads or installers: facts of the encoding, not of the
program.

| Theorem | Module | States |
|---|---|---|
| `HandoverAlways`, `TypeCorrect` | `WorkerProofs` | `[]HandoverInv`, `[]TypeOK` |
| `HandoverSafe` | `WorkerProofs` | `[]EvidenceMatchesHandover`: nothing is computed or saved before the pool has handed over the payload that is saved |
| `EvidenceKept` | `WorkerProofs` | `EvidenceNeverChanges`, of every step |
| `SlotAlways` | `WorkerSlotProofs` | `[]SlotInv`: the key, row, slot and container of a benchmark agree |
| `LiveRequestIsOne` | `WorkerSlotProofs` | `[]OneLiveRequest` |
| `FinishedForGood` | `WorkerSlotProofs` | `[]FinishedIsConcluded` |
| `ContainersHaveRows` | `WorkerSlotProofs` | `[]NoOrphanContainer`: a container belongs to the open row, unless it appeared late or a failing inspect hid it from the release |
| `OffersChecked` | `WorkerSlotProofs` | `OffersMatchRelease`, of every step: a new key is posted under the installed release, if the capabilities named one and the runtime checks it |
| `ResultIsEvidence`, `ProofsOpenSampled` | `WorkerContractProofs` | `[]EvidenceRetained`, `[]ProofsOpenTheResult` |
| `WorkerAlways` | `WorkerContractProofs` | `[]WorkerInv`, the three invariants of the worker together |
| `Refinement` | `WorkerContractProofs` | `ImplementsWholeBenchmark`: the worker implements the contract |
| `FleetAlways` | `MemberMasterProofs` | `[]FleetInv` |
| `SharedRefinement` | `MemberMasterProofs` | `ImplementsSharedBenchmark`: master and helper implement the two stores |
| `HelperWorksAfterHandover` | `MemberMasterProofs` | `[]HelperWorksForHandedOver` |
| `SentIsSaved` | `MemberMasterProofs` | `[]AnsweredIsSaved` |
| `ComputationHasRuntime` | `MemberMasterProofs` | `[]RuntimeOutlivesComputation` |
| `SlotsAlwaysConserved` | `MemberMasterProofs` | `[]SlotsConserved`, a conjunct of `FleetInv` |
| `NobodyWaits` | `MemberMasterProofs` | `[]NobodyWaitsInVain`: who waits for the helper or for a slot waits for something under way |
| `StoresGrow` | `MemberMasterProofs` | `StoresOnlyGrow`, of every step |
| `CoordinatorMatchesHelper` | `MemberMasterProofs` | `[]HelperHasIt`, where `LocalWorkers = 0` |
| `NothingLostWhileAttached` | `MemberMasterProofs` | `SavedWhileAttached`, of every step |
| `NothingLeftBehind` | `MemberMasterProofs` | `[]NoRuntimeWithoutProcess`, where `Faults` has no `kill`, `docker`, `close` |
| `SessionAlways`, `AccountAlways`, `TransportAlways` | `SSHTransportProofs` | `[]SessionInv`, `[]AccountInv` and both, `[]TransportInv` |
| `FuturesResolvedOnce`, `SessionsDoNotMix` | `SSHTransportProofs` | `[]ResolvedOnce`, `[]OldSessionIsOver` |
| `NoCallIsForgotten` | `SSHTransportProofs` | `[]NoCallForgotten`: the call a thread waits for is pending in a session whose reader watches it, or some thread is about to resolve it |
| `SessionRefinement` | `SSHTransportProofs` | `ImplementsCallSession`: the threads implement the sessions |
| `RuntimeAlways`, `SavedIsVerified`, `LibraryIsWhole`, `LimitsAlwaysHold` | `DockerRuntimeProofs` | `[]RuntimeInv`, `[]VerifiedIsSaved`, `[]WholeLibrary`, `[]LimitsHold` |
| `InstallationHolds`, `RunsTheRecorded`, `RecordsTheComplete` | `InstallerProofs` | `[]InstallationInv`, `[]RunningIsRecorded`, `[]RecordedIsComplete` |
| `InstallationRefinement` | `InstallerProofs` | `ImplementsInstalledWorker` |
| `RetryAlwaysSucceeds` | `InstallerProofs` | `[]RetrySucceeds` |
| `WorkIsLeftAlone`, `CheckoutsAreKept` | `InstallerProofs` | `WorkUndisturbed`, `CheckoutsStay`, of every step |

Every proof has the same outline: a lemma for the initial states, one lemma per
action or group of actions, with a step per conjunct the action can disturb,
one that combines them over `Next`, and the theorem by `PTL`.

*The handover* (`WorkerProofs`). `EvidenceMatchesHandover` is not inductive: it
says nothing of a process that is about to compute, nor of a pool that could
still reissue the payload. `HandoverInv` adds where the locals of a step are
bound (`Located`), what is known on the way to the end of a row (`Leaving`),
that futures live only inside the executor's block (`FuturesInside`), that the
pool's payload is fixed from the handover on (`PayloadFixed`), that an
acknowledged row was handed over with its own payload (`OwnedIsHanded`), that
outputs are saved for acknowledged rows only (`EvidenceIsOwned`), and that the
step is past the handover wherever it computes or delivers (`StepIsOwned`).
`EvidenceKept` needs it as well: the transactions of the store preserve a row,
and `HandoverInv` tells that the handover they repeat is the one saved.

*The slot* (`WorkerSlotProofs`). Two live requests need a key the pool knows and
the member forgot, or two open rows. `SlotInv` excludes both: every key of the
pool has a row and a row names the pool's benchmark (`RowsAgree`), a benchmark
belongs to one request (`AssignedOnce`), there is one open row at most and the
step works on it (`OneOpenRow`). An owned benchmark has a row
(`OwnedHasRow`), containers, and those Docker may still make, are of owned benchmarks
and only `untracked` ones are left when a row is about to be finished
(`ContainersOwned`), and a POST follows the check of the release or a step in which
none is made (`OfferChecked`, `ReleaseAccepted`). `DockerMoves` has the ways in which a
step may change the containers, `OwnedDockerNext` what they keep. `CallsMove`, `PoolMoves`, `StepMoves` and
`RowsMove` say once for all actions what a step may do to each variable; the
lemmas per conjunct rest on these.

*Delivery and contract* (`WorkerContractProofs`). `DeliveryInv` says that a result
at the pool has all outputs, the saved ones, and that proofs follow a result. With
the three invariants each action is a step of `WholeBenchmark` or a stutter:
a row that becomes owned is `TakeOn`, and may be, because every other committed
benchmark is closed when a single row is open; a saved output is `Compute`; a
`deliver` or `post_proofs` that takes effect is `Deliver` or `Reveal`, also when
its reply is lost, and a repetition of it stutters, because the result and the
proofs are the same; the pool's decision is `Conclude`, and `finish` is `Close`.
`RefineInit` and `RefineNext` are the two facts. The run `worker_evidence` checks the
contract for one benchmark in detail; that one benchmark follows the other is in
the theorem.

*The helper* (`HelperProofs`). Lemmas only: `HelperInv` is what one process keeps
by itself whatever lines arrive. A request is in one place, unread, queued, under
computation or answered (`OnePlace`); a computation has its container and no
preparation is on its way beside it (`RuntimeKept`); what is sent of an output
is saved (`RepliesSaved`); a process that leaves while it has its master has
nothing under computation (`ProcessAndSession`). `LineRead`, `LineWritten`,
`EventQueued` and `EventTaken` are about the two sequences, `inbox` and `events`,
and are used wherever a line or an event moves. What the helper needs of its
master is a hypothesis of the lemma on an arriving line (`LineArrives`): the line
is new, and it is no computation beside a preparation.

*The fleet* (`MemberMasterProofs`). `FleetInv` is `SharedInv` and `CallAccount`, in this
order: the second needs the first. `SharedInv` discharges this hypothesis. It says
who waits for the helper at each point (`MainCalls`), what a step has established
(`StepInHand`), that whatever the helper holds of an attached session is waited
for (`SessionAsked`), that preparations follow handovers (`HandoverFirst`), and
that a master that was told of a preparation finds its container
(`PreparedIsReady`). `HelperWorksForHandedOver` is not inductive without
`HandoverFirst`: a preparation may still be in a pipe when the pool concludes the
benchmark, the master crashes, or its session is replaced. `RuntimeOutlivesComputation`
needs `PreparedIsReady`: after a preparation that failed inside Docker no
computation may be asked for. `SlotsConserved` counts threads
(`Cardinality(Holding(i))`), and `SlotComesBack` and `SlotTaken` show that the
count and the queue change together, or that the backend becomes unavailable.
`NothingLeftBehind` has its hypothesis because each of the three kinds of failure
leaves a container by itself: a kill, a preparation that fails inside Docker, and
a cleanup that fails.

*Nobody waits in vain.* `CallAccount` is the account of the calls: who waits has one
(`WaitersHaveCalls`), what is pending belongs to a session not known to be broken and
is at a helper that serves (`PendingIsUnderWay`), and the helper lets nothing lie
(`NothingIdle`, with `HelperRemembers` of `HelperProofs`: a step of a helper that goes
on serving its master forgets no request). `NobodyWaits` follows from it in every
state. It is the safety half of the liveness properties: there is always somebody to
make the next step; that he makes it is fairness, and TLC's. A thread without a slot
needs `SlotsConserved`: all slots are with threads, so some thread will return one.

*The two stores.* `SharedRefinement` maps `Offered` to `Take`, the confirmation in
`Validated` to `HandOver`, `TakePrepare` and `TakePrepareFails` to `Give`, `TakeComplete`
to `ComputeThere`, `SaveOutput` to `Keep`, `PoolConcludes` to `Conclude`,
`StepConcluded` and `Released` to `Close`; everything else stutters, and so does each
of the helper's steps when it repeats what is there. Beside `SharedInv` it needs that
the open benchmark is the one of the open request (`RowIsOpen`), and that every
preparation in a pipe or a queue, also one left from a session of before, carries the
master's payload (`PayloadIsOurs`): `WhoAsksToPrepare` finds the one place that sends
it. Of a coordinator it needs `HelperHasIt`, which `ResultsCome` traces through reply,
future and task. TLC checks the refinement with one local worker; the case without is
in the theorem.

*The transport* (`SSHTransportProofs`). Two resolutions of one future need two
threads that took it from `pending`. `TransportInv` says who is inside `close()`
(`CallsInHand`), that pending futures are open and that a reader holds the future
it popped (`FuturesHeld`), and that the reader of a session that is not the
current one is done, or some thread is about to join it (`SessionsEnd`); these are
`SessionInv`. `AccountInv` adds where each unresolved future is, from which
`NoCallIsForgotten` follows. For `SessionRefinement`, opening a process is `Open`,
`Register` is `Make`, the reader's `ReadReply` is `Answer`, the first of setting
`failure` and clearing `process` is `Break`, `ResolveReply` and `ResolveOne` are
`Return`; all other steps stutter. `Break` is the point of it: it takes effect for all
calls at once although their futures are resolved one by one, because `_fail` takes
`pending` as a whole under the lock and a session that has failed registers no call.

*The runtime* (`DockerRuntimeProofs`). `RuntimeInv` says which files are whole at
each point of `prepare`, and that the marker is written last (`FilesInPlace`),
that during a computation the container has the configured limits and every
abandoned process in it belongs to a nonce that failed in this step
(`ContainerInPlace`), and that what a thread read and verified is what the file
holds (`ThreadsInside`). `VerifiedIsSaved` depends on the second: a retry in the
same container would share the file with the abandoned process.

*The installer* (`InstallerProofs`). That a worker runs the recorded release says
nothing of an installer about to write another one. `InstallationInv` adds who
holds the locks at which point of the programs (`LocksHeld`, the mutual exclusion
of updates, of the launcher before and after `exec`, and of the worker), that a
directory without configuration belongs to one installer and is in no use
(`FirstConfigured`), what an update has established at each point
(`UpdateProgress`), and what the launcher has (`LaunchProgress`). The action
properties follow from the invariant before the step (`StepDisturbsNobody`).
`RetrySucceeds` needs `LeftBehind` beside it: a directory that has its token has
a marker and a configuration, and unfinished work belongs to the recorded
release. `InstallationRefinement` maps the writing of `worker.json` to `Configure`, that
of the marker to `Activate`, the launcher's last check to `Start`, the worker's look at
the drain file to `Tell`, its steps to `Take`, `Finish` or `Stop`, each end of it to
`Stop`, and the removal of the drain file to `ForgetDrain`; builds, checkouts, locks and
the failures of installers stutter. It needs `Activating` (an update that has written
its configuration finds it unchanged when it writes the marker) and `DrainInSight` (a
worker that was told is in its loop and the file is still there), besides
`InstallationInv` and `LeftBehind`.

*Model-checked only.* Liveness and everything else that depends on fairness is
out of the prover's reach: `WorkIsDelivered`, `ConcludedIsFinished`, `DrainExits`,
`HandedOverIsCompleted`, `OldSessionEnds`, `FinishedIsCleanedUp`,
`BrokenCallsReturn`, `EveryNonceSaved` and `DrainStopsWorker`. They hold on the
instances of section 3. Every safety invariant, action property and refinement of a
passing run is a theorem. In the other direction `SlotInv`, `SlotsConserved` and
`RecordedIsComplete` are conjuncts of what the runs check, and `NobodyWaitsInVain`,
`NoCallForgotten`, `StoresOnlyGrow` and `HelperHasIt` are theorems that no run states.

## 5. Where the code and its documents disagree

* **A drain that requests work** (`worker_drain_offers`). `docs/WORKER_V2.md:65`:
  "`--drain` finishes existing work without requesting more." A key that was
  committed but never reached the pool is posted by the next step, draining or
  not (`runner.py:50-56`), and may bring a new benchmark.
* **A slot that is never freed** (`fleet_release`). `docs/WORKER_V2.md:58`: "Keep
  ownership until TIG activation, verification failure or definitive expiry.
  Retain assignment and nonce evidence after freeing the local slot." After a
  break, `validate()` opens a new session whose helper has prepared nothing.
  `RemoteRuntime.saved` is still set, so `release` is asked for, refused
  (`helper.py:77`), and the step raises before `Store.finish`, in every step.
  Another break, or a restart of the master, ends it.
* **Outputs lost with the connection** (`fleet_lost`).
  `docs/SSH_MEMBER_MASTER_V2.md:100`: "An old session finishes bounded in-flight
  work and cleans up after input closes". If a reply is written before the end
  of the input is taken, it raises out of `serve()` (`helper.py:160-163`); the
  computations are waited for, but their completions stay in the queue unsaved.
  They are computed again later: work is lost, evidence is not contradicted.
* **A restart without the helper** (`fleet_gone`).
  `docs/SSH_MEMBER_MASTER_V2.md:96`: "After confirmed handover, a disconnected
  helper can be omitted while the remaining compatible compute resumes
  unfinished nonces." True for a running master; a restarted one ends at
  `__main__.py:46`, before the loop that tolerates errors.
* **A failed installation** (`installer_failed`). `install_worker_v2.py:249`:
  "Ownership is established before building. A failed install can be retried
  explicitly". So it can once configuration and token are written. A failure
  between the marker and these (`251-254`) leaves a directory that `install`
  refuses, and that `update` either fails on (`worker.json` is missing) or
  completes without a token, which the launcher refuses to start.

Beyond these, a container can outlive its row, and nothing removes it later. A
`docker run` given up by its timeout may take effect after the row was finished, and a
`docker inspect` that fails for any reason counts as "no container"
(`runtime.py:93-96`), so that `release` returns and the row is finished beside a
running container; the same holds of a release at the helper. No document promises
otherwise, so these are no findings: `NoOrphanContainer` names both exceptions and
says that there is no third.

In the helper, a container whose preparation fails after Docker started it is
not removed when the input closes (`helper.py:70-71`, `101-105`), which is why
`NoRuntimeWithoutProcess` is checked without failing preparations.

## 6. What is not modelled, and why

* The compatibility checks (architecture, compute type, images, identities,
  digests, formats, URLs, archive contents, resource limits): pure functions
  whose refusal is an exception, and in the models a failed call.
* `Store.bind` and the schema version, checked once and never changed.
* Several helpers at once: `SlotsConserved` and the liveness of the fleet are
  stated for one local and one remote backend.
* Parsing resource limits and the startup check of the worker's cgroup: they
  refuse a start, and keep no state.
* The library cache under two benchmarks at once: one worker prepares one
  benchmark at a time, and entries are renamed into the cache; what an earlier
  benchmark left there is in the initial states of `DockerRuntime`.
* The order in which a pool publishes releases: of two updates the one that
  fetched its manifest first may be the last to activate it.
* The launcher's flag `run --drain`: `Installer` has the drain file only, `Worker` has
  both (`drainFlag`, `drainFile`).
* Power loss: the installer's steps take effect in their order, and the databases
  commit durably.
* `start-fresh.sh`, which only starts the installed launcher.
* The CPU pilot, a script of checks around one run of the worker.

## 7. Plan

1. Done: `EvidenceStore`, `Pool`, `Worker`, its contract and first proofs;
   `Helper`, `MemberMaster`; `SSHTransport`, `DockerRuntime`, `Installer` and its
   proofs. Runs that asked about one component under the same bounds are merged.
2. `BenchmarkTree`: `proofs.py` as functions over an injective hash: every proof
   of every nonce reconstructs the root, for all sizes up to a bound, and an
   opening of another leaf does not. No `RECURSIVE`, so that lemmas about the
   levels can be proved.
3. Capacities in offers and a second helper.
4. Done: the abstract specifications `CallSession`, `SharedBenchmark` and
   `InstalledWorker`, beside `WholeBenchmark`.
5. Done: proofs of every safety invariant and action property, and of the four
   refinements.
6. Next: lemmas about `BenchmarkTree`; `MemberMaster` over `CallSession`, so that one
   theorem leads from the threads of the transport to the two stores.
