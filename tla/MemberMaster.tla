----------------------------- MODULE MemberMaster -----------------------------
(***************************************************************************)
(* A member master that shares its nonces with one SSH helper: the whole   *)
(* benchmark of module Worker seen from worker_v2/fleet.py (RemoteRuntime, *)
(* FleetRuntime) and worker_v2/ssh_transport.py (SSHTransport), composed   *)
(* with the helper's process (module Helper).                              *)
(*                                                                         *)
(* The pool and the calls of Runner.step to it are module Worker's subject *)
(* and reduced here to what they mean for the fleet: a row gets a          *)
(* benchmark, its handover is confirmed, the pool is done with it.  The    *)
(* local backend and every thread run at the grain of one call.            *)
(***************************************************************************)
EXTENDS Helper

CONSTANTS
    LocalWorkers,   \* config["workers"] of the master, 0 for a coordinator
    RemoteWorkers,  \* "workers" of the helper's entry in the master's config
    Faults,         \* the kinds of failure this instance explores
    MaxFaults       \* bound: how many of them happen

ASSUME FleetAssumption ==
    /\ LocalWorkers \in Nat /\ RemoteWorkers \in 1 .. HelperWorkers
    /\ Faults \subseteq {"cut", "timeout", "signal", "kill", "gone", "crash", "nonce",
                      "docker", "close", "local"}
    /\ MaxFaults \in Nat
ASSUME TaskAssumption == {"idle", "waiting", "local", "remote", "failed"} \cap Leaves = {}

Backends == IF LocalWorkers = 0 THEN {"remote"} ELSE {"local", "remote"}
Capacity(i) == IF i = "local" THEN LocalWorkers ELSE RemoteWorkers

VARIABLES
    stage,      \* durable: how far the master's store got with a benchmark
    outputs,    \* durable: the master's nonces table
    row,        \* durable: the benchmark of the open request, or None
    over,       \* the pool: benchmarks in a terminal state
    reachable,  \* the helper's server can be logged in to
    main,       \* where the main thread is
    session,    \* SSHTransport.alive
    calls,      \* SSHTransport.pending, and futures not yet looked at
    saved,      \* RemoteRuntime.saved
    available, slots,  \* of FleetRuntime
    tasks,      \* the executor's future of each nonce; a leaf is its result
    faults      \* how much of MaxFaults is used

masterVars == <<stage, outputs, row, main, session, calls, saved, available, slots, tasks>>
vars == <<helperVars, masterVars, over, reachable, faults>>

Call == [to : Message, state : {"pending", "ok", "error", "unwritten"}, leaf : Leaves \cup {None}]
NoTasks == [n \in Nonces |-> "idle"]
NoSlots == [i \in Backends |-> 0]
NoneReady == [i \in Backends |-> FALSE]

\* Every variable holds what its table, field or local may hold.
TypeOK ==
    /\ HelperTypeOK
    /\ stage \in [Benchmarks -> {"new", "offered", "saved", "owned", "finished"}]
    /\ outputs \in [Benchmarks -> [Nonces -> Leaves \cup {None}]]
    /\ row \in Benchmarks \cup {None}
    /\ over \subseteq Benchmarks /\ reachable \in BOOLEAN /\ session \in BOOLEAN
    /\ main \in {"down", "startup", "pause", "offer", "check", "validate", "recheck",
                 "prepare", "compute", "shutdown", "release"}
    /\ calls \subseteq Call
    /\ saved \in Benchmarks \cup {None}
    /\ available \in [Backends -> BOOLEAN]
    /\ slots \in [Backends -> 0 .. LocalWorkers + RemoteWorkers]
    /\ tasks \in [Nonces -> {"idle", "waiting", "local", "remote", "failed"} \cup Leaves]
    /\ faults \in 0 .. MaxFaults

Init ==
    /\ HelperInit
    /\ stage = [b \in Benchmarks |-> "new"]
    /\ outputs = [b \in Benchmarks |-> Blank]
    /\ row = None /\ over = {} /\ reachable = TRUE
    /\ main = "down" /\ session = FALSE /\ calls = {} /\ saved = None
    /\ available = NoneReady /\ slots = NoSlots /\ tasks = NoTasks
    /\ faults = 0

Fault(kind) == kind \in Faults /\ faults < MaxFaults /\ faults' = faults + 1

\* Frames.
Durable == <<stage, outputs, row>>
Fleet == <<available, slots, tasks>>
World == <<over, reachable>>
HelperStays == UNCHANGED helperVars

\* Seeded fault: a nonce whose output is saved is computed again.
EveryOutput(b) == Nonces

MissingOutputs(b) == {n \in Nonces : outputs[b][n] = None}

-----------------------------------------------------------------------------
(* SSHTransport.                                                           *)

MessageTo(op, b, n, d) == [op |-> op, bench |-> b, nonce |-> n, digest |-> d]
Hello == MessageTo("hello", None, None, None)
About(op, b, d) == MessageTo(op, b, None, PayloadOf[d])

\* call(): without a session it raises, without a helper the line is lost.
Asked(m) == [to |-> m, state |-> IF session THEN "pending" ELSE "error", leaf |-> None]
Deliver(m) ==
    /\ inbox' = IF attached THEN Append(inbox, m) ELSE inbox
    /\ OutputKept
    /\ UNCHANGED <<process, attached, replies, session>>

\* The main thread is alone: its call is the only one.
Ask(m) == calls' = {Asked(m)} /\ Deliver(m)
AskNothing == calls' = {} /\ HelperStays /\ UNCHANGED session

\* start() and call("hello").  If the helper's lock is taken by the process of
\* an earlier session, or its server is gone, the new session has nobody there.
SayHello ==
    \/ session /\ Ask(Hello)
    \/ /\ ~session /\ session' = TRUE
       /\ calls' = {[to |-> Hello, state |-> "pending", leaf |-> None]}
       /\ OutputKept
       /\ IF helper = "off" /\ reachable
          THEN Launched /\ inbox' = <<Hello>>
          ELSE UNCHANGED <<process, attached, inbox, replies>>

Pending == {c \in calls : c.state = "pending"}
InInbox(m) == \E j \in DOMAIN inbox : inbox[j] = m

\* _fail(): every pending future raises.
AllFail ==
    /\ session' = FALSE
    /\ calls' = (calls \ Pending) \cup {[c EXCEPT !.state = "error"] : c \in Pending}

\* The reader thread: a response resolves the future of its request.
Receive ==
    /\ \E r \in replies, c \in calls :
         /\ c.to = r.to /\ c.state = "pending"
         /\ replies' = replies \ {r}
         /\ calls' = (calls \ {c}) \cup
                {[to |-> r.to, state |-> IF r.ok THEN "ok" ELSE "error", leaf |-> r.leaf]}
    /\ OutputKept
    /\ UNCHANGED <<process, attached, inbox, Durable, main, session, saved, Fleet, World, faults>>

\* The reader thread: "helper SSH session ended".
SessionEnds ==
    /\ session /\ ~attached
    /\ AllFail
    /\ HelperStays
    /\ UNCHANGED <<Durable, main, saved, Fleet, World, faults>>

\* A call times out: it fails every pending future and closes the session.  A
\* thread that is about to write its line meanwhile finds no process any more.
TimesOut ==
    /\ Fault("timeout")
    /\ \E late \in Pending : \E unwritten \in SUBSET {c \in Pending \ {late} : InInbox(c.to)} :
         /\ calls' = (calls \ Pending)
                \cup {[c EXCEPT !.state = "error"] : c \in Pending \ unwritten}
                \cup {[c EXCEPT !.state = "unwritten"] : c \in unwritten}
         /\ NotWritten({c.to : c \in unwritten})
    /\ session' = FALSE
    /\ Detached
    /\ OutputKept
    /\ UNCHANGED <<process, Durable, main, saved, Fleet, World>>

-----------------------------------------------------------------------------
(* The main thread: the loop of __main__.py and Runner.step.               *)

\* What the main thread's own call came to; HelperError covers every failure.
Answered == \E c \in calls : c.state = "ok"
HelperError == \E c \in calls : c.state = "error"

\* step() returned or raised: the next one follows after the pause.
StepEnds == main' = "pause" /\ AskNothing

\* build_fleet and the check of every backend before the first step.
Launch ==
    /\ main = "down" /\ main' = "startup"
    /\ SayHello
    /\ UNCHANGED <<Durable, saved, Fleet, World, faults>>

Started ==
    /\ main = "startup" /\ Answered
    /\ StepEnds
    /\ UNCHANGED <<Durable, saved, Fleet, World, faults>>

\* A helper that does not answer at startup ends the process.
StartupFails ==
    /\ main = "startup" /\ HelperError
    /\ main' = "down" /\ session' = FALSE /\ calls' = {}
    /\ Detached
    /\ OutputKept
    /\ UNCHANGED <<process, inbox, Durable, saved, Fleet, World, faults>>

\* Every benchmark of this instance is finished: the model's bound.
Idle ==
    /\ main = "pause" /\ row = None
    /\ \A b \in Benchmarks : stage[b] = "finished"
    /\ UNCHANGED vars

\* before_offer: no new request without every helper.
StepNew ==
    /\ main = "pause" /\ row = None
    /\ \E b \in Benchmarks : stage[b] = "new"
    /\ main' = "offer"
    /\ SayHello
    /\ UNCHANGED <<Durable, saved, Fleet, World, faults>>

\* The request is posted, and in some later step the pool assigns a benchmark.
Offered ==
    /\ main = "offer" /\ Answered
    /\ \E b \in Benchmarks : /\ stage[b] = "new"
                             /\ stage' = [stage EXCEPT ![b] = "offered"] /\ row' = b
    /\ StepEnds
    /\ UNCHANGED <<outputs, saved, Fleet, World, faults>>

NotOffered ==
    /\ main = "offer" /\ HelperError
    /\ StepEnds
    /\ UNCHANGED <<Durable, saved, Fleet, World, faults>>

\* A step of a benchmark that goes on: the assignment is saved, and
\* FleetRuntime.validate asks the helper before every handover and preparation.
StepBenchmark ==
    /\ main = "pause" /\ row # None /\ row \notin over
    /\ stage' = IF stage[row] = "offered" THEN [stage EXCEPT ![row] = "saved"] ELSE stage
    /\ main' = "check"
    /\ SayHello
    /\ UNCHANGED <<outputs, row, saved, Fleet, World, faults>>

Check ==
    /\ main = "check" /\ Answered
    /\ main' = "validate"
    /\ Ask(About("validate", row, row))
    /\ UNCHANGED <<Durable, saved, Fleet, World, faults>>

\* Without the helper a step goes on only after the confirmed handover.
ValidationWaived == stage[row] = "owned"

\* The local backend is prepared first, or is not available.
LocalPrepared(ok) ==
    /\ available' = [i \in Backends |-> i = "local" /\ ok]
    /\ slots' = [i \in Backends |-> IF i = "local" /\ ok THEN LocalWorkers ELSE 0]

\* Seeded fault: the fleet is prepared whatever the pool answered.
AlwaysConfirmed == TRUE

\* FleetRuntime.prepare refuses a benchmark without a confirmed handover.
Confirmed == stage'[row] = "owned"

\* The handover is confirmed, or its request fails and is repeated in a later
\* step; then the fleet is prepared if nonces are missing.
Validated ==
    /\ \/ main = "validate" /\ Answered
       \/ main \in {"check", "validate"} /\ HelperError /\ ValidationWaived
    /\ stage' \in {stage, [stage EXCEPT ![row] = "owned"]}
    /\ \/ /\ MissingOutputs(row) # {} /\ Confirmed
          /\ main' = "recheck"
          /\ SayHello
          /\ \/ LocalPrepared(TRUE) /\ UNCHANGED faults
             \/ LocalWorkers > 0 /\ LocalPrepared(FALSE) /\ Fault("local")
       \/ /\ MissingOutputs(row) = {} \/ ~Confirmed
          /\ StepEnds
          /\ UNCHANGED <<available, slots, faults>>
    /\ UNCHANGED <<outputs, row, saved, tasks, World>>

NotValidated ==
    /\ main \in {"check", "validate"} /\ HelperError /\ ~ValidationWaived
    /\ StepEnds
    /\ UNCHANGED <<Durable, saved, Fleet, World, faults>>

Recheck ==
    /\ main = "recheck" /\ Answered
    /\ main' = "prepare"
    /\ Ask(About("prepare", row, row))
    /\ UNCHANGED <<Durable, saved, Fleet, World, faults>>

RemotePrepared ==
    /\ main = "prepare" /\ Answered
    /\ main' = "compute"
    /\ AskNothing
    /\ saved' = row
    /\ available' = [available EXCEPT !["remote"] = TRUE]
    /\ slots' = [slots EXCEPT !["remote"] = RemoteWorkers]
    /\ UNCHANGED <<Durable, tasks, World, faults>>

\* A disconnected helper is omitted, unless nothing else is available.
RemoteOmitted ==
    /\ main \in {"recheck", "prepare"} /\ HelperError
    /\ main' = IF \E i \in Backends : available[i] THEN "compute" ELSE "pause"
    /\ AskNothing
    /\ UNCHANGED <<Durable, saved, Fleet, World, faults>>

-----------------------------------------------------------------------------
(* Runner.step's executor; module Worker has its batches in detail.        *)

InFlight == {n \in Nonces : tasks[n] # "idle"}

Submit ==
    /\ main = "compute"
    /\ Cardinality(InFlight) < LocalWorkers + RemoteWorkers
    /\ \E n \in MissingOutputs(row) \ InFlight :
         /\ \A m \in MissingOutputs(row) \ InFlight : n <= m
         /\ tasks' = [tasks EXCEPT ![n] = "waiting"]
    /\ HelperStays
    /\ UNCHANGED <<Durable, main, session, calls, saved, available, slots, World, faults>>

SaveOutput ==
    /\ main = "compute"
    /\ \E n \in Nonces :
         /\ tasks[n] \in Leaves
         /\ outputs' = [outputs EXCEPT ![row][n] = tasks[n]]
         /\ tasks' = [tasks EXCEPT ![n] = "idle"]
    /\ HelperStays
    /\ UNCHANGED <<stage, row, main, session, calls, saved, available, slots, World, faults>>

TaskFailed ==
    /\ main = "compute" /\ \E n \in Nonces : tasks[n] = "failed"
    /\ main' = "shutdown"
    /\ HelperStays
    /\ UNCHANGED <<Durable, session, calls, saved, Fleet, World, faults>>

\* The executor waits for its threads, then the exception ends the step.
Shutdown ==
    /\ main = "shutdown" /\ \A n \in Nonces : tasks[n] \notin {"waiting", "local", "remote"}
    /\ tasks' = NoTasks
    /\ StepEnds
    /\ UNCHANGED <<Durable, saved, available, slots, World, faults>>

\* Every output is saved: the result is delivered, the pool asked again later.
Completed ==
    /\ main = "compute" /\ MissingOutputs(row) = {}
    /\ StepEnds
    /\ UNCHANGED <<Durable, saved, Fleet, World, faults>>

-----------------------------------------------------------------------------
(* FleetRuntime.compute: the thread of one nonce.                          *)

\* Seeded fault: the slot is put back with the result and again at the end.
SlotTwice(i, ready) == IF ready[i] THEN [slots EXCEPT ![i] = @ + 2] ELSE slots

\* A backend that is still available gets its slot back.
SlotReturned(i, ready) == IF ready[i] THEN [slots EXCEPT ![i] = @ + 1] ELSE slots

ComputeCall(n) == MessageTo("compute", row, n, PayloadOf[saved])

\* The slot of a backend that is no longer available is dropped.
TakeSlot(n) ==
    /\ tasks[n] = "waiting"
    /\ \E i \in Backends :
         /\ slots[i] > 0
         /\ slots' = [slots EXCEPT ![i] = @ - 1]
         /\ tasks' = IF available[i] THEN [tasks EXCEPT ![n] = i] ELSE tasks
         /\ IF i = "remote" /\ available[i]
            THEN Deliver(ComputeCall(n)) /\ calls' = calls \cup {Asked(ComputeCall(n))}
            ELSE HelperStays /\ UNCHANGED <<session, calls>>
    /\ UNCHANGED <<Durable, main, saved, available, World, faults>>

\* Seeded fault: a thread without a slot waits for ever.
NeverAlone == FALSE

\* The queue stayed empty for a second and no backend is left.
AllDisconnected == /\ \A i \in Backends : slots[i] = 0
                   /\ \A i \in Backends : ~available[i]

NobodyLeft(n) ==
    /\ tasks[n] = "waiting" /\ AllDisconnected
    /\ tasks' = [tasks EXCEPT ![n] = "failed"]
    /\ HelperStays
    /\ UNCHANGED <<Durable, main, session, calls, saved, available, slots, World, faults>>

LocalEnds(n) ==
    /\ tasks[n] = "local"
    /\ \/ \E leaf \in Leaves : tasks' = [tasks EXCEPT ![n] = leaf] /\ UNCHANGED faults
       \/ tasks' = [tasks EXCEPT ![n] = "failed"] /\ Fault("nonce")
    /\ slots' = SlotReturned("local", available)
    /\ HelperStays
    /\ UNCHANGED <<Durable, main, session, calls, saved, available, World>>

\* A HelperError takes the backend out; the AttributeError of an unwritten call
\* is none, and its slot comes back.
RemoteEnds(n) ==
    /\ tasks[n] = "remote"
    /\ \E c \in calls :
         /\ c.to = ComputeCall(n) /\ c.state # "pending"
         /\ calls' = calls \ {c}
         /\ \/ /\ c.state = "ok"
               /\ tasks' = [tasks EXCEPT ![n] = c.leaf]
               /\ slots' = SlotReturned("remote", available)
               /\ UNCHANGED available
            \/ /\ c.state = "error"
               /\ tasks' = [tasks EXCEPT ![n] = "failed"]
               /\ available' = [available EXCEPT !["remote"] = FALSE]
               /\ UNCHANGED slots
            \/ /\ c.state = "unwritten"
               /\ tasks' = [tasks EXCEPT ![n] = "failed"]
               /\ slots' = SlotReturned("remote", available)
               /\ UNCHANGED available
    /\ HelperStays
    /\ UNCHANGED <<Durable, main, session, saved, World, faults>>

-----------------------------------------------------------------------------
(* The end of a benchmark.                                                 *)

Finish(b) == stage' = [stage EXCEPT ![b] = "finished"] /\ row' = None

\* Seeded fault: a finished benchmark is not released.
NeverReleased == TRUE

\* RemoteRuntime.release returns at once when there is no session to ask; and
\* a benchmark that was never saved here is not released at all.
NothingToRelease == stage[row] = "offered" \/ saved = None \/ ~session

StepConcluded ==
    /\ main = "pause" /\ row \in over
    /\ \/ /\ NothingToRelease
          /\ Finish(row) /\ StepEnds
       \/ /\ ~NothingToRelease
          /\ main' = "release"
          /\ Ask(About("release", row, saved))
          /\ UNCHANGED <<stage, row>>
    /\ UNCHANGED <<outputs, saved, Fleet, World, faults>>

Released ==
    /\ main = "release" /\ Answered
    /\ saved' = None
    /\ Finish(row) /\ StepEnds
    /\ UNCHANGED <<outputs, Fleet, World, faults>>

\* The step raises before Store.finish.
NotReleased ==
    /\ main = "release" /\ HelperError
    /\ StepEnds
    /\ UNCHANGED <<Durable, saved, Fleet, World, faults>>

-----------------------------------------------------------------------------
(* The pool, and what goes wrong.                                          *)

PoolConcludes ==
    /\ row # None /\ row \notin over
    /\ over' = over \cup {row}
    /\ HelperStays
    /\ UNCHANGED <<masterVars, reachable, faults>>

\* The connection breaks; "gone" is for ever.
CutLink ==
    /\ \/ Fault("cut") /\ attached /\ UNCHANGED reachable
       \/ Fault("gone") /\ reachable /\ reachable' = FALSE
    /\ Detached
    /\ OutputKept
    /\ UNCHANGED <<process, inbox, masterVars, over>>

\* kill -9 of the master: its session's input ends at the helper.
Crash ==
    /\ Fault("crash") /\ main # "down"
    /\ main' = "down" /\ session' = FALSE /\ calls' = {} /\ saved' = None
    /\ available' = NoneReady /\ slots' = NoSlots /\ tasks' = NoTasks
    /\ Detached
    /\ OutputKept
    /\ UNCHANGED <<process, inbox, Durable, World>>

HelperFault ==
    /\ \/ Fault("kill") /\ Killed
       \/ Fault("signal") /\ Signalled
       \/ Fault("nonce") /\ \E m \in running : Computed(m, None)
       \/ Fault("docker") /\ (TakePrepareFails \/ TakeReleaseFails)
       \/ Fault("close") /\ ExitFails
    /\ UNCHANGED <<masterVars, World>>

HelperActs(step) == step /\ UNCHANGED <<masterVars, World, faults>>

MainStep ==
    \/ Started \/ StartupFails \/ Idle
    \/ StepNew \/ Offered \/ NotOffered
    \/ StepBenchmark \/ Check \/ Validated \/ NotValidated
    \/ Recheck \/ RemotePrepared \/ RemoteOmitted
    \/ Submit \/ SaveOutput \/ TaskFailed \/ Shutdown \/ Completed
    \/ StepConcluded \/ Released \/ NotReleased

ThreadStep(n) == TakeSlot(n) \/ NobodyLeft(n) \/ LocalEnds(n) \/ RemoteEnds(n)

Next ==
    \/ Launch \/ MainStep
    \/ \E n \in Nonces : ThreadStep(n)
    \/ Receive \/ SessionEnds \/ TimesOut
    \/ HelperActs(ServeStep) \/ HelperActs(Reading)
    \/ HelperActs(\E m \in running : Computing(m))
    \/ PoolConcludes \/ CutLink \/ Crash \/ HelperFault

Spec == Init /\ [][Next]_vars
=============================================================================
