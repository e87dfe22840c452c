------------------------ MODULE MemberMasterProperties ------------------------
(***************************************************************************)
(* What the member master and its helper promise together.                 *)
(***************************************************************************)
EXTENDS MemberMaster, HelperProperties

\* A confirmed handover at the master, or a benchmark that had one.
HandedOver(b) == stage[b] \in {"owned", "finished"}

\* The helper starts a runtime, computes and saves only for a benchmark whose
\* handover the master has confirmed, whatever sessions, crashes and retries lie
\* between the two stores (fleet.py:112-114, helper.py:63-79).
HelperWorksForHandedOver ==
    \A b \in Benchmarks :
        \/ b \in runtimes
        \/ assignments[b].acknowledged
        \/ \E n \in Nonces : nonces[b][n] # None
        \/ \E m \in running : m.bench = b
        => HandedOver(b)

\* An output on its way to the master is the one the helper has saved: a helper
\* that dies or is asked again never contradicts what the master received
\* (helper.py:89-93, 158-160, 173-175; SSH_MEMBER_MASTER_V2.md:17).
AnsweredIsSaved ==
    /\ \A r \in replies : r.ok /\ r.to.op = "compute" => nonces[r.to.bench][r.to.nonce] = r.leaf
    /\ \A c \in calls : c.state = "ok" /\ c.to.op = "compute" => nonces[c.to.bench][c.to.nonce] = c.leaf

\* A computation of the helper never loses its container, neither to a request
\* nor to the end of its session (helper.py:189, 197-198).
RuntimeOutlivesComputation ==
    \A m \in running : m.bench \in runtimes /\ prepared = m.bench

\* The nonces whose thread has a slot of this backend.
Holding(i) == {n \in Nonces : tasks[n] = i}

\* Every slot of a backend that is available is in the queue or with the thread
\* that uses it, so no nonce starves and none is overcommitted (fleet.py:134-158).
SlotsConserved ==
    main \in {"compute", "shutdown"} =>
        \A i \in Backends : available[i] =>
            slots[i] + Cardinality(Holding(i)) = Capacity(i)

-----------------------------------------------------------------------------
(* The inductive invariant behind these properties, see HelperProofs and   *)
(* MemberMasterProofs.                                                     *)

\* Who waits for the helper: the main thread alone, or the threads of the executor.
MainCalls ==
    /\ \A c, d \in calls : c.to = d.to => c = d
    /\ main \in {"down", "pause"} => calls = {}
    /\ main \in {"startup", "offer", "check", "recheck"} => \A c \in calls : c.to = Hello
    /\ main = "validate" => \A c \in calls : c.to = About("validate", row, row)
    /\ main = "prepare" => \A c \in calls : c.to = About("prepare", row, row)
    /\ main = "release" => \A c \in calls : c.to = About("release", row, saved)
    /\ main \in {"compute", "shutdown"} =>
           \A c \in calls : \E n \in Nonces : tasks[n] = "remote" /\ c.to = ComputeCall(n)

\* The benchmark of a step, and the executor's tasks while there is one.
StepInHand ==
    /\ main \in {"check", "validate", "recheck", "prepare", "compute", "shutdown", "release"} =>
           row # None
    /\ main \in {"recheck", "prepare", "compute", "shutdown"} => stage[row] = "owned"
    /\ main = "release" => saved # None
    /\ main \notin {"compute", "shutdown"} => tasks = NoTasks
    /\ main \in {"compute", "shutdown"} =>
           /\ available["remote"] => saved = row
           /\ \A n \in Nonces : tasks[n] # "idle" => outputs[row][n] = None
    /\ main \in {"recheck", "prepare"} =>
           /\ ~available["remote"]
           /\ \A i \in Backends : available[i] => slots[i] = Capacity(i)
    /\ \A n \in Nonces : tasks[n] \in {"local", "remote"} => tasks[n] \in Backends

\* What the helper holds of the session was asked for and is waited for.
SessionAsked ==
    /\ attached => session
    /\ attached => \A m \in UnderWay : \E c \in Pending : c.to = m

\* The handover comes before every preparation.
HandoverFirst ==
    /\ \A m \in Requests : m.op = "prepare" => HandedOver(m.bench)
    /\ \A m \in active : HandedOver(m.bench)
    /\ prepared # None => HandedOver(prepared)
    /\ HelperWorksForHandedOver

\* Who was told that the helper is prepared finds its container there.
PreparedIsReady ==
    attached /\ prepared \notin runtimes \cup {None} =>
        /\ main \in {"compute", "shutdown"} => ~available["remote"]
        /\ \A r \in replies : ~(r.ok /\ r.to.op = "prepare")
        /\ \A c \in calls : ~(c.state = "ok" /\ c.to.op = "prepare")

\* A received output is saved at the helper.
ReceivedSaved ==
    \A c \in calls : c.state = "ok" /\ c.to.op = "compute" =>
        /\ c.leaf # None /\ nonces[c.to.bench][c.to.nonce] = c.leaf

\* What the other parts of the fleet know of one another.
SharedInv ==
    /\ TypeOK /\ HelperInv
    /\ MainCalls /\ StepInHand /\ SlotsConserved
    /\ SessionAsked /\ HandoverFirst /\ PreparedIsReady /\ ReceivedSaved

-----------------------------------------------------------------------------
(* Who waits for what: the account of the calls.                           *)

\* Where the main thread waits for the answer to its own call.
Awaiting == {"startup", "offer", "check", "validate", "recheck", "prepare", "release"}

\* Who waits has a call, and no thread of the main thread finds it unwritten.
WaitersHaveCalls ==
    /\ main \in Awaiting => \E c \in calls : c.state # "unwritten"
    /\ \A n \in Nonces : tasks[n] = "remote" => \E c \in calls : c.to = ComputeCall(n)

\* What is pending was asked in a session that is not known to be broken, and
\* the helper has it, unless its process is on its way to the exit.
PendingIsUnderWay ==
    /\ Pending # {} => session
    /\ attached /\ ~closing /\ helper = "serving" => \A c \in Pending : c.to \in UnderWay
    /\ NothingIdle

CallAccount == WaitersHaveCalls /\ PendingIsUnderWay

FleetInv == SharedInv /\ CallAccount

\* An unresolved call is on the way to its answer or to the end of its session.
InHand(c) ==
    session /\ \/ ~attached \/ closing \/ helper = "leaving"
               \/ c.to \in Unread /\ reading
               \/ c.to \in Of("request") \cup running \cup Of("complete") \cup AnsweredTo

\* Nobody waits in vain at the master: a call is resolved, in the hands of the
\* helper, or of a session about to end; and a thread without a slot finds one,
\* or another thread that holds one and will give it back or take its backend
\* out, or sees that no backend is left (fleet.py:127-158,
\* ssh_transport.py:104-118, 128-146, helper.py:141-200).
NobodyWaitsInVain ==
    /\ main \in Awaiting => \E c \in calls : c.state \in {"ok", "error"} \/ InHand(c)
    /\ \A n \in Nonces :
           /\ tasks[n] = "remote" =>
                  \E c \in calls : c.to = ComputeCall(n) /\ (c.state = "pending" => InHand(c))
           /\ tasks[n] = "waiting" =>
                  \/ AllDisconnected
                  \/ \E i \in Backends : slots[i] > 0 \/ (available[i] /\ Holding(i) # {})

\* What a coordinator, a master without workers of its own, has of a nonce is what
\* its helper has saved (fleet.py:134-158, helper.py:89-93).
HelperHasIt ==
    /\ \A b \in Benchmarks, n \in Nonces : outputs[b][n] \in {None, nonces[b][n]}
    /\ \A n \in Nonces : tasks[n] \in Leaves => nonces[row][n] = tasks[n]

-----------------------------------------------------------------------------
\* The helper process that ended by itself left no runtime behind, unless it was
\* killed or Docker refused (helper.py:101-105, 196-198; fleet.py:56 "EOF makes
\* the helper save in-flight work and clean up its runtime").
NoRuntimeWithoutProcess == helper = "off" => runtimes = {}

\* An output a session's thread has computed and nobody has saved yet.
Unsaved(e) == e.kind = "complete" /\ e.leaf # None /\ nonces[e.of.bench][e.of.nonce] # e.leaf

\* helper.py:142 "completed nonce evidence is still saved before exit"; and
\* SSH_MEMBER_MASTER_V2.md:100 "An old session finishes bounded in-flight work
\* and cleans up after input closes".  It is what happens after a signal; after
\* a broken connection the code may leave completed outputs in its queue.
SavedBeforeExit == helper = "off" => \A j \in DOMAIN events : ~Unsaved(events[j])

\* The part of it that the code keeps: a helper that ends by itself while it
\* still has its master, after a signal, leaves no output unsaved
\* (helper.py:141-164, 196-200).
SavedWhileAttached == [][attached /\ helper # "off" /\ helper' = "off" => SavedBeforeExit']_vars

\* No step of the master, of the helper or of a failure changes or drops an output
\* or an assignment that one of the two stores has (state.py:105-164,
\* fleet.py:150-153, helper.py:89-93).
StoresOnlyGrow ==
    [][\A b \in Benchmarks :
          /\ assignments[b].payload # None => assignments'[b].payload = assignments[b].payload
          /\ assignments[b].acknowledged => assignments'[b].acknowledged
          /\ \A n \in Nonces : /\ nonces[b][n] # None => nonces'[b][n] = nonces[b][n]
                               /\ outputs[b][n] # None => outputs'[b][n] = outputs[b][n]]_vars

-----------------------------------------------------------------------------
(* Liveness.  Threads run; computations end (nonce_timeout_seconds), locally *)
(* and at the helper; the ends of a pipe are noticed, by the master through  *)
(* ServerAliveInterval (ssh_transport.py:44), at the helper's server through *)
(* the keepalive of its own transport; the master's process is launched      *)
(* again.                                                                    *)

HelperFairness ==
    /\ WF_vars(HelperActs(ServeStep))
    /\ WF_vars(HelperActs(Reading))
    /\ WF_vars(HelperActs(\E m \in running : Computing(m)))

MasterFairness ==
    /\ WF_vars(Launch) /\ WF_vars(MainStep)
    /\ \A n \in Nonces : WF_vars(ThreadStep(n))
    /\ WF_vars(Receive) /\ WF_vars(SessionEnds)

FairSpec == Spec /\ HelperFairness /\ MasterFairness

\* SSH_MEMBER_MASTER_V2.md:96 "After confirmed handover, a disconnected helper
\* can be omitted while the remaining compatible compute resumes unfinished
\* nonces": a handed-over benchmark is completed, or the pool is done with it.
HandedOverIsCompleted ==
    \A b \in Benchmarks : (stage[b] = "owned") ~> (MissingOutputs(b) = {} \/ b \in over)

\* A session whose master is gone ends, and with it its lock: a later session
\* gets through (SSH_MEMBER_MASTER_V2.md:100-102).
OldSessionEnds == (helper # "off" /\ ~attached) ~> (helper = "off")

\* The helper does not keep the container of a finished benchmark, as long as its
\* Docker does not fail (fleet.py:54-61, 160-168).
FinishedIsCleanedUp ==
    \A b \in Benchmarks : (stage[b] = "finished") ~> (b \notin runtimes)

\* WORKER_V2.md:58 "Keep ownership until TIG activation, verification failure or
\* definitive expiry. Retain assignment and nonce evidence after freeing the
\* local slot": the slot of a concluded benchmark is freed.
ConcludedIsFreed ==
    \A b \in Benchmarks : (row = b /\ b \in over) ~> (row # b)
=============================================================================
