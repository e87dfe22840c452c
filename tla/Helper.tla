------------------------------- MODULE Helper -------------------------------
(***************************************************************************)
(* A member's compute helper: one server that runs worker_v2/helper.py for *)
(* the SSH session of its master.  The process has a reader thread, the    *)
(* main thread of serve() and the executor's threads, which meet in one    *)
(* event queue; it owns a durable store (EvidenceStore), one runtime       *)
(* container per benchmark, and a process lock that lets one process serve *)
(* at a time.  The session to the master may break while any of them is at *)
(* work; `attached` says that the process still has its master.            *)
(*                                                                         *)
(* Data abstraction.  The identifier of a message is the message itself:   *)
(* the master never has two equal requests under way in one session, and   *)
(* nothing of one session reaches another.                                 *)
(***************************************************************************)
EXTENDS EvidenceStore, Sequences

CONSTANTS
    PayloadOf,      \* the master's saved assignment payload of each benchmark
    HelperWorkers   \* config["workers"] of the helper

ASSUME PayloadOfAssumption == PayloadOf \in [Benchmarks -> Payloads]
ASSUME HelperWorkersAssumption == HelperWorkers \in Nat \ {0}

VARIABLES
    runtimes,   \* durable: benchmarks whose runtime container exists here
    helper,     \* the process: "off", in the loop of serve(), or past it
    attached,   \* the session's pipes lead to a master that reads them
    inbox,      \* request lines the reader has not read yet
    reading,    \* the reader thread has not reached the end of its input
    events,     \* the queue of serve()
    closing,    \* serve() has taken an "eof" event
    active,     \* serve()'s requests under computation
    running,    \* the computations the executor's threads are executing
    prepared,   \* Helper.prepared
    replies     \* response lines on their way to the master

process == <<helper, reading, events, closing, active, running, prepared>>
helperVars == <<evidenceVars, runtimes, process, attached, inbox, replies>>

Message == [op : {"hello", "validate", "prepare", "compute", "release"},
            bench : Benchmarks \cup {None}, nonce : Nonces \cup {None},
            digest : Payloads \cup {None}]
Reply == [to : Message, ok : BOOLEAN, leaf : Leaves \cup {None}]
Event == [kind : {"request", "complete", "eof", "input_error"},
          of : Message \cup {None}, leaf : Leaves \cup {None}]

HelperTypeOK ==
    /\ StoreTypeOK
    /\ runtimes \subseteq Benchmarks
    /\ helper \in {"off", "serving", "leaving"}
    /\ attached \in BOOLEAN /\ reading \in BOOLEAN /\ closing \in BOOLEAN
    /\ inbox \in Seq(Message) /\ events \in Seq(Event)
    /\ active \subseteq Message /\ running \subseteq Message
    /\ prepared \in Benchmarks \cup {None}
    /\ replies \subseteq Reply

HelperInit ==
    /\ StoreInit
    /\ runtimes = {}
    /\ helper = "off" /\ attached = FALSE
    /\ inbox = <<>> /\ reading = FALSE /\ events = <<>>
    /\ closing = FALSE /\ active = {} /\ running = {}
    /\ prepared = None /\ replies = {}

Queued(kind, m, leaf) == Append(events, [kind |-> kind, of |-> m, leaf |-> leaf])
OutputKept == UNCHANGED <<evidenceVars, runtimes>>

-----------------------------------------------------------------------------
(* The session.                                                            *)

\* What serve() and main() start from; the lock is free.
Launched ==
    /\ helper' = "serving" /\ attached' = TRUE
    /\ reading' = TRUE /\ events' = <<>>
    /\ closing' = FALSE /\ active' = {} /\ running' = {}
    /\ prepared' = None /\ replies' = {}

\* The pipes are gone: responses in transit are lost, requests may be too.
Detached == attached' = FALSE /\ replies' = {}

\* These lines never reach the helper, the others keep their order.
NotWritten(lost) ==
    LET kept == {j \in DOMAIN inbox : inbox[j] \notin lost}
    IN  \E place \in [1 .. Cardinality(kept) -> kept] :
          /\ \A i, j \in DOMAIN place : i < j => place[i] < place[j]
          /\ inbox' = [j \in DOMAIN place |-> inbox[place[j]]]

-----------------------------------------------------------------------------
(* The reader thread.                                                      *)

ReadRequest ==
    /\ reading /\ inbox # <<>>
    /\ events' = Queued("request", Head(inbox), None)
    /\ inbox' = Tail(inbox)
    /\ OutputKept
    /\ UNCHANGED <<helper, reading, closing, active, running, prepared, attached, replies>>

\* Lines that carry an assignment are long enough to arrive in part.
LongLine(m) == m.op \in {"validate", "prepare"}

\* The input ends: after its last line, in the middle of one, or before it.
ReadEnd ==
    /\ reading /\ ~attached
    /\ reading' = FALSE /\ inbox' = <<>>
    /\ \/ events' = Queued("eof", None, None)
       \/ /\ inbox # <<>> /\ LongLine(Head(inbox))
          /\ events' = Append(Queued("input_error", None, None),
                              [kind |-> "eof", of |-> None, leaf |-> None])
    /\ OutputKept
    /\ UNCHANGED <<helper, closing, active, running, prepared, attached, replies>>

-----------------------------------------------------------------------------
(* The executor's threads.                                                 *)

\* A computation ends, with its output or (None) with an exception.
Computed(m, leaf) ==
    /\ m \in running
    /\ running' = running \ {m}
    /\ events' = Queued("complete", m, leaf)
    /\ OutputKept
    /\ UNCHANGED <<helper, reading, closing, active, prepared, attached, inbox, replies>>

-----------------------------------------------------------------------------
(* The main thread: one event of serve() per action.                       *)

Serving == helper = "serving" /\ (~closing \/ active # {}) /\ events # <<>>
Taken == events' = Tail(events)

\* reply(): without a master the line is lost in the pipe, or the write raises;
\* serve() answers an exception with another reply, which raises out of it.
Answer(m, ok, leaf) ==
    \/ /\ attached
       /\ replies' = replies \cup {[to |-> m, ok |-> ok, leaf |-> leaf]}
       /\ UNCHANGED helper
    \/ ~attached /\ helper' \in {"serving", "leaving"} /\ UNCHANGED replies

NoAnswer == UNCHANGED <<helper, replies>>

TakeEnd ==
    /\ Serving /\ Head(events).kind \in {"eof", "input_error"}
    /\ Taken
    /\ \/ Head(events).kind = "eof" /\ closing' = TRUE /\ UNCHANGED helper
       \/ Head(events).kind = "input_error" /\ helper' = "leaving" /\ UNCHANGED closing
    /\ OutputKept
    /\ UNCHANGED <<reading, active, running, prepared, attached, inbox, replies>>

\* Seeded fault: the response is sent before the output is durable.
UnsavedCompletion(b, n, leaf) == UNCHANGED nonces

\* Helper.save.
SaveCompletion(b, n, leaf) == SaveNonce(b, n, leaf)

\* Seeded fault: a failed computation stays among the requests under way.
FailedStays(m, leaf) == IF leaf = None THEN active ELSE active \ {m}

\* active.pop: the request is no longer under way, whatever came of it.
Popped(m, leaf) == active \ {m}

\* The output of a computation: saved first, then sent if the master is there.
TakeComplete ==
    /\ Serving /\ Head(events).kind = "complete"
    /\ Taken
    /\ LET m == Head(events).of
           leaf == Head(events).leaf
           saves == leaf # None /\ nonces[m.bench][m.nonce] \in {None, leaf}
       IN  /\ active' = Popped(m, leaf)
           /\ IF saves THEN SaveCompletion(m.bench, m.nonce, leaf) ELSE UNCHANGED nonces
           /\ IF closing THEN NoAnswer
              ELSE Answer(m, saves, IF saves THEN leaf ELSE None)
    /\ UNCHANGED <<assignments, runtimes, reading, closing, running, prepared, attached, inbox>>

\* Requests read before the end of the input but taken after it are dropped.
DropRequest ==
    /\ Serving /\ Head(events).kind = "request" /\ closing
    /\ Taken
    /\ OutputKept
    /\ UNCHANGED <<helper, reading, closing, active, running, prepared, attached, inbox, replies>>

\* A request of this operation is next.
Request(op) ==
    /\ Serving /\ Head(events).kind = "request" /\ ~closing
    /\ Head(events).of.op = op
    /\ Taken
    /\ UNCHANGED <<reading, closing, attached, inbox>>

\* Helper.assignment: this session has prepared exactly this assignment.
Prepared(m) == prepared = m.bench /\ assignments[m.bench].payload = m.digest

\* hello and validate answer from the configuration, which the model assumes to
\* match the master's; nothing may change or be promised during a computation.
TakeInquiry ==
    /\ \E op \in {"hello", "validate"} : Request(op)
    /\ LET m == Head(events).of IN Answer(m, m.op = "hello" \/ active = {}, None)
    /\ OutputKept
    /\ UNCHANGED <<active, running, prepared>>

TakePrepare ==
    /\ Request("prepare")
    /\ LET m == Head(events).of
           accepted == active = {} /\ prepared \in {None, m.bench}
                       /\ assignments[m.bench].payload \in {None, m.digest}
       IN  \/ /\ accepted
              /\ assignments' = [assignments EXCEPT ![m.bench].payload = m.digest,
                                                    ![m.bench].acknowledged = TRUE]
              /\ runtimes' = runtimes \cup {m.bench} /\ prepared' = m.bench
              /\ Answer(m, TRUE, None)
           \/ ~accepted /\ Answer(m, FALSE, None) /\ UNCHANGED <<assignments, runtimes, prepared>>
    /\ UNCHANGED <<nonces, active, running>>

\* Docker refuses: the assignment is saved; a new runtime may exist or not, an
\* old one with other limits may be removed already.
TakePrepareFails ==
    /\ Request("prepare")
    /\ LET m == Head(events).of
       IN  /\ active = {} /\ prepared \in {None, m.bench}
           /\ assignments[m.bench].payload \in {None, m.digest}
           /\ assignments' = [assignments EXCEPT ![m.bench].payload = m.digest,
                                                 ![m.bench].acknowledged = TRUE]
           /\ runtimes' \in {runtimes, runtimes \cup {m.bench}, runtimes \ {m.bench}}
           /\ Answer(m, FALSE, None)
    /\ UNCHANGED <<nonces, active, running, prepared>>

\* A saved output is sent again, otherwise the nonce is computed if there is
\* room.  Nobody else computes it: the master asks once per session.
TakeCompute ==
    /\ Request("compute")
    /\ LET m == Head(events).of
           saved == nonces[m.bench][m.nonce]
           starts == Prepared(m) /\ saved = None /\ Cardinality(active) < HelperWorkers
       IN  \/ /\ starts
              /\ active' = active \cup {m} /\ running' = running \cup {m}
              /\ NoAnswer
           \/ /\ ~starts
              /\ Answer(m, Prepared(m) /\ saved # None, IF Prepared(m) THEN saved ELSE None)
              /\ UNCHANGED <<active, running>>
    /\ OutputKept
    /\ UNCHANGED prepared

TakeRelease ==
    /\ Request("release")
    /\ LET m == Head(events).of
           accepted == active = {} /\ m.bench = prepared /\ Prepared(m)
       IN  \/ /\ accepted
              /\ runtimes' = runtimes \ {m.bench} /\ prepared' = None
              /\ Answer(m, TRUE, None)
           \/ ~accepted /\ Answer(m, FALSE, None) /\ UNCHANGED <<runtimes, prepared>>
    /\ UNCHANGED <<evidenceVars, active, running>>

\* Docker refuses to remove the runtime, or its docker inspect fails and reads as
\* "no container": the runtime stays, and in the second case the release succeeds.
TakeReleaseFails ==
    /\ Request("release")
    /\ LET m == Head(events).of
       IN  /\ active = {} /\ m.bench = prepared /\ Prepared(m)
           /\ \/ Answer(m, FALSE, None) /\ UNCHANGED prepared
              \/ Answer(m, TRUE, None) /\ prepared' = None
    /\ OutputKept
    /\ UNCHANGED <<active, running>>

\* Seeded fault: the loop ends without the computations under way.
LeaveAtOnce ==
    /\ helper = "serving" /\ closing
    /\ helper' = "leaving"
    /\ OutputKept
    /\ UNCHANGED <<reading, events, closing, active, running, prepared, attached, inbox, replies>>

\* The loop ends when the input has ended and every computation was taken.
Leave ==
    /\ helper = "serving" /\ closing /\ active = {}
    /\ helper' = "leaving"
    /\ OutputKept
    /\ UNCHANGED <<reading, events, closing, active, running, prepared, attached, inbox, replies>>

\* Seeded fault: the runtime is removed before the executor's threads are done.
ThreadsIgnored == TRUE

\* executor.shutdown(wait=True)
ThreadsDone == running = {}

\* Seeded fault: the process ends without Helper.close.
NothingCleaned == runtimes

\* Helper.close: the runtime this session prepared is removed.
Cleaned == runtimes \ {prepared}

\* The process ends: the lock is free again, the master sees its output end.
Exit ==
    /\ helper = "leaving" /\ ThreadsDone
    /\ runtimes' = Cleaned
    /\ helper' = "off" /\ prepared' = None /\ reading' = FALSE /\ inbox' = <<>>
    /\ Detached
    /\ UNCHANGED <<evidenceVars, events, closing, active, running>>

\* Docker refuses to remove the runtime: the process ends without it.
ExitFails ==
    /\ helper = "leaving" /\ ThreadsDone /\ prepared # None
    /\ helper' = "off" /\ prepared' = None /\ reading' = FALSE /\ inbox' = <<>>
    /\ Detached
    /\ OutputKept
    /\ UNCHANGED <<events, closing, active, running>>

\* kill -9 or the loss of the server: nothing is saved or cleaned up.
Killed ==
    /\ helper # "off"
    /\ helper' = "off" /\ prepared' = None /\ reading' = FALSE /\ inbox' = <<>>
    /\ events' = <<>> /\ closing' = FALSE /\ active' = {} /\ running' = {}
    /\ Detached
    /\ OutputKept

\* SIGTERM and SIGINT queue the same event as the end of the input.
Signalled ==
    /\ helper = "serving"
    /\ events' = Queued("eof", None, None)
    /\ OutputKept
    /\ UNCHANGED <<helper, reading, closing, active, running, prepared, attached, inbox, replies>>

ServeStep ==
    \/ TakeEnd \/ TakeComplete \/ DropRequest
    \/ TakeInquiry \/ TakePrepare \/ TakeCompute \/ TakeRelease
    \/ Leave \/ Exit
Reading == ReadRequest \/ ReadEnd
Computing(m) == \E leaf \in Leaves : Computed(m, leaf)
=============================================================================
