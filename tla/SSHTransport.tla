---------------------------- MODULE SSHTransport ----------------------------
(***************************************************************************)
(* worker_v2/ssh_transport.py, SSHTransport at the grain of its locks and  *)
(* of its accesses to `process`: one thread per call, the reader thread of *)
(* every session, and the server at the other end.  Module MemberMaster    *)
(* uses this object as one atomic step per call, answer and failure.       *)
(*                                                                         *)
(* The main thread is one of the callers.  It opens sessions, and it does  *)
(* nothing while the executor's threads are in their calls (fleet.py,      *)
(* runner.py).  A session is the number of its ssh process, a call stands  *)
(* for its identifier, its line and its future.                            *)
(***************************************************************************)
EXTENDS Naturals, FiniteSets

CONSTANTS
    Threads,     \* the executor's threads
    Main,        \* the main thread
    MaxSessions, \* bound: ssh processes started
    MaxCalls     \* bound: calls made

ASSUME ThreadAssumption == Main \notin Threads
ASSUME BoundAssumption == MaxSessions \in Nat \ {0} /\ MaxCalls \in Nat \ {0}
ASSUME ReaderAssumption == (Threads \cup {Main}) \cap (1 .. MaxSessions) = {}

Callers == Threads \cup {Main}
Sessions == 1 .. MaxSessions
Calls == 1 .. MaxCalls

VARIABLES
    process,    \* self.process, 0 for None
    failure,    \* self.failure is set
    pending,    \* self.pending
    started,    \* how many ssh processes were started
    up,         \* ssh processes that have not ended
    made,       \* how many calls were registered
    future,     \* the future of each call
    within,     \* the session each call was registered in, 0 before
    pc,         \* where each caller is in call(), start() or close()
    call,       \* the call a caller makes, 0 for none
    held,       \* `process` in close()
    failing,    \* the futures a thread took from `pending` in _fail()
    reader,     \* where the reader thread of each session is
    popped,     \* the call whose future that reader took from `pending`
    lines       \* what the server of a session was sent and its reader has not read

object == <<process, failure, pending>>
wire == <<up, lines>>
book == <<started, made, within>>
local == <<pc, call, held>>
vars == <<object, wire, book, local, future, failing, reader, popped>>

Actors == Callers \cup Sessions

\* Where a thread is in call(), close() and start().
Points == {"idle", "register", "write", "wait", "send_resolve", "late_resolve",
           "close", "clear", "close_failed", "close_resolve", "stop", "join", "open"}

TypeOK ==
    /\ process \in 0 .. started /\ started \in 0 .. MaxSessions
    /\ failure \in BOOLEAN
    /\ pending \subseteq 1 .. made /\ made \in 0 .. MaxCalls
    /\ up \subseteq 1 .. started
    /\ future \in [Calls -> {"none", "open", "ok", "error"}]
    /\ within \in [Calls -> 0 .. started] /\ \A c \in 1 .. made : within[c] # 0
    /\ pc \in [Callers -> Points]
    /\ call \in [Callers -> 0 .. made]
    /\ held \in [Callers -> 0 .. started]
    /\ failing \in [Actors -> SUBSET (1 .. made)]
    /\ reader \in [Sessions -> {"none", "reading", "resolve", "raised", "failed",
                               "failed_resolve", "done"}]
    /\ popped \in [Sessions -> 0 .. made]
    /\ lines \in [Sessions -> SUBSET (1 .. made)]

Init ==
    /\ process = 0 /\ failure = FALSE /\ pending = {}
    /\ started = 0 /\ up = {} /\ made = 0
    /\ future = [c \in Calls |-> "none"] /\ within = [c \in Calls |-> 0]
    /\ pc = [t \in Callers |-> "idle"] /\ call = [t \in Callers |-> 0]
    /\ held = [t \in Callers |-> 0] /\ failing = [a \in Actors |-> {}]
    /\ reader = [s \in Sessions |-> "none"] /\ popped = [s \in Sessions |-> 0]
    /\ lines = [s \in Sessions |-> {}]

Goto(t, point) == pc' = [pc EXCEPT ![t] = point] /\ UNCHANGED <<call, held>>

\* call() returned or raised, start() returned.
Back(t) ==
    /\ pc' = [pc EXCEPT ![t] = "idle"]
    /\ call' = [call EXCEPT ![t] = 0] /\ held' = [held EXCEPT ![t] = 0]

alive == process \in up /\ ~failure

\* The executor's threads call while the main thread waits for them.
Quiet == \A t \in Callers : pc[t] = "idle"
MayCall(t) == pc[t] = "idle" /\ IF t = Main THEN Quiet ELSE pc[Main] = "idle"

-----------------------------------------------------------------------------
(* _fail(): under the lock the failure is set and every pending future     *)
(* taken; outside of it they are resolved, one after the other.            *)

\* Seeded fault: the futures are failed but stay pending.
FailedStayPending(a) ==
    /\ failure' = TRUE
    /\ failing' = [failing EXCEPT ![a] = pending]
    /\ UNCHANGED pending

TakePending(a) ==
    /\ failure' = TRUE
    /\ failing' = [failing EXCEPT ![a] = pending]
    /\ pending' = {}

\* `if not future.done()` decides for a future another thread has resolved.
ResolveOne(a) ==
    \E c \in failing[a] :
        /\ failing' = [failing EXCEPT ![a] = @ \ {c}]
        /\ future' = IF future[c] = "open" THEN [future EXCEPT ![c] = "error"] ELSE future

-----------------------------------------------------------------------------
(* call().                                                                 *)

\* Without a session the call raises at once and changes nothing.
EnterCall(t) ==
    /\ MayCall(t) /\ alive /\ made < MaxCalls
    /\ Goto(t, "register")
    /\ UNCHANGED <<object, wire, book, future, failing, reader, popped>>

\* Seeded fault: a call is registered after the session has failed.
AnySession == TRUE

NotFailed == ~failure

Register(t) ==
    /\ pc[t] = "register"
    /\ \/ /\ NotFailed /\ made < MaxCalls
          /\ made' = made + 1
          /\ future' = [future EXCEPT ![made + 1] = "open"]
          /\ within' = [within EXCEPT ![made + 1] = process]
          /\ pending' = pending \cup {made + 1}
          /\ call' = [call EXCEPT ![t] = made + 1]
          /\ pc' = [pc EXCEPT ![t] = "write"]
          /\ UNCHANGED held
       \/ /\ ~NotFailed \/ made = MaxCalls
          /\ Back(t)
          /\ UNCHANGED <<made, future, within, pending>>
    /\ UNCHANGED <<process, failure, wire, started, failing, reader, popped>>

\* The write fails if the process has ended; so does one on the stream of a
\* process close() has taken meanwhile, unless `process` is read only now: then
\* the AttributeError leaves the call.
Write(t) ==
    /\ pc[t] = "write"
    /\ \/ /\ process \in up
          /\ lines' = [lines EXCEPT ![process] = @ \cup {call[t]}]
          /\ Goto(t, "wait")
          /\ UNCHANGED <<failure, pending, failing>>
       \/ /\ process \notin up
          /\ TakePending(t)
          /\ Goto(t, "send_resolve")
          /\ UNCHANGED lines
       \/ /\ process = 0
          /\ Back(t)
          /\ UNCHANGED <<failure, pending, failing, lines>>
    /\ UNCHANGED <<process, up, book, future, reader, popped>>

\* The future of a call has a result or an exception.
Returned(t) ==
    /\ pc[t] = "wait" /\ future[call[t]] \in {"ok", "error"}
    /\ Back(t)
    /\ UNCHANGED <<object, wire, book, future, failing, reader, popped>>

\* The timeout fails every pending call, then the session is closed.
TimeOut(t) ==
    /\ pc[t] = "wait" /\ future[call[t]] = "open"
    /\ TakePending(t)
    /\ Goto(t, "late_resolve")
    /\ UNCHANGED <<process, wire, book, future, reader, popped>>

Resolve(t) ==
    /\ pc[t] \in {"send_resolve", "late_resolve", "close_resolve"}
    /\ \/ /\ ResolveOne(t)
          /\ UNCHANGED local
       \/ /\ failing[t] = {}
          /\ \/ pc[t] = "send_resolve" /\ Back(t)
             \/ pc[t] = "late_resolve" /\ Goto(t, "close")
             \/ pc[t] = "close_resolve" /\ Goto(t, "stop")
          /\ UNCHANGED <<failing, future>>
    /\ UNCHANGED <<object, wire, book, reader, popped>>

-----------------------------------------------------------------------------
(* close(), by a call that timed out or by start().                        *)

\* What follows close(): start() opens the next session, a call raises.
Closed(t) == IF call[t] = 0 THEN Goto(t, "open") ELSE Back(t)

\* `process` is read before it is cleared: two threads may hold the same one.
CloseRead(t) ==
    /\ pc[t] = "close"
    /\ held' = [held EXCEPT ![t] = process]
    /\ pc' = [pc EXCEPT ![t] = "clear"]
    /\ UNCHANGED <<call, object, wire, book, future, failing, reader, popped>>

CloseClear(t) ==
    /\ pc[t] = "clear"
    /\ process' = 0
    /\ IF held[t] = 0 THEN Closed(t) ELSE Goto(t, "close_failed")
    /\ UNCHANGED <<failure, pending, wire, book, future, failing, reader, popped>>

CloseFails(t) ==
    /\ pc[t] = "close_failed"
    /\ TakePending(t)
    /\ Goto(t, "close_resolve")
    /\ UNCHANGED <<process, wire, book, future, reader, popped>>

\* The input is closed; the process ends by itself or is terminated.
Stop(t) ==
    /\ pc[t] = "stop"
    /\ up' = up \ {held[t]}
    /\ Goto(t, "join")
    /\ UNCHANGED <<object, lines, book, future, failing, reader, popped>>

\* Seeded fault: the reader is not waited for.
NotJoined(t) == TRUE

\* The reader of an ended process ends; the five seconds of the join are enough.
ReaderJoined(t) == reader[held[t]] = "done"

Join(t) ==
    /\ pc[t] = "join" /\ ReaderJoined(t)
    /\ Closed(t)
    /\ UNCHANGED <<object, wire, book, future, failing, reader, popped>>

-----------------------------------------------------------------------------
(* start(), by the main thread.                                            *)

Start ==
    /\ Quiet /\ ~alive /\ started < MaxSessions
    /\ Goto(Main, "close")
    /\ UNCHANGED <<object, wire, book, future, failing, reader, popped>>

\* The ssh process is started with its reader, or cannot be started.
Open ==
    /\ pc[Main] = "open"
    /\ failure' = FALSE
    /\ started' = started + 1
    /\ \/ /\ process' = started + 1 /\ up' = up \cup {started + 1}
          /\ reader' = [reader EXCEPT ![started + 1] = "reading"]
       \/ UNCHANGED <<process, up, reader>>
    /\ Back(Main)
    /\ UNCHANGED <<pending, lines, made, within, future, failing, popped>>

-----------------------------------------------------------------------------
(* The reader thread of a session.                                         *)

\* The server answers when it likes, and its answers may be lost with the
\* session.  A response resolves the future it names, which is taken under the
\* lock; one that names none ends the reader.
ReadReply(s) ==
    /\ reader[s] = "reading"
    /\ \E c \in lines[s] :
         /\ lines' = [lines EXCEPT ![s] = @ \ {c}]
         /\ pending' = pending \ {c}
         /\ IF c \in pending
            THEN /\ reader' = [reader EXCEPT ![s] = "resolve"]
                 /\ popped' = [popped EXCEPT ![s] = c]
            ELSE reader' = [reader EXCEPT ![s] = "raised"] /\ UNCHANGED popped
    /\ UNCHANGED <<process, failure, up, book, local, future, failing>>

\* A future that is resolved already raises InvalidStateError here.
ResolveReply(s) ==
    /\ reader[s] = "resolve"
    /\ IF future[popped[s]] = "open"
       THEN /\ \E result \in {"ok", "error"} : future' = [future EXCEPT ![popped[s]] = result]
            /\ reader' = [reader EXCEPT ![s] = "reading"]
       ELSE reader' = [reader EXCEPT ![s] = "raised"] /\ UNCHANGED future
    /\ popped' = [popped EXCEPT ![s] = 0]
    /\ UNCHANGED <<object, wire, book, local, failing>>

\* The output ends, or a line is no valid response.
ReadRaises(s) ==
    /\ reader[s] = "reading"
    /\ reader' = [reader EXCEPT ![s] = "raised"]
    /\ UNCHANGED <<object, wire, book, local, future, failing, popped>>

\* if self.process is process
StillOurs(s) ==
    /\ reader[s] = "raised"
    /\ reader' = [reader EXCEPT ![s] = IF process = s THEN "failed" ELSE "done"]
    /\ UNCHANGED <<object, wire, book, local, future, failing, popped>>

ReaderFails(s) ==
    /\ reader[s] = "failed"
    /\ TakePending(s)
    /\ reader' = [reader EXCEPT ![s] = "failed_resolve"]
    /\ UNCHANGED <<process, wire, book, local, future, popped>>

ReaderResolves(s) ==
    /\ reader[s] = "failed_resolve"
    /\ \/ ResolveOne(s) /\ UNCHANGED reader
       \/ /\ failing[s] = {}
          /\ reader' = [reader EXCEPT ![s] = "done"]
          /\ UNCHANGED <<failing, future>>
    /\ UNCHANGED <<object, wire, book, local, popped>>

\* The connection breaks or the helper ends.
Ends(s) ==
    /\ s \in up
    /\ up' = up \ {s}
    /\ UNCHANGED <<object, lines, book, local, future, failing, reader, popped>>

-----------------------------------------------------------------------------
\* Nothing is under way and the bounds allow no further call or session.
Rest == Quiet /\ UNCHANGED vars

CallerStep(t) ==
    \/ Register(t) \/ Write(t) \/ Returned(t) \/ Resolve(t)
    \/ CloseRead(t) \/ CloseClear(t) \/ CloseFails(t) \/ Stop(t) \/ Join(t)
    \/ t = Main /\ Open

ReaderStep(s) ==
    \/ ReadReply(s) \/ ResolveReply(s) \/ StillOurs(s)
    \/ ReaderFails(s) \/ ReaderResolves(s)

Next ==
    \/ \E t \in Callers : EnterCall(t) \/ CallerStep(t) \/ TimeOut(t)
    \/ Start \/ Rest
    \/ \E s \in Sessions : ReaderStep(s) \/ ReadRaises(s) \/ Ends(s)

Spec == Init /\ [][Next]_vars
=============================================================================
