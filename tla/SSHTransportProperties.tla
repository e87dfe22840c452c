----------------------- MODULE SSHTransportProperties -----------------------
(***************************************************************************)
(* What module MemberMaster takes for granted of a session: its failure is *)
(* one step that reaches all its calls and no others.                      *)
(***************************************************************************)
EXTENDS SSHTransport

\* The futures a thread is about to resolve.
Taken(a) == failing[a] \cup (IF a \in Sessions THEN {popped[a]} \ {0} ELSE {})

\* No future is resolved twice, which would raise InvalidStateError in the reader
\* or in a thread that fails the session: a call is pending or with one thread
\* only, and open until that thread resolves it, whatever answers, timeouts and
\* failures cross (ssh_transport.py:93-102, 112-118).
ResolvedOnce ==
    \A a \in Actors : \A c \in Taken(a) :
        /\ future[c] = "open" /\ c \notin pending
        /\ \A other \in Actors \ {a} : c \notin Taken(other)

\* Sessions do not mix: when one is open, the readers of earlier ones are done
\* and can neither fail it nor resolve its calls, and only its own calls are
\* pending (ssh_transport.py:65-68, 104-105, 164-167).
OldSessionIsOver ==
    process # 0 =>
        /\ \A s \in Sessions : s < process => reader[s] \in {"none", "done"}
        /\ \A c \in pending : within[c] = process

-----------------------------------------------------------------------------
(* The inductive invariant behind these properties, see SSHTransportProofs.*)

\* Where a thread is in close(), and where it has cleared `process`.
Cleared == {"close_failed", "close_resolve", "stop", "join"}
Closing == Cleared \cup {"close", "clear"}

\* The executor's threads and the main thread never call at the same time.
OneAtATime == pc[Main] # "idle" => \A t \in Threads : pc[t] = "idle"

\* Who closes: start(), by the main thread and within the bound, or a call that
\* timed out and has failed the session.
CallsInHand ==
    \A t \in Callers :
        /\ pc[t] = "idle" => call[t] = 0
        /\ pc[t] \in {"write", "wait", "send_resolve", "late_resolve"} => call[t] # 0
        /\ pc[t] \in Closing \cup {"open"} /\ call[t] = 0 => t = Main /\ started < MaxSessions
        /\ pc[t] = "open" => call[t] = 0
        /\ pc[t] \in Closing \cup {"late_resolve"} /\ call[t] # 0 => failure
        /\ pc[t] = "register" /\ process = 0 => failure

\* The reader of a session that is not the current one is done, or some thread is
\* on its way to join it; a failed or closed session has no pending call.
SessionsEnd ==
    /\ process # 0 => \A t \in Callers : /\ pc[t] \notin Cleared \cup {"open"}
                                         /\ pc[t] = "clear" => held[t] = process
    /\ \A s \in Sessions \ {process} :
           \/ reader[s] \in {"none", "done"}
           \/ \E t \in Callers : pc[t] \in Cleared /\ held[t] = s
    /\ pending # {} => ~failure /\ (process # 0 \/ pc[Main] = "close_failed")

\* Pending futures are open, and a reader holds what its position says.
FuturesHeld ==
    /\ \A c \in pending : future[c] = "open"
    /\ \A s \in Sessions : /\ popped[s] # 0 <=> reader[s] = "resolve"
                           /\ failing[s] # {} => reader[s] = "failed_resolve"

\* Strengthens ResolvedOnce and OldSessionIsOver, and is inductive by itself.
SessionInv ==
    /\ TypeOK /\ OneAtATime /\ CallsInHand /\ SessionsEnd /\ FuturesHeld
    /\ ResolvedOnce /\ OldSessionIsOver

-----------------------------------------------------------------------------
(* The account of the calls: where each is until its future is resolved.    *)

\* A pending call has its caller in call(), about to write or waiting.
PendingWaited ==
    \A c \in pending : \E t \in Callers : call[t] = c /\ pc[t] \in {"write", "wait"}

\* What a caller took in _fail() it is resolving.
FailingInHand ==
    \A t \in Callers : failing[t] # {} => pc[t] \in {"send_resolve", "late_resolve", "close_resolve"}

\* The reader of a session that has not failed is there to notice its end.
Watching == {"reading", "resolve", "raised", "failed"}
ReaderWatches == process # 0 /\ ~failure => reader[process] \in Watching

\* An open future is pending or with a thread that resolves it.
NoneLost ==
    \A c \in Calls :
        /\ future[c] = "none" <=> c > made
        /\ future[c] = "open" => c \in pending \/ \E a \in Actors : c \in Taken(a)

AccountInv == PendingWaited /\ FailingInHand /\ ReaderWatches /\ NoneLost

\* Who closes, where readers are and who holds which future, with the account of
\* the calls: every state of the transport (ssh_transport.py:63-170).
TransportInv == SessionInv /\ AccountInv

\* Nobody waits in vain: a caller that waits for an open future has its call
\* pending in a session whose reader is there to notice its end, or some thread
\* is about to resolve it (ssh_transport.py:92-105, 112-118, 128-146).
NoCallForgotten ==
    \A t \in Callers : pc[t] = "wait" /\ future[call[t]] = "open" =>
        \/ call[t] \in pending /\ process # 0 /\ ~failure /\ reader[process] \in Watching
        \/ \E s \in Sessions : reader[s] = "resolve" /\ popped[s] = call[t]
        \/ \E a \in Actors : call[t] \in failing[a]

-----------------------------------------------------------------------------
(* Liveness.  Threads run, and the end of a process is read by its reader.  *)
(* Neither a timeout nor an answer is needed.                               *)

Fairness ==
    /\ \A t \in Callers : WF_vars(CallerStep(t))
    /\ \A s \in Sessions : WF_vars(ReaderStep(s)) /\ WF_vars(s \notin up /\ ReadRaises(s))

FairSpec == Spec /\ Fairness

\* The session a caller's call was made in has failed or ended.
Broken(t) == failure \/ within[call[t]] \notin up

\* A call of a session that broke raises without waiting for its timeout, even
\* one registered or written while the session was failing, and no thread waits
\* for another in close() (ssh_transport.py:104-118, 128-139, 147-170).
BrokenCallsReturn ==
    \A t \in Callers : (call[t] # 0 /\ Broken(t)) ~> (pc[t] = "idle")
=============================================================================
