------------------------- MODULE SSHTransportRefines -------------------------
(***************************************************************************)
(* The threads of an SSHTransport implement the sessions of CallSession,   *)
(* the grain at which module MemberMaster uses them.  A session ends for   *)
(* its callers with `failure` or when close() clears `process`; a call is  *)
(* open while its future is pending, and answered or failed when a thread  *)
(* has taken the future, before that thread resolves it.                   *)
(***************************************************************************)
EXTENDS SSHTransportProperties

OpenSession == IF failure THEN 0 ELSE process

Answering(c) == \E s \in Sessions : popped[s] = c
Failing(c) == \E a \in Actors : c \in failing[a]

\* A future nobody holds would be lost, which no call of CallSession is.
StatusOf(c) ==
    CASE future[c] # "open" -> future[c]
      [] future[c] = "open" /\ c \in pending -> "open"
      [] future[c] = "open" /\ c \notin pending /\ Answering(c) -> "answered"
      [] future[c] = "open" /\ c \notin pending /\ ~Answering(c) /\ Failing(c) -> "failed"
      [] OTHER -> "lost"

Status == [c \in Calls |-> StatusOf(c)]

Abstract == INSTANCE CallSession WITH
    opened <- started, session <- OpenSession, status <- Status, of <- within

\* Whatever answers, timeouts, broken pipes and ends of processes cross in the
\* threads, a failure is one step for all calls of the session, every call is
\* answered in its own session or fails, once, and none is lost
\* (ssh_transport.py:64-170 as a whole).
ImplementsCallSession == Abstract!Spec
=============================================================================
