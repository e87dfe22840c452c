--------------------------- MODULE HelperProperties ---------------------------
(***************************************************************************)
(* What one helper process keeps by itself, whatever its master does: the  *)
(* inductive invariant of module Helper.  Module MemberMasterProperties    *)
(* relates it to the master, HelperProofs proves it.                       *)
(***************************************************************************)
EXTENDS Helper

\* The requests of the session: not read, not taken from the queue, under
\* computation, answered.
Unread == {inbox[j] : j \in DOMAIN inbox}
Of(kind) == {events[j].of : j \in {i \in DOMAIN events : events[i].kind = kind}}
Requests == Unread \cup Of("request")
AnsweredTo == {r.to : r \in replies}
UnderWay == Requests \cup active \cup AnsweredTo

LinesOnce == \A i, j \in DOMAIN inbox : inbox[i] = inbox[j] => i = j

QueueOnce ==
    \A i, j \in DOMAIN events :
        /\ events[i].kind \in {"request", "complete"}
        /\ events[i].kind = events[j].kind /\ events[i].of = events[j].of
        => i = j

\* A request is in one of these places only, and what is under computation is
\* with a thread or completed.
OnePlace ==
    /\ LinesOnce /\ QueueOnce
    /\ Unread \cap Of("request") = {}
    /\ Requests \cap active = {}
    /\ AnsweredTo \cap (Requests \cup active) = {}
    /\ \A r, s \in replies : r.to = s.to => r = s
    /\ running \subseteq active /\ Of("complete") \subseteq active
    /\ running \cap Of("complete") = {}

\* Requests name what their operation is about; what is under way is a computation.
Addressed ==
    /\ Of("request") \subseteq Message
    /\ \A m \in Requests : /\ m.op \in {"prepare", "compute"} => m.bench # None
                           /\ m.op = "compute" => m.nonce # None
    /\ \A m \in active : m.op = "compute" /\ m.bench # None /\ m.nonce # None

\* A computation has its container, and so has one that is asked for once the
\* helper takes it: no preparation, which could fail and remove it, lies before.
RuntimeKept ==
    /\ \A m \in running : m.bench \in runtimes /\ prepared = m.bench
    /\ prepared \notin runtimes \cup {None} =>
           running = {} /\ \A m \in Requests : m.op # "compute"
    /\ \A m, k \in Requests : ~(m.op = "compute" /\ k.op = "prepare")

\* The process and its session.  A helper that leaves while it has its master
\* has taken every completed computation.
ProcessAndSession ==
    /\ helper = "off" => ~attached /\ ~reading /\ running = {} /\ prepared = None
    /\ ~attached => replies = {}
    /\ attached => Of("input_error") = {}
    /\ helper = "leaving" /\ attached => active = {}

\* What is sent of an output is saved.
RepliesSaved ==
    \A r \in replies : r.ok /\ r.to.op = "compute" =>
        /\ r.to.bench # None /\ r.to.nonce # None /\ r.leaf # None
        /\ nonces[r.to.bench][r.to.nonce] = r.leaf

\* Every computation is with a thread or completed, and the lines of a session
\* are read while it lasts.
NothingIdle ==
    /\ active \subseteq running \cup Of("complete")
    /\ attached => reading

HelperInv ==
    /\ HelperTypeOK /\ OnePlace /\ Addressed /\ RuntimeKept /\ ProcessAndSession /\ RepliesSaved
=============================================================================
