----------------------- MODULE DockerRuntimeProperties -----------------------
(***************************************************************************)
(* What the runtime promises although it abandons computations, is killed  *)
(* in the middle of a preparation and finds the leftovers of both.         *)
(***************************************************************************)
EXTENDS DockerRuntime

\* What runs in the container for the current step.
Computing(n) == thread[n].at = "running"

\* The output that is saved for a nonce is the very content the verifier gave a
\* quality for: no process that an earlier attempt left behind writes the file
\* between the verification and the reading (runtime.py:163-168, 193-203).
VerifiedIsSaved == \A n \in Nonces \ Missing : saved[n].leaf = saved[n].verified

\* A computation loads whole files of the checked archive, after any number of
\* interrupted extractions and copies (runtime.py:107-108 "a failed check caches
\* nothing", 133-135, 147-156).
WholeLibrary == \A n \in Nonces : Computing(n) => \A f \in Files : work[f] = "whole"

\* A computation runs under the limits of this process, also in a container that
\* an earlier process with other limits created, or Docker created too late
\* (runtime.py:166-172; LOCAL_CPU_PILOT.md configures them between launches).
LimitsHold == \A n \in Nonces : Computing(n) => limits \in box \cup {None}

-----------------------------------------------------------------------------
(* The inductive invariant behind these properties, see DockerRuntimeProofs.*)

AllWhole == \A f \in Files : work[f] = "whole"

\* What prepare has established of the files where it is: once the marker is
\* written nothing is copied again.
FilesInPlace ==
    /\ archived \/ main = "mark" => AllWhole
    /\ main \in {"fetch", "extract", "copy", "mark"} => ~archived
    /\ main = "copy" => \A f \in Files \ todo : work[f] = "whole"
    /\ main \in {"inspect", "create", "compute", "shutdown"} => archived

\* And of the container: its limits are the configured ones, and whatever was
\* abandoned in it belongs to a nonce that failed in this step.
ContainerInPlace ==
    /\ main \in {"compute", "shutdown"} =>
           /\ box # {} /\ limits \in box \cup {None}
           /\ \A n \in strays : thread[n].at = "failed"
    /\ main = "create" => strays = {}

\* Threads live in the executor's block, for nonces without a saved output, and
\* what they hold is what the file holds.
ThreadsInside ==
    \A n \in Nonces :
        /\ thread[n].at # "idle" => main \in {"compute", "shutdown"} /\ n \in Missing
        /\ thread[n].at \in {"verify", "read"} => results[n] # None
        /\ thread[n].at = "read" => thread[n].verified = results[n]
        /\ thread[n].at = "done" => thread[n].leaf = thread[n].verified /\ thread[n].leaf # None

\* Strengthens VerifiedIsSaved, WholeLibrary and LimitsHold.
RuntimeInv ==
    TypeOK /\ FilesInPlace /\ ContainerInPlace /\ ThreadsInside /\ VerifiedIsSaved

-----------------------------------------------------------------------------
(* Liveness.  Docker commands end, by their timeouts if need be; the worker  *)
(* is launched again and its next step follows a failed one.                 *)

FairSpec == Spec /\ WF_vars(MainStep) /\ \A n \in Nonces : WF_vars(ThreadStep(n))

\* Whatever an interruption left in the cache, in the benchmark's directory or in
\* Docker, a later step gets past it and every nonce is saved (WORKER_V2.md:23
\* "recovering missing work after restart").
EveryNonceSaved == <>(Missing = {})
=============================================================================
