---------------------------- MODULE DockerRuntime ----------------------------
(***************************************************************************)
(* worker_v2/runtime.py: one benchmark's runtime container, the files it   *)
(* reads, the processes in it and the results they write, driven by the    *)
(* steps of Runner.step that touch them (prepare, one thread per missing   *)
(* nonce, save, release).  Modules Worker and Helper see a computation as  *)
(* one event; here it is `docker exec tig-runtime`, `docker exec           *)
(* tig-verifier` and the reading of the result file, beside processes that *)
(* an earlier attempt left in the container.                               *)
(*                                                                         *)
(* Data abstraction.  The archive has a fixed checksum: a file is absent,  *)
(* half written or whole.  The container's owner and image are this        *)
(* worker's; a Docker command that is refused is one that fails.           *)
(***************************************************************************)
EXTENDS Naturals

CONSTANTS
    Nonces,
    Leaves,         \* contents a result file may have
    Files,          \* entries wanted of the archive: the library, for GPU its PTX
    Library,        \* the entry that prepare looks for
    Limits,         \* runtime_limits the member may configure, or None
    None,
    MaxFaults       \* bound: crashes, timeouts, failing commands and downloads

ASSUME LibraryAssumption == Library \in Files
ASSUME LeavesAssumption == None \notin Leaves
ASSUME RuntimeFaultsAssumption == MaxFaults \in Nat

VARIABLES
    cache,      \* durable: entries of the shared library cache
    work,       \* durable: the benchmark's copies of them
    archived,   \* durable: archive.sha256 holds the checksum
    results,    \* durable: results/<nonce>.json
    saved,      \* durable: the nonces table, with what the verifier saw
    box,        \* the container: {}, or {its limits}
    ordered,    \* a container Docker still creates for a command given up
    strays,     \* nonces an abandoned tig-runtime in the container computes
    main,       \* where the main thread is
    todo,       \* entries that prepare has not copied yet
    limits,     \* RuntimeLimits of the process
    thread,     \* the thread of each nonce
    faults

disk == <<cache, work, archived>>
docker == <<box, ordered, strays>>
vars == <<disk, results, saved, docker, main, todo, limits, thread, faults>>

Idle == [at |-> "idle", verified |-> None, leaf |-> None]
Thread == [at : {"idle", "running", "verify", "read", "done", "failed"},
           verified : Leaves \cup {None}, leaf : Leaves \cup {None}]

TypeOK ==
    /\ cache \subseteq Files
    /\ work \in [Files -> {"absent", "partial", "whole"}] /\ archived \in BOOLEAN
    /\ results \in [Nonces -> Leaves \cup {None}]
    /\ saved \in [Nonces -> [leaf : Leaves, verified : Leaves] \cup {None}]
    /\ box \in {{}} \cup {{l} : l \in Limits} /\ ordered \in {{}} \cup {{l} : l \in Limits}
    /\ strays \subseteq Nonces /\ (box = {} => strays = {})
    /\ main \in {"off", "check", "fetch", "extract", "copy", "mark", "inspect", "create",
                 "compute", "shutdown", "released"}
    /\ todo \subseteq Files /\ limits \in Limits
    /\ thread \in [Nonces -> Thread]
    /\ faults \in 0 .. MaxFaults

\* Earlier assignments may have left entries of the same archive in the cache.
Init ==
    /\ cache \in SUBSET Files
    /\ work = [f \in Files |-> "absent"] /\ archived = FALSE
    /\ results = [n \in Nonces |-> None] /\ saved = [n \in Nonces |-> None]
    /\ box = {} /\ ordered = {} /\ strays = {}
    /\ main = "off" /\ todo = {} /\ limits \in Limits
    /\ thread = [n \in Nonces |-> Idle]
    /\ faults = 0

Fault == faults < MaxFaults /\ faults' = faults + 1

Missing == {n \in Nonces : saved[n] = None}

\* Frames.
ThreadsStay == UNCHANGED <<results, saved, limits, thread>>
Goto(here, next) ==
    /\ main = here /\ main' = next
    /\ todo' = IF next # "copy" THEN {} ELSE IF here = "copy" THEN todo ELSE Files
    /\ ThreadsStay /\ UNCHANGED faults

-----------------------------------------------------------------------------
(* prepare: the archive.                                                   *)

Launch ==
    /\ Goto("off", IF Missing = {} THEN "released" ELSE "check")
    /\ UNCHANGED <<disk, docker>>

\* Seeded fault: a library that is there is taken for a whole one.
LibraryThere == work[Library] # "absent"

InPlace == work[Library] # "absent" /\ archived

\* Seeded fault: one entry of the archive stands for all.
SomeCached == cache # {}

Cached == cache = Files

\* What is missing is the copy, or the cache that it is copied from.
CheckLibrary ==
    /\ Goto("check", IF InPlace THEN "inspect" ELSE IF Cached THEN "copy" ELSE "fetch")
    /\ UNCHANGED <<disk, docker>>

\* The archive is downloaded, its checksum verified, its entries staged.
Fetch == Goto("fetch", "extract") /\ UNCHANGED <<disk, docker>>

\* Each entry is renamed into the cache.
Extract ==
    \/ /\ cache # Files /\ Goto("extract", "extract")
       /\ \E f \in Files \ cache : cache' = cache \cup {f}
       /\ UNCHANGED <<work, archived, docker>>
    \/ /\ cache = Files /\ Goto("extract", "copy")
       /\ UNCHANGED <<disk, docker>>

\* copyfile truncates its target, then fills it.
Truncate ==
    /\ Goto("copy", "copy")
    /\ \E f \in todo \cap cache : work' = [work EXCEPT ![f] = "partial"]
    /\ UNCHANGED <<cache, archived, docker>>

Fill ==
    /\ main = "copy"
    /\ \E f \in todo : /\ work[f] = "partial" /\ work' = [work EXCEPT ![f] = "whole"]
                      /\ todo' = todo \ {f}
    /\ ThreadsStay /\ UNCHANGED <<cache, archived, docker, main, faults>>

\* Everything is copied, or an entry is not there to be copied.
CopyEnds ==
    /\ \/ todo = {} /\ Goto("copy", "mark")
       \/ todo \ cache # {} /\ Goto("copy", "check")
    /\ UNCHANGED <<disk, docker>>

WriteMarker ==
    /\ Goto("mark", "inspect") /\ archived' = TRUE
    /\ UNCHANGED <<cache, work, docker>>

-----------------------------------------------------------------------------
(* prepare: the container.                                                 *)

\* Seeded fault: a container that runs is used as it is.
KeepProcesses == strays

\* docker restart ends every process in the container.
NoProcesses == {}

\* Seeded fault: the limits of an existing container are not compared.
AnyLimits == TRUE

\* RuntimeLimits.matches; without configured limits any container does.
LimitsMatch == limits \in box \cup {None}

Inspect ==
    \/ /\ box # {} /\ LimitsMatch /\ Goto("inspect", "compute")
       /\ strays' = NoProcesses
       /\ UNCHANGED <<disk, box, ordered>>
    \/ /\ box # {} /\ ~LimitsMatch /\ Goto("inspect", "create")
       /\ box' = {} /\ strays' = {}
       /\ UNCHANGED <<disk, ordered>>
    \/ /\ box = {} /\ Goto("inspect", "create")
       /\ UNCHANGED <<disk, docker>>

\* docker run; the name may be taken by a container that was ordered before.
Create ==
    \/ /\ box = {} /\ Goto("create", "compute")
       /\ box' = {limits}
       /\ UNCHANGED <<disk, ordered, strays>>
    \/ /\ box # {} /\ Goto("create", "check")
       /\ UNCHANGED <<disk, docker>>

\* A container whose docker run was given up appears after all.
CreatedLate ==
    /\ ordered # {} /\ ordered' = {}
    /\ box' = IF box = {} THEN ordered ELSE box
    /\ UNCHANGED <<disk, results, saved, strays, main, todo, limits, thread, faults>>

\* A step of prepare raises: a download, a copy or a Docker command fails, having
\* done its work, some of it or none.
PrepareFails ==
    /\ Fault /\ main \in {"fetch", "extract", "copy", "inspect", "create"}
    /\ main' = "check" /\ todo' = {}
    /\ \/ UNCHANGED docker
       \/ main = "inspect" /\ strays' = {} /\ box' \in {box, {}} /\ UNCHANGED ordered
       \/ main = "create" /\ box = {} /\ box' = {limits} /\ UNCHANGED <<ordered, strays>>
       \/ main = "create" /\ ordered' = {limits} /\ UNCHANGED <<box, strays>>
    /\ ThreadsStay /\ UNCHANGED disk

-----------------------------------------------------------------------------
(* compute: the thread of one nonce.                                       *)

Now(n, at) == [thread EXCEPT ![n].at = at]

\* docker exec tig-runtime; it fails without a container.
Submit(n) ==
    /\ main = "compute" /\ n \in Missing /\ thread[n].at = "idle"
    /\ thread' = Now(n, IF box = {} THEN "failed" ELSE "running")
    /\ UNCHANGED <<disk, results, saved, docker, main, todo, limits, faults>>

RuntimeEnds(n) ==
    /\ thread[n].at = "running"
    /\ \E leaf \in Leaves : results' = [results EXCEPT ![n] = leaf]
    /\ thread' = Now(n, "verify")
    /\ UNCHANGED <<disk, saved, docker, main, todo, limits, faults>>

\* docker exec tig-verifier: the quality is that of the file as it is now.
Verify(n) ==
    /\ thread[n].at = "verify"
    /\ thread' = [thread EXCEPT ![n].at = "read", ![n].verified = results[n]]
    /\ UNCHANGED <<disk, results, saved, docker, main, todo, limits, faults>>

Read(n) ==
    /\ thread[n].at = "read"
    /\ thread' = [thread EXCEPT ![n].at = "done", ![n].leaf = results[n]]
    /\ UNCHANGED <<disk, results, saved, docker, main, todo, limits, faults>>

\* The command fails or its output is refused; one that is given up after
\* nonce_timeout goes on in the container.
ComputeFails(n) ==
    /\ Fault /\ thread[n].at \in {"running", "verify", "read"}
    /\ thread' = Now(n, "failed")
    /\ \/ UNCHANGED strays
       \/ thread[n].at = "running" /\ strays' = strays \cup {n}
    /\ UNCHANGED <<disk, results, saved, box, ordered, main, todo, limits>>

\* An abandoned tig-runtime writes its result; others of the nonce may go on.
StrayWrites(n) ==
    /\ n \in strays /\ strays' \in {strays, strays \ {n}}
    /\ \E leaf \in Leaves : results' = [results EXCEPT ![n] = leaf]
    /\ UNCHANGED <<disk, saved, box, ordered, main, todo, limits, thread, faults>>

-----------------------------------------------------------------------------
(* The main thread: what Runner.step does with the results.                *)

\* Seeded fault: the outcome of a thread that raised is saved too.
Ended(n) == thread[n].at \in {"done", "failed"}

\* future.result() returns: the thread's computation did.
Returned(n) == thread[n].at = "done"

Save(n) ==
    /\ main = "compute" /\ Returned(n)
    /\ saved' = [saved EXCEPT ![n] = [leaf |-> thread[n].leaf, verified |-> thread[n].verified]]
    /\ thread' = [thread EXCEPT ![n] = Idle]
    /\ UNCHANGED <<disk, results, docker, main, todo, limits, faults>>

NonceFailed ==
    /\ main = "compute" /\ \E n \in Nonces : thread[n].at = "failed"
    /\ main' = "shutdown"
    /\ ThreadsStay /\ UNCHANGED <<disk, docker, todo, faults>>

\* The executor waits for its threads before the exception leaves the step.
ThreadsEnded == \A n \in Nonces : thread[n].at \in {"idle", "done", "failed"}

Shutdown ==
    /\ main = "shutdown" /\ ThreadsEnded
    /\ main' = "check"
    /\ thread' = [n \in Nonces |-> IF thread[n].at \in {"done", "failed"} THEN Idle ELSE thread[n]]
    /\ UNCHANGED <<disk, results, saved, docker, todo, limits, faults>>

\* Every nonce is saved, and some time later the benchmark is released.
Release ==
    /\ Missing = {} /\ main = "compute" /\ main' = "released"
    /\ box' = {} /\ strays' = {}
    /\ ThreadsStay /\ UNCHANGED <<disk, ordered, todo, faults>>

Finished == main = "released" /\ UNCHANGED vars

\* kill -9: the docker clients' processes go on in the container.  The member
\* may configure other limits before the worker is launched again.
Crash ==
    /\ Fault /\ main \notin {"off", "released"}
    /\ main' = "off" /\ todo' = {} /\ limits' \in Limits
    /\ ordered' \in {ordered} \cup {{l} : l \in IF main = "create" THEN {limits} ELSE {}}
    /\ strays' = strays \cup {n \in Nonces : thread[n].at = "running"}
    /\ thread' = [n \in Nonces |-> Idle]
    /\ UNCHANGED <<disk, results, saved, box>>

MainStep ==
    \/ Launch \/ CheckLibrary \/ Fetch \/ Extract
    \/ Truncate \/ Fill \/ CopyEnds \/ WriteMarker
    \/ Inspect \/ Create
    \/ \E n \in Nonces : Submit(n) \/ Save(n)
    \/ NonceFailed \/ Shutdown \/ Release \/ Finished

ThreadStep(n) == RuntimeEnds(n) \/ Verify(n) \/ Read(n)

Next ==
    \/ MainStep
    \/ \E n \in Nonces : ThreadStep(n) \/ ComputeFails(n) \/ StrayWrites(n)
    \/ CreatedLate \/ PrepareFails \/ Crash

Spec == Init /\ [][Next]_vars
=============================================================================
