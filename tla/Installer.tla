------------------------------ MODULE Installer ------------------------------
(***************************************************************************)
(* tools/install_worker_v2.py: the operations install, update and drain on *)
(* one installation directory, its launcher `run`, and the life of the     *)
(* worker process it starts.  Several installers may run beside each other *)
(* and beside the worker; each may be killed, or fail, between any two of  *)
(* its file operations.  What keeps them apart is the ownership marker and *)
(* two advisory locks, which die with their process.                       *)
(*                                                                         *)
(* Data abstraction.  A release stands for its manifest, its commit and    *)
(* its digest; the configuration for its runtime images, the only field an *)
(* update changes.  atomic() is one step: a reader sees the old file or    *)
(* the new.  Before the marker is written a directory is nobody's, so its  *)
(* subdirectories are made in one step.                                    *)
(***************************************************************************)
EXTENDS Naturals

CONSTANTS
    Installers,     \* processes of the installer
    Releases,       \* manifests the pool may publish
    ImagesOf,       \* manifest["runtime_images"] of each release
    None,
    MaxFaults       \* bound: installers killed or failing, checkouts edited

Images == {ImagesOf[r] : r \in Releases}
ASSUME NamesAssumption ==
    /\ None \notin Releases \cup Images \cup Installers \cup {"bare", "worker"}
    /\ "bare" \notin Releases /\ "worker" \notin Installers
ASSUME InstallerFaultsAssumption == MaxFaults \in Nat

VARIABLES
    root,           \* the installation directory exists
    marker,         \* installation-v2.json: None, "bare" without a release, or a release
    config,         \* worker.json: its runtime images, or None
    token,          \* execution-token exists
    launcher,       \* run exists
    built,          \* releases/<commit> directories
    intact,         \* those without local changes
    drain,          \* data/drain.request exists
    unfinished,     \* the worker's database has an unfinished request
    installation,   \* holder of installation.lock
    workerLock,     \* holder of data/worker.lock
    pc, want, seen, \* of an installer: its next step, its manifest, its marker
    worker,         \* the launcher and the worker it becomes
    faults

files == <<root, marker, config, token, launcher, built, intact, drain>>
locks == <<installation, workerLock>>
installer == <<pc, want, seen>>
vars == <<files, unfinished, locks, installer, worker, faults>>

Off == [at |-> "off", release |-> None, images |-> None, draining |-> FALSE]

TypeOK ==
    /\ root \in BOOLEAN /\ token \in BOOLEAN /\ launcher \in BOOLEAN /\ drain \in BOOLEAN
    /\ marker \in Releases \cup {"bare", None}
    /\ config \in Images \cup {None}
    /\ built \subseteq Releases /\ intact \subseteq built
    /\ unfinished \in BOOLEAN
    /\ installation \in Installers \cup {"worker", None}
    /\ workerLock \in Installers \cup {"worker", None}
    /\ pc \in [Installers -> {"idle", "look", "create", "own", "configure", "token", "lock",
                              "drained", "verify", "build", "config", "run", "marker", "clear"}]
    /\ want \in [Installers -> Releases \cup {None}]
    /\ seen \in [Installers -> Releases \cup {"bare", None}]
    /\ worker \in [at : {"off", "record", "config", "start", "run", "step"},
                   release : Releases \cup {None}, images : Images \cup {None},
                   draining : BOOLEAN]
    /\ faults \in 0 .. MaxFaults

Init ==
    /\ root = FALSE /\ marker = None /\ config = None /\ token = FALSE
    /\ launcher = FALSE /\ built = {} /\ intact = {} /\ drain = FALSE
    /\ unfinished = FALSE /\ installation = None /\ workerLock = None
    /\ pc = [i \in Installers |-> "idle"]
    /\ want = [i \in Installers |-> None] /\ seen = [i \in Installers |-> None]
    /\ worker = Off /\ faults = 0

Fault == faults < MaxFaults /\ faults' = faults + 1

\* Frames.
World == <<unfinished, worker>>

-----------------------------------------------------------------------------
(* The installer.                                                          *)

\* Installer i goes from one step to the next and keeps its locals.
Goto(i, here, next) ==
    /\ pc[i] = here /\ pc' = [pc EXCEPT ![i] = next]
    /\ UNCHANGED <<want, seen, World, faults>>

FreedBy(i, lock) == IF lock = i THEN None ELSE lock

\* The process of installer i ends; so do its locks.
Ends(i) ==
    /\ pc' = [pc EXCEPT ![i] = "idle"]
    /\ want' = [want EXCEPT ![i] = None] /\ seen' = [seen EXCEPT ![i] = None]
    /\ installation' = FreedBy(i, installation)
    /\ workerLock' = FreedBy(i, workerLock)

\* InstallError: nothing was changed by this step.
Refuses(i, here) ==
    /\ pc[i] = here /\ Ends(i)
    /\ UNCHANGED <<files, World, faults>>

\* main(): the release the pool names now, for an update the pool of the marker.
Fetch(i, next) ==
    /\ pc[i] = "idle"
    /\ next = "look" => marker # None
    /\ pc' = [pc EXCEPT ![i] = next]
    /\ \E r \in Releases : want' = [want EXCEPT ![i] = r]
    /\ UNCHANGED <<seen, files, locks, World, faults>>

\* An update reads the marker, before it has any lock.
Look(i) ==
    /\ pc[i] = "look" /\ marker # None
    /\ pc' = [pc EXCEPT ![i] = "lock"] /\ seen' = [seen EXCEPT ![i] = marker]
    /\ UNCHANGED <<want, files, locks, World, faults>>

MakeDirectory(i) ==
    \/ root /\ Refuses(i, "create")
    \/ /\ ~root /\ Goto(i, "create", "own")
       /\ root' = TRUE
       /\ UNCHANGED <<marker, config, token, launcher, built, intact, drain, locks>>

WriteOwnership(i) ==
    /\ pc[i] = "own" /\ pc' = [pc EXCEPT ![i] = "configure"]
    /\ marker' = "bare" /\ seen' = [seen EXCEPT ![i] = "bare"]
    /\ UNCHANGED <<want, root, config, token, launcher, built, intact, drain, locks, World, faults>>

WriteConfig(i) ==
    /\ Goto(i, "configure", "token")
    /\ config' = ImagesOf[want[i]]
    /\ UNCHANGED <<root, marker, token, launcher, built, intact, drain, locks>>

WriteToken(i) ==
    /\ Goto(i, "token", "lock")
    /\ token' = TRUE
    /\ UNCHANGED <<root, marker, config, launcher, built, intact, drain, locks>>

\* installation_lock: the first of the two, and it does not wait.
LockInstallation(i) ==
    \/ installation # None /\ Refuses(i, "lock")
    \/ /\ installation = None /\ Goto(i, "lock", "drained")
       /\ installation' = i
       /\ UNCHANGED <<files, workerLock>>

\* Seeded fault: unfinished requests are not looked for.
WorkerStopped == workerLock = None

\* stopped_and_drained: no worker runs and no request is unfinished.
Drained == workerLock = None /\ ~unfinished

CheckDrained(i) ==
    \/ ~Drained /\ Refuses(i, "drained")
    \/ /\ Drained /\ Goto(i, "drained", "verify")
       /\ workerLock' = i
       /\ UNCHANGED <<files, installation>>

\* The checkout of the release the marker named must be unchanged.
Verify(i) ==
    LET verified == (seen[i] \in Releases => seen[i] \in intact) /\ config # None
    IN  \/ ~verified /\ Refuses(i, "verify")
        \/ verified /\ Goto(i, "verify", "build") /\ UNCHANGED <<files, locks>>

\* Seeded fault: a release directory that exists already is an error.
OnlyFresh(r) == r \notin built

\* Seeded fault: an existing checkout is used as it is.
AnyCheckout(r) == TRUE

\* A release that was built before is used again if its checkout is unchanged.
Buildable(r) == r \in built => r \in intact

\* build_release: staged beside the older releases, which stay, and renamed when
\* it is complete.
Build(i) ==
    \/ ~Buildable(want[i]) /\ Refuses(i, "build")
    \/ /\ Buildable(want[i]) /\ Goto(i, "build", "config")
       /\ built' = built \cup {want[i]} /\ intact' = intact \cup {want[i]}
       /\ UNCHANGED <<root, marker, config, token, launcher, drain, locks>>

\* Seeded fault: the marker is written before the launcher.
MarkerFirst == [config |-> "marker", marker |-> "run", run |-> "clear"]

\* The order in which a release is activated: the marker last.
Then == [config |-> "run", run |-> "marker", marker |-> "clear"]

ActivateConfig(i) ==
    /\ Goto(i, "config", Then.config)
    /\ config' = ImagesOf[want[i]]
    /\ UNCHANGED <<root, marker, token, launcher, built, intact, drain, locks>>

ActivateLauncher(i) ==
    /\ Goto(i, "run", Then.run)
    /\ launcher' = TRUE
    /\ UNCHANGED <<root, marker, config, token, built, intact, drain, locks>>

ActivateMarker(i) ==
    /\ Goto(i, "marker", Then.marker)
    /\ marker' = want[i]
    /\ UNCHANGED <<root, config, token, launcher, built, intact, drain, locks>>

\* The request that drained the old release is not for the new one.
ClearDrain(i) ==
    /\ pc[i] = "clear" /\ Ends(i)
    /\ drain' = FALSE
    /\ UNCHANGED <<root, marker, config, token, launcher, built, intact, World, faults>>

\* A command fails, the disk is full or the process is killed.
Dies(i) ==
    /\ pc[i] # "idle" /\ Fault /\ Ends(i)
    /\ UNCHANGED <<files, World>>

\* The drain command; it takes no lock.
RequestDrain ==
    /\ marker # None /\ drain' = TRUE
    /\ UNCHANGED <<root, marker, config, token, launcher, built, intact, World, locks, installer, faults>>

InstallerStep(i) ==
    \/ Look(i) \/ MakeDirectory(i) \/ WriteOwnership(i) \/ WriteConfig(i) \/ WriteToken(i)
    \/ LockInstallation(i) \/ CheckDrained(i) \/ Verify(i) \/ Build(i)
    \/ ActivateConfig(i) \/ ActivateLauncher(i) \/ ActivateMarker(i) \/ ClearDrain(i)

-----------------------------------------------------------------------------
(* The launcher, and the worker process it execs.                          *)

Worker(here, next) == worker.at = here /\ worker' = [worker EXCEPT !.at = next]

\* The process ends, of itself or by a signal; so do its locks.
WorkerEnds ==
    /\ worker' = Off
    /\ installation' = FreedBy("worker", installation)
    /\ workerLock' = FreedBy("worker", workerLock)

Launch ==
    /\ launcher /\ installation = None
    /\ Worker("off", "record")
    /\ installation' = "worker"
    /\ UNCHANGED <<files, unfinished, workerLock, installer, faults>>

\* The recorded release and its checkout.
ReadRecord ==
    /\ worker.at = "record"
    /\ \/ /\ marker \in intact
          /\ worker' = [worker EXCEPT !.at = "config", !.release = marker]
          /\ UNCHANGED locks
       \/ marker \notin intact /\ WorkerEnds
    /\ UNCHANGED <<files, unfinished, installer, faults>>

\* Seeded fault: the launcher does not compare the runtimes.
AnyImages == config # None

RecordedImages == config = ImagesOf[worker.release]

\* Seeded fault: the lock is closed on exec, as Python's descriptors are.
ClosedOnExec == FreedBy("worker", installation)

\* os.set_inheritable: the lock stays with the process across exec.
Inherited == installation

\* The token and the configuration; then exec.
CheckConfig ==
    /\ worker.at = "config"
    /\ \/ /\ token /\ RecordedImages
          /\ Worker("config", "start")
          /\ installation' = Inherited /\ UNCHANGED workerLock
       \/ ~(token /\ RecordedImages) /\ WorkerEnds
    /\ UNCHANGED <<files, unfinished, installer, faults>>

\* __main__.main reads the configuration and takes the process lock.
StartWorker ==
    /\ worker.at = "start"
    /\ \/ /\ workerLock = None
          /\ worker' = [worker EXCEPT !.at = "run", !.images = config]
          /\ workerLock' = "worker" /\ UNCHANGED installation
       \/ workerLock # None /\ WorkerEnds
    /\ UNCHANGED <<files, unfinished, installer, faults>>

\* Seeded fault: the drain file is looked for at the start only.
DrainOfStart == worker.draining

DrainSeen == drain

\* The loop of main: the drain file is looked at before each step.
Cycle ==
    /\ worker.at = "run"
    /\ worker' = [worker EXCEPT !.at = "step", !.draining = DrainSeen]
    /\ UNCHANGED <<files, unfinished, locks, installer, faults>>

\* Runner.step.  One that drains takes no new work, and the loop ends when it
\* returns with nothing open; a step that raised is retried in any case.
Step ==
    /\ worker.at = "step"
    /\ unfinished' \in BOOLEAN
    /\ \/ worker.draining /\ ~unfinished' /\ WorkerEnds
       \/ (worker.draining => unfinished' = unfinished) /\ Worker("step", "run") /\ UNCHANGED locks
    /\ UNCHANGED <<files, installer, faults>>

\* SIGTERM, kill -9 or the end of a launcher that is not yet a worker.
StopWorker ==
    /\ worker.at # "off" /\ WorkerEnds
    /\ UNCHANGED <<files, unfinished, installer, faults>>

WorkerStep == ReadRecord \/ CheckConfig \/ StartWorker \/ Cycle \/ Step

-----------------------------------------------------------------------------
\* The member edits the checkout of a release.
EditCheckout ==
    /\ Fault
    /\ \E r \in intact : intact' = intact \ {r}
    /\ UNCHANGED <<root, marker, config, token, launcher, built, drain, World, locks, installer>>

Next ==
    \/ \E i \in Installers : \/ Fetch(i, "create") \/ Fetch(i, "look")
                             \/ InstallerStep(i) \/ Dies(i)
    \/ RequestDrain \/ Launch \/ WorkerStep \/ StopWorker
    \/ EditCheckout

Spec == Init /\ [][Next]_vars
=============================================================================
