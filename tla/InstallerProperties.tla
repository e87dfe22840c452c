------------------------- MODULE InstallerProperties -------------------------
(***************************************************************************)
(* What an installation promises while installers, drains, launches and    *)
(* crashes meet.                                                           *)
(***************************************************************************)
EXTENDS Installer

\* The launcher has checked everything, up to the end of the worker.
Started == worker.at \in {"start", "run", "step"}

\* The worker that runs is the recorded release with its recorded runtimes, for
\* as long as it runs: a half activated update is not started, and none is
\* activated under a running worker (install_worker_v2.py:202-219, 255;
\* INSTALL_V2.md "a partially activated configuration fails closed").
RunningIsRecorded ==
    Started => /\ worker.release = marker
               /\ config = ImagesOf[marker]
               /\ worker.at # "start" => worker.images = config

\* A marker that names a release finds its complete checkout, a launcher and a
\* configuration, wherever an update was interrupted (install_worker_v2.py:189,
\* 266-268; INSTALL_V2.md "Atomically activated paired release").
RecordedIsComplete ==
    marker \in Releases => marker \in built /\ launcher /\ config # None

\* No operation removes a release or puts a checkout the member has changed back
\* into use (install_worker_v2.py:112-122, 168-171; INSTALL_V2.md "The old
\* release remains available").
CheckoutsStay == [][built \subseteq built' /\ intact' \cap built \subseteq intact]_vars

\* The release and the configuration do not change while a worker runs or its
\* work is unfinished, and a running worker's drain request stays until it has
\* obeyed (install_worker_v2.py:149-162, 255, 269; INSTALL_V2.md "Updates require
\* the running-worker lock to be free and SQLite to contain no unfinished request").
WorkUndisturbed ==
    [][(Started \/ unfinished) =>
        /\ marker' = marker /\ config' = config
        /\ (Started /\ drain) => drain']_vars

\* The launcher would start the recorded release.
Startable == launcher /\ token /\ marker \in intact /\ config = ImagesOf[marker]

\* Nobody is at work on the installation.
Quiet == worker.at = "off" /\ \A i \in Installers : pc[i] = "idle"

\* An update that runs alone passes every check.
UpdateSucceeds(r) ==
    /\ marker # None /\ Drained
    /\ marker \in Releases => marker \in intact
    /\ config # None /\ Buildable(r)

\* Wherever installers and workers died, an installation that got its token can
\* be started, and so finish its work, or be updated to any release; never is
\* unfinished work left to a release that cannot start (INSTALL_V2.md "the
\* explicit retry completes activation").
RetrySucceeds ==
    Quiet /\ token /\ intact = built => Startable \/ \A r \in Releases : UpdateSucceeds(r)

\* install_worker_v2.py:249 "Ownership is established before building. A failed
\* install can be retried explicitly": a directory with the ownership marker has
\* what an update needs, and what the launcher needs after it.
FailedInstallCanBeRetried ==
    Quiet /\ marker # None => config # None /\ token

-----------------------------------------------------------------------------
(* The inductive invariant behind these properties, see InstallerProofs.   *)

Locked == {"drained", "verify", "build", "config", "run", "marker", "clear"}
Updating == Locked \ {"drained"}

\* Who holds the two locks is at a point of the program that took it.
LocksHeld ==
    /\ \A i \in Installers : pc[i] \in Locked <=> installation = i
    /\ \A i \in Installers : pc[i] \in Updating <=> workerLock = i
    /\ worker.at # "off" <=> installation = "worker"
    /\ worker.at \in {"run", "step"} <=> workerLock = "worker"

\* A directory is made by one installer, and is not in use before it has its
\* configuration.
FirstConfigured ==
    /\ \A i \in Installers : pc[i] \in {"own", "configure"} => root /\ config = None
    /\ \A i, j \in Installers :
          pc[i] \in {"own", "configure"} /\ pc[j] \in {"own", "configure"} => i = j
    /\ ~root => config = None
    /\ config = None => ~launcher /\ marker \notin Releases

\* What an update has established when it gets to a point.
UpdateProgress ==
    \A i \in Installers :
        /\ pc[i] # "idle" => want[i] \in Releases
        /\ pc[i] \in Updating => ~unfinished
        /\ pc[i] \in Updating \ {"verify"} => config # None
        /\ pc[i] \in {"config", "run", "marker"} => want[i] \in built
        /\ pc[i] = "marker" => launcher

\* What the launcher has established for the worker.
LaunchProgress ==
    /\ worker.at # "off" \/ unfinished => launcher
    /\ worker.at \notin {"off", "record"} => worker.release = marker /\ marker \in Releases

\* Strengthens RunningIsRecorded and RecordedIsComplete to an inductive invariant.
InstallationInv ==
    /\ TypeOK /\ LocksHeld /\ FirstConfigured /\ UpdateProgress /\ LaunchProgress
    /\ RunningIsRecorded /\ RecordedIsComplete

\* What the token and unfinished work show of the installation they are left in.
LeftBehind ==
    /\ \A i \in Installers : /\ pc[i] \in {"configure", "token"} => marker # None
                             /\ pc[i] = "token" => config # None
    /\ token => marker # None /\ config # None
    /\ unfinished => marker \in Releases /\ config = ImagesOf[marker]

-----------------------------------------------------------------------------
(* Liveness.  The launcher and the worker's loop run.                      *)

FairSpec == Spec /\ WF_vars(WorkerStep)

\* Steps that drain do not raise or wait for ever.  The code does not see to it:
\* WorkerProperties!DrainExits has what it asks of the pool (its deadlines, that it
\* accepts work and keeps the release), and without that the key of a lost POST is
\* refused or waits in every step (runner.py:50-53; INSTALL_V2.md:76 "Existing
\* ambiguity can still require protocol reconciliation before draining can finish").
DrainsInTheEnd == SF_vars(Step /\ worker.draining /\ WorkerEnds)

\* A worker that runs when its drain is requested comes to drain, and stops if its
\* draining steps come to an end, whatever updates are tried meanwhile: none takes
\* the request from it (install_worker_v2.py:269, __main__.py:54-58; INSTALL_V2.md
\* "A running worker sees it at the next progress cycle, finishes existing work and
\* exits").
DrainStopsWorker ==
    /\ (Started /\ drain) ~> (worker.draining \/ worker.at = "off")
    /\ DrainsInTheEnd => ((Started /\ drain) ~> worker.at = "off")
=============================================================================
