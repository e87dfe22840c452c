-------------------------- MODULE InstallerRefines --------------------------
(***************************************************************************)
(* Installers, launcher and worker implement InstalledWorker.  A marker    *)
(* without release records none; a worker runs from the moment the         *)
(* launcher has checked everything; the open work in the database belongs  *)
(* to the release the marker names.                                        *)
(***************************************************************************)
EXTENDS InstallerProperties

Recorded == IF marker \in Releases THEN marker ELSE None
Running == IF Started THEN worker.release ELSE None
TakenBy == IF unfinished THEN Recorded ELSE None

Abstract == INSTANCE InstalledWorker WITH
    release <- Recorded, images <- config, running <- Running, taken <- TakenBy,
    told <- worker.draining

\* Whatever installers, updates, drains, launches and crashes meet, a release is
\* activated as a whole and only at rest, its work is taken and finished by it and
\* no other, and a worker that has seen a drain takes nothing more and ends with
\* its work (install_worker_v2.py:195-270, __main__.py:50-62; INSTALL_V2.md
\* "Updates require the running-worker lock to be free and SQLite to contain no
\* unfinished request").
ImplementsInstalledWorker == Abstract!Spec

-----------------------------------------------------------------------------
(* What the refinement needs beside InstallationInv and LeftBehind.        *)

\* The configuration an update has written is its own until the marker follows.
Activating ==
    \A i \in Installers : pc[i] \in {"run", "marker"} => config = ImagesOf[want[i]]

\* A worker has seen a drain request only if it is still there, and in its loop.
DrainInSight ==
    worker.draining => drain /\ worker.at \in {"run", "step"}
=============================================================================
