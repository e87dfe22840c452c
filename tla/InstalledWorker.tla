--------------------------- MODULE InstalledWorker ---------------------------
(***************************************************************************)
(* What an installation promises, without files, locks and processes that  *)
(* die: one recorded release at a time, activated with its runtimes while  *)
(* nothing runs and no work is open; a worker that is this release; work   *)
(* that is finished by the release that took it; and a drain that a worker *)
(* obeys once it was told.                                                 *)
(***************************************************************************)
CONSTANTS Releases, ImagesOf, None

VARIABLES
    release,    \* the recorded release, or None
    images,     \* the configured runtimes, or None
    running,    \* the release that runs, or None
    taken,      \* the release that took the open work, None without such work
    drain,      \* a drain is requested
    told        \* the worker that runs has seen it

installedVars == <<release, images, running, taken, drain, told>>

Init ==
    /\ release = None /\ images = None /\ running = None /\ taken = None
    /\ drain = FALSE /\ told = FALSE

AtRest == running = None /\ taken = None

Configure ==
    /\ AtRest
    /\ \E r \in Releases : images' = ImagesOf[r]
    /\ UNCHANGED <<release, running, taken, drain, told>>

\* A release is recorded after its runtimes are.
Activate ==
    /\ AtRest
    /\ \E r \in Releases : images = ImagesOf[r] /\ release' = r
    /\ UNCHANGED <<images, running, taken, drain, told>>

Start ==
    /\ running = None /\ release # None /\ images = ImagesOf[release]
    /\ running' = release
    /\ UNCHANGED <<release, images, taken, drain, told>>

Take ==
    /\ running # None /\ ~told /\ taken = None
    /\ taken' = running
    /\ UNCHANGED <<release, images, running, drain, told>>

\* A worker that was told to drain ends with its work.
Finish ==
    /\ running # None /\ taken = running
    /\ taken' = None
    /\ running' = (IF told THEN None ELSE running) /\ told' = FALSE
    /\ UNCHANGED <<release, images, drain>>

Stop ==
    /\ running # None
    /\ running' = None /\ told' = FALSE
    /\ UNCHANGED <<release, images, taken, drain>>

RequestDrain ==
    /\ drain' = TRUE
    /\ UNCHANGED <<release, images, running, taken, told>>

Tell ==
    /\ running # None /\ drain
    /\ told' = TRUE
    /\ UNCHANGED <<release, images, running, taken, drain>>

\* A request was for the release that ran before.
ForgetDrain ==
    /\ AtRest /\ drain' = FALSE
    /\ UNCHANGED <<release, images, running, taken, told>>

Next == \/ Configure \/ Activate \/ Start \/ Take \/ Finish \/ Stop
        \/ RequestDrain \/ Tell \/ ForgetDrain

Spec == Init /\ [][Next]_installedVars
=============================================================================
