--------------------------- MODULE InstallerProofs ---------------------------
(***************************************************************************)
(* Proofs about the installation, for any number of installers, releases   *)
(* and faults.  InstallationInv is inductive: a lemma for each way a step  *)
(* can end a process and one for each group of actions establish it, and   *)
(* the theorems follow.                                                    *)
(***************************************************************************)
EXTENDS InstallerRefines, TLAPS

\* The worker's record, for steps that change it.
WorkerState == [at : {"off", "record", "config", "start", "run", "step"},
                release : Releases \cup {None}, images : Images \cup {None},
                draining : BOOLEAN]

LEMMA InitHolds == Init => InstallationInv
<1> SUFFICES ASSUME Init PROVE InstallationInv
  OBVIOUS
<1>1. TypeOK
  <2>1. worker \in WorkerState BY DEF Init, Off, WorkerState
  <2>2. faults \in 0 .. MaxFaults BY InstallerFaultsAssumption DEF Init
  <2> QED BY <2>1, <2>2 DEF Init, TypeOK, WorkerState
<1>2. LocksHeld
  BY NamesAssumption DEF Init, Off, LocksHeld, Locked, Updating
<1>3. FirstConfigured /\ UpdateProgress /\ LaunchProgress /\ RunningIsRecorded /\ RecordedIsComplete
  BY NamesAssumption
  DEF Init, Off, FirstConfigured, UpdateProgress, Updating, Locked, LaunchProgress,
      RunningIsRecorded, Started, RecordedIsComplete
<1> QED BY <1>1, <1>2, <1>3 DEF InstallationInv

-----------------------------------------------------------------------------
(* The end of a process.                                                   *)

\* An installer ends, and with it its locks; nothing it made is taken back.
LEMMA InstallerEnds ==
  ASSUME NEW i \in Installers, InstallationInv, Ends(i),
         UNCHANGED <<World, root, marker, config, token, launcher, built, intact>>,
         drain' \in BOOLEAN, faults' \in 0 .. MaxFaults
  PROVE  InstallationInv'
<1>1. \A j \in Installers : pc'[j] = IF j = i THEN "idle" ELSE pc[j]
  BY DEF Ends, InstallationInv, TypeOK
<1>2. TypeOK'
  <2>1. /\ pc' \in [Installers -> {"idle", "look", "create", "own", "configure", "token", "lock",
                                  "drained", "verify", "build", "config", "run", "marker", "clear"}]
        /\ want' \in [Installers -> Releases \cup {None}]
        /\ seen' \in [Installers -> Releases \cup {"bare", None}]
    BY DEF Ends, InstallationInv, TypeOK
  <2>2. /\ installation' \in Installers \cup {"worker", None}
        /\ workerLock' \in Installers \cup {"worker", None}
    BY DEF Ends, FreedBy, InstallationInv, TypeOK
  <2> QED BY <2>1, <2>2 DEF World, InstallationInv, TypeOK, Images
<1>3. LocksHeld'
  BY <1>1, NamesAssumption
  DEF Ends, FreedBy, World, InstallationInv, TypeOK, LocksHeld, Locked, Updating
<1>4. UpdateProgress'
  BY <1>1 DEF Ends, World, InstallationInv, TypeOK, UpdateProgress, Locked, Updating
<1>5. FirstConfigured'
  BY <1>1 DEF InstallationInv, FirstConfigured
<1>6. LaunchProgress' /\ RunningIsRecorded' /\ RecordedIsComplete'
  BY DEF World, InstallationInv, LaunchProgress, RunningIsRecorded, RecordedIsComplete, Started
<1> QED BY <1>2, <1>3, <1>4, <1>5, <1>6 DEF InstallationInv

LEMMA InstallerRefuses ==
  ASSUME NEW i \in Installers, NEW here, InstallationInv, Refuses(i, here)
  PROVE  InstallationInv'
<1>1. /\ Ends(i) /\ UNCHANGED <<World, root, marker, config, token, launcher, built, intact>>
      /\ drain' \in BOOLEAN /\ faults' \in 0 .. MaxFaults
  BY DEF Refuses, files, World, InstallationInv, TypeOK
<1> QED BY <1>1, InstallerEnds

\* The launcher or the worker ends; the last step may leave work or finish it.
LEMMA WorkerStops ==
  ASSUME InstallationInv, WorkerEnds, UNCHANGED <<files, installer, faults>>,
         unfinished' \in BOOLEAN, unfinished' => unfinished \/ worker.at = "step"
  PROVE  InstallationInv'
<1>1. worker' \in WorkerState /\ worker'.at = "off"
  BY DEF WorkerEnds, Off, WorkerState
<1>2. TypeOK'
  BY <1>1 DEF WorkerEnds, FreedBy, files, installer, InstallationInv, TypeOK, Images, WorkerState
<1>3. LocksHeld'
  BY <1>1, NamesAssumption
  DEF WorkerEnds, FreedBy, files, installer, InstallationInv, TypeOK, LocksHeld, Locked, Updating
<1>4. UpdateProgress'
  BY NamesAssumption
  DEF files, installer, InstallationInv, TypeOK, UpdateProgress, LocksHeld, Locked, Updating
<1>5. FirstConfigured' /\ RecordedIsComplete'
  BY DEF files, installer, InstallationInv, FirstConfigured, RecordedIsComplete
<1>6. LaunchProgress' /\ RunningIsRecorded'
  BY <1>1 DEF files, installer, InstallationInv, LaunchProgress, RunningIsRecorded, Started
<1> QED BY <1>2, <1>3, <1>4, <1>5, <1>6 DEF InstallationInv

-----------------------------------------------------------------------------
(* The steps of an installer.                                              *)

\* From main() to the configuration of a new directory.
LEMMA FirstSteps ==
  ASSUME NEW i \in Installers, InstallationInv,
         \/ Fetch(i, "create") \/ Fetch(i, "look") \/ Look(i)
         \/ MakeDirectory(i) \/ WriteOwnership(i) \/ WriteConfig(i) \/ WriteToken(i)
  PROVE  InstallationInv'
<1> USE NamesAssumption, InstallerFaultsAssumption
    DEF Goto, files, locks, installer, World,
        InstallationInv, TypeOK, Images, LocksHeld, Locked, Updating, FirstConfigured,
        UpdateProgress, LaunchProgress, RunningIsRecorded, Started, RecordedIsComplete
<1>1. CASE Fetch(i, "create") BY <1>1 DEF Fetch
<1>2. CASE Fetch(i, "look") BY <1>2 DEF Fetch
<1>3. CASE Look(i) BY <1>3 DEF Look
<1>4. CASE MakeDirectory(i)
  <2>1. CASE root /\ Refuses(i, "create") BY <2>1, InstallerRefuses
  <2>2. CASE ~root /\ Goto(i, "create", "own")
    <3>1. root' = TRUE /\ UNCHANGED <<marker, config, token, launcher, built, intact, drain, locks>>
      BY <1>4, <2>2 DEF MakeDirectory
    <3>2. TypeOK' BY <2>2, <3>1
    <3> QED BY <2>2, <3>1, <3>2
  <2> QED BY <1>4, <2>1, <2>2 DEF MakeDirectory
<1>5. CASE WriteOwnership(i) BY <1>5 DEF WriteOwnership
<1>6. CASE WriteConfig(i) BY <1>6 DEF WriteConfig
<1>7. CASE WriteToken(i) BY <1>7 DEF WriteToken
<1> QED BY <1>1, <1>2, <1>3, <1>4, <1>5, <1>6, <1>7

\* From the first lock to the end of an update.
LEMMA UpdateSteps ==
  ASSUME NEW i \in Installers, InstallationInv,
         \/ LockInstallation(i) \/ CheckDrained(i) \/ Verify(i) \/ Build(i)
         \/ ActivateConfig(i) \/ ActivateLauncher(i) \/ ActivateMarker(i) \/ ClearDrain(i)
  PROVE  InstallationInv'
<1>1. CASE ClearDrain(i)
  BY <1>1, InstallerEnds DEF ClearDrain, InstallationInv, TypeOK, World
<1>2. CASE \E here \in {"lock", "drained", "verify", "build"} : Refuses(i, here)
  BY <1>2, InstallerRefuses
<1> USE NamesAssumption, InstallerFaultsAssumption
    DEF Goto, files, locks, installer, World,
        InstallationInv, TypeOK, Images, LocksHeld, Locked, Updating, FirstConfigured,
        UpdateProgress, LaunchProgress, RunningIsRecorded, Started, RecordedIsComplete
<1>3. CASE LockInstallation(i) BY <1>2, <1>3 DEF LockInstallation
<1>4. CASE CheckDrained(i) BY <1>2, <1>4 DEF CheckDrained, Drained
<1>5. CASE Verify(i) BY <1>2, <1>5 DEF Verify
<1>6. CASE Build(i) BY <1>2, <1>6 DEF Build, Buildable
<1>7. CASE ActivateConfig(i) BY <1>7 DEF ActivateConfig, Then
<1>8. CASE ActivateLauncher(i) BY <1>8 DEF ActivateLauncher, Then
<1>9. CASE ActivateMarker(i) BY <1>9 DEF ActivateMarker, Then
<1> QED BY <1>1, <1>3, <1>4, <1>5, <1>6, <1>7, <1>8, <1>9

-----------------------------------------------------------------------------
(* The launcher, the worker and everyone else.                             *)

LEMMA RecordIsRead ==
  ASSUME InstallationInv, ReadRecord, marker \in intact
  PROVE  worker' \in WorkerState /\ worker'.at = "config" /\ worker'.release = marker
<1>1. worker \in WorkerState /\ marker \in Releases
  BY DEF InstallationInv, TypeOK, WorkerState
<1>2. worker' = [worker EXCEPT !.at = "config", !.release = marker]
  BY DEF ReadRecord
<1>3. worker' \in WorkerState
  BY <1>1, <1>2 DEF WorkerState
<1> QED BY <1>1, <1>2, <1>3 DEF WorkerState

LEMMA WorkerIsStarted ==
  ASSUME InstallationInv, StartWorker, workerLock = None
  PROVE  /\ worker' \in WorkerState
         /\ worker'.at = "run" /\ worker'.release = worker.release /\ worker'.images = config
<1>1. worker \in WorkerState /\ config \in Images \cup {None}
  BY DEF InstallationInv, TypeOK, WorkerState
<1>2. worker' = [worker EXCEPT !.at = "run", !.images = config]
  BY DEF StartWorker
<1>3. worker' \in WorkerState
  BY <1>1, <1>2 DEF WorkerState
<1> QED BY <1>1, <1>2, <1>3 DEF WorkerState

\* A step that only moves the worker on: its record and the locks it takes.
LEMMA WorkerMoves ==
  ASSUME InstallationInv, WorkerStep \/ Launch \/ StopWorker
  PROVE  InstallationInv'
<1>1. CASE WorkerEnds /\ UNCHANGED <<files, unfinished, installer, faults>>
  BY <1>1, WorkerStops DEF InstallationInv, TypeOK
<1> USE NamesAssumption
    DEF Worker, files, locks, installer, InstallationInv, TypeOK, LocksHeld, Locked, Updating,
        FirstConfigured, UpdateProgress, LaunchProgress, RunningIsRecorded, Started, RecordedIsComplete
<1>2. CASE Launch BY <1>2 DEF Launch
<1>3. CASE StopWorker BY <1>1, <1>3 DEF StopWorker
<1>4. CASE ReadRecord
  <2>1. CASE marker \in intact
    <3>1. /\ worker' \in WorkerState
          /\ worker'.at = "config" /\ worker'.release = marker
      BY <1>4, <2>1, RecordIsRead
    <3>2. TypeOK' BY <1>4, <2>1, <3>1 DEF ReadRecord, WorkerState
    <3>3. LocksHeld' BY <1>4, <2>1, <3>1 DEF ReadRecord
    <3>4. FirstConfigured' /\ UpdateProgress' /\ RecordedIsComplete' BY <1>4, <2>1 DEF ReadRecord
    <3>5. LaunchProgress' /\ RunningIsRecorded' BY <1>4, <2>1, <3>1 DEF ReadRecord
    <3> QED BY <3>2, <3>3, <3>4, <3>5
  <2>2. CASE marker \notin intact BY <1>1, <1>4, <2>2 DEF ReadRecord
  <2> QED BY <2>1, <2>2
<1>5. CASE CheckConfig
  <2>1. CASE token /\ RecordedImages
    <3>1. worker' \in WorkerState BY <1>5, <2>1 DEF CheckConfig, WorkerState
    <3> QED BY <1>5, <2>1, <3>1 DEF CheckConfig, RecordedImages, Inherited, WorkerState
  <2>2. CASE ~(token /\ RecordedImages) BY <1>1, <1>5, <2>2 DEF CheckConfig
  <2> QED BY <2>1, <2>2
<1>6. CASE StartWorker
  <2>1. CASE workerLock = None
    <3>1. /\ worker' \in WorkerState
          /\ worker'.at = "run" /\ worker'.release = worker.release /\ worker'.images = config
      BY <1>6, <2>1, WorkerIsStarted
    <3>2. TypeOK' BY <1>6, <2>1, <3>1 DEF StartWorker, WorkerState
    <3>3. LocksHeld' BY <1>6, <2>1, <3>1 DEF StartWorker
    <3>4. FirstConfigured' /\ UpdateProgress' /\ RecordedIsComplete' BY <1>6, <2>1 DEF StartWorker
    <3>5. LaunchProgress' /\ RunningIsRecorded' BY <1>6, <2>1, <3>1 DEF StartWorker
    <3> QED BY <3>2, <3>3, <3>4, <3>5
  <2>2. CASE workerLock # None BY <1>1, <1>6, <2>2 DEF StartWorker
  <2> QED BY <2>1, <2>2
<1>7. CASE Cycle
  <2>1. worker' \in WorkerState BY <1>7 DEF Cycle, DrainSeen, WorkerState
  <2> QED BY <1>7, <2>1 DEF Cycle, WorkerState
<1>8. CASE Step
  <2>1. unfinished' \in BOOLEAN BY <1>8 DEF Step
  <2>2. CASE worker.draining /\ ~unfinished'
    BY <1>8, <2>1, <2>2, WorkerStops DEF Step
  <2>3. CASE ~(worker.draining /\ ~unfinished')
    <3>1. worker' \in WorkerState BY <1>8, <2>3 DEF Step, WorkerState
    <3> QED BY <1>8, <2>1, <2>3, <3>1 DEF Step, WorkerState
  <2> QED BY <2>2, <2>3
<1> QED BY <1>2, <1>3, <1>4, <1>5, <1>6, <1>7, <1>8 DEF WorkerStep

LEMMA OthersMove ==
  ASSUME InstallationInv, RequestDrain \/ EditCheckout \/ UNCHANGED vars
  PROVE  InstallationInv'
<1> USE InstallerFaultsAssumption
    DEF files, locks, installer, World, InstallationInv, TypeOK, LocksHeld, Locked, Updating,
        FirstConfigured, UpdateProgress, LaunchProgress, RunningIsRecorded, Started, RecordedIsComplete
<1>1. CASE RequestDrain BY <1>1 DEF RequestDrain
<1>2. CASE EditCheckout BY <1>2 DEF EditCheckout, Fault
<1>3. CASE UNCHANGED vars BY <1>3 DEF vars
<1> QED BY <1>1, <1>2, <1>3

LEMMA InstallationInductive == InstallationInv /\ [Next]_vars => InstallationInv'
<1> SUFFICES ASSUME InstallationInv, [Next]_vars PROVE InstallationInv'
  OBVIOUS
<1>1. ASSUME NEW i \in Installers, Fetch(i, "create") \/ Fetch(i, "look") \/ InstallerStep(i)
      PROVE  InstallationInv'
  BY <1>1, FirstSteps, UpdateSteps DEF InstallerStep
<1>2. ASSUME NEW i \in Installers, Dies(i) PROVE InstallationInv'
  <2>1. drain' \in BOOLEAN /\ faults' \in 0 .. MaxFaults
    BY <1>2, InstallerFaultsAssumption DEF Dies, Fault, files, InstallationInv, TypeOK
  <2> QED BY <1>2, <2>1, InstallerEnds DEF Dies, files, World
<1>3. CASE RequestDrain \/ EditCheckout \/ UNCHANGED vars BY <1>3, OthersMove
<1>4. CASE WorkerStep \/ Launch \/ StopWorker BY <1>4, WorkerMoves
<1> QED BY <1>1, <1>2, <1>3, <1>4 DEF Next

\* The inductive invariant holds in every reachable state.
THEOREM InstallationHolds == Spec => []InstallationInv
  BY InitHolds, InstallationInductive, PTL DEF Spec

-----------------------------------------------------------------------------
(* What it means for the member.                                           *)

\* The worker that runs is the release the marker records, with its runtimes.
THEOREM RunsTheRecorded == Spec => []RunningIsRecorded
<1>1. InstallationInv => RunningIsRecorded BY DEF InstallationInv
<1> QED BY <1>1, InstallationHolds, PTL

\* A recorded release is complete: its checkout, the launcher, a configuration.
THEOREM RecordsTheComplete == Spec => []RecordedIsComplete
<1>1. InstallationInv => RecordedIsComplete BY DEF InstallationInv
<1> QED BY <1>1, InstallationHolds, PTL

\* Where the release, the configuration or the drain request is changed, no
\* worker runs and no work is unfinished.
LEMMA StepDisturbsNobody ==
  InstallationInv /\ [Next]_vars =>
    [(Started \/ unfinished) => /\ marker' = marker /\ config' = config
                                /\ (Started /\ drain) => drain']_vars
<1> SUFFICES ASSUME InstallationInv, [Next]_vars, Started \/ unfinished
             PROVE  marker' = marker /\ config' = config /\ ((Started /\ drain) => drain')
  OBVIOUS
<1>1. launcher /\ config # None
  BY DEF InstallationInv, Started, LaunchProgress, FirstConfigured
<1>2. \A i \in Installers : pc[i] \notin Updating
  BY NamesAssumption DEF InstallationInv, TypeOK, UpdateProgress, LocksHeld, Locked, Updating, Started
<1>3. \A i \in Installers : pc[i] \notin {"own", "configure"}
  BY <1>1 DEF InstallationInv, FirstConfigured
<1>4. ASSUME NEW i \in Installers, InstallerStep(i)
      PROVE  marker' = marker /\ config' = config /\ drain' = drain
  BY <1>2, <1>3, <1>4
  DEF InstallerStep, Look, MakeDirectory, WriteOwnership, WriteConfig, WriteToken, LockInstallation,
      CheckDrained, Verify, Build, ActivateConfig, ActivateLauncher, ActivateMarker, ClearDrain,
      Refuses, Goto, files, Locked, Updating
<1>5. ASSUME NEW i \in Installers, Fetch(i, "create") \/ Fetch(i, "look") \/ Dies(i)
      PROVE  marker' = marker /\ config' = config /\ drain' = drain
  BY <1>5 DEF Fetch, Dies, files
<1>6. CASE RequestDrain BY <1>6 DEF RequestDrain
<1>7. CASE EditCheckout BY <1>7 DEF EditCheckout
<1>8. CASE Launch \/ StopWorker \/ UNCHANGED vars BY <1>8 DEF Launch, StopWorker, vars, files
<1>9. CASE WorkerStep
  <2>1. UNCHANGED files
    BY <1>9 DEF WorkerStep, ReadRecord, CheckConfig, StartWorker, Cycle, Step
  <2> QED BY <2>1 DEF files
<1> QED BY <1>4, <1>5, <1>6, <1>7, <1>8, <1>9 DEF Next

\* Installers and updates leave a running worker and unfinished work alone.
THEOREM WorkIsLeftAlone == Spec => WorkUndisturbed
  BY InstallationHolds, StepDisturbsNobody, PTL DEF Spec, WorkUndisturbed

\* No operation drops a release or declares a changed checkout intact.
THEOREM CheckoutsAreKept == Spec => CheckoutsStay
<1>1. InstallationInv /\ [Next]_vars =>
        [built \subseteq built' /\ intact' \cap built \subseteq intact]_vars
  <2> SUFFICES ASSUME InstallationInv, [Next]_vars
               PROVE  built \subseteq built' /\ intact' \cap built \subseteq intact
    OBVIOUS
  <2>1. ASSUME NEW i \in Installers, Build(i)
        PROVE  built \subseteq built' /\ intact' \cap built \subseteq intact
    BY <2>1 DEF Build, Buildable, Refuses, files
  <2>2. ASSUME NEW i \in Installers, InstallerStep(i), ~Build(i)
        PROVE  built' = built /\ intact' = intact
    BY <2>2
    DEF InstallerStep, Look, MakeDirectory, WriteOwnership, WriteConfig, WriteToken, LockInstallation,
        CheckDrained, Verify, ActivateConfig, ActivateLauncher, ActivateMarker, ClearDrain,
        Refuses, Goto, files
  <2>3. ASSUME NEW i \in Installers, Fetch(i, "create") \/ Fetch(i, "look") \/ Dies(i)
        PROVE  built' = built /\ intact' = intact
    BY <2>3 DEF Fetch, Dies, files
  <2>4. CASE EditCheckout BY <2>4 DEF EditCheckout
  <2>5. CASE RequestDrain \/ Launch \/ WorkerStep \/ StopWorker \/ UNCHANGED vars
    BY <2>5
    DEF RequestDrain, Launch, WorkerStep, ReadRecord, CheckConfig, StartWorker, Cycle,
        Step, StopWorker, vars, files
  <2> QED BY <2>1, <2>2, <2>3, <2>4, <2>5 DEF Next
<1> QED BY <1>1, InstallationHolds, PTL DEF Spec, CheckoutsStay

-----------------------------------------------------------------------------
(* What a retry finds.                                                     *)

\* Nothing an installation has is taken away again.
LEMMA FilesStay ==
  ASSUME InstallationInv, [Next]_vars
  PROVE  (marker # None => marker' # None) /\ (config # None => config' # None)
<1>1. ASSUME NEW i \in Installers, InstallerStep(i)
      PROVE  (marker # None => marker' # None) /\ (config # None => config' # None)
  <2>1. pc[i] # "idle" => /\ want[i] \in Releases /\ want[i] # None
                          /\ ImagesOf[want[i]] \in Images /\ ImagesOf[want[i]] # None
    BY NamesAssumption DEF InstallationInv, UpdateProgress, Images
  <2>2. marker' \in {marker, "bare"} \/ (marker' = want[i] /\ pc[i] # "idle")
    BY <1>1
    DEF InstallerStep, Look, MakeDirectory, WriteOwnership, WriteConfig, WriteToken, LockInstallation,
        CheckDrained, Verify, Build, ActivateConfig, ActivateLauncher, ActivateMarker, ClearDrain,
        Refuses, Goto, files
  <2>3. config' = config \/ (config' = ImagesOf[want[i]] /\ pc[i] # "idle")
    BY <1>1
    DEF InstallerStep, Look, MakeDirectory, WriteOwnership, WriteConfig, WriteToken, LockInstallation,
        CheckDrained, Verify, Build, ActivateConfig, ActivateLauncher, ActivateMarker, ClearDrain,
        Refuses, Goto, files
  <2> QED BY <2>1, <2>2, <2>3, NamesAssumption
<1>2. ASSUME NEW i \in Installers, Fetch(i, "create") \/ Fetch(i, "look") \/ Dies(i)
      PROVE  marker' = marker /\ config' = config
  BY <1>2 DEF Fetch, Dies, files
<1>3. CASE RequestDrain \/ EditCheckout \/ Launch \/ WorkerStep \/ StopWorker \/ UNCHANGED vars
  BY <1>3
  DEF RequestDrain, EditCheckout, Launch, WorkerStep, ReadRecord, CheckConfig, StartWorker, Cycle,
      Step, StopWorker, vars, files
<1> QED BY <1>1, <1>2, <1>3 DEF Next

LEMMA LeftBehindNext == InstallationInv /\ LeftBehind /\ [Next]_vars => LeftBehind'
<1> SUFFICES ASSUME InstallationInv, LeftBehind, [Next]_vars PROVE LeftBehind'
  OBVIOUS
<1>1. \A i \in Installers :
         /\ pc'[i] \in {"configure", "token"} => marker' # None
         /\ pc'[i] = "token" => config' # None
  <2> SUFFICES ASSUME NEW i \in Installers, pc'[i] \in {"configure", "token"}
               PROVE  marker' # None /\ (pc'[i] = "token" => config' # None)
    OBVIOUS
  <2>1. CASE pc'[i] = pc[i] BY <2>1, FilesStay DEF LeftBehind
  <2>2. CASE pc'[i] # pc[i]
    <3>1. (WriteOwnership(i) /\ pc'[i] = "configure") \/ (WriteConfig(i) /\ pc'[i] = "token")
      <4>1. ASSUME NEW j \in Installers, Fetch(j, "create") \/ Fetch(j, "look") \/ Dies(j)
            PROVE  FALSE
        BY <2>2, <4>1 DEF Fetch, Dies, Ends, InstallationInv, TypeOK
      <4>2. ASSUME NEW j \in Installers, InstallerStep(j)
            PROVE  (WriteOwnership(i) /\ pc'[i] = "configure") \/ (WriteConfig(i) /\ pc'[i] = "token")
        <5>1. j = i
          BY <2>2, <4>2
          DEF InstallerStep, Look, MakeDirectory, WriteOwnership, WriteConfig, WriteToken,
              LockInstallation, CheckDrained, Verify, Build, ActivateConfig, ActivateLauncher,
              ActivateMarker, ClearDrain, Refuses, Goto, Ends, InstallationInv, TypeOK
        <5>2. pc'[i] \notin {"lock", "drained", "verify", "build", "config", "run", "marker", "clear", "idle"}
          OBVIOUS
        <5> QED
          BY <4>2, <5>1, <5>2
          DEF InstallerStep, Look, MakeDirectory, WriteOwnership, WriteConfig, WriteToken,
              LockInstallation, CheckDrained, Verify, Build, ActivateConfig, ActivateLauncher,
              ActivateMarker, ClearDrain, Refuses, Goto, Ends, Then, InstallationInv, TypeOK
      <4>3. CASE RequestDrain \/ EditCheckout \/ Launch \/ WorkerStep \/ StopWorker \/ UNCHANGED vars
        BY <2>2, <4>3
        DEF RequestDrain, EditCheckout, Launch, WorkerStep, ReadRecord, CheckConfig, StartWorker, Cycle,
            Step, StopWorker, vars, installer
      <4> QED BY <4>1, <4>2, <4>3 DEF Next
    <3>2. CASE WriteOwnership(i) /\ pc'[i] = "configure"
      BY <3>2, NamesAssumption DEF WriteOwnership
    <3>3. CASE WriteConfig(i) /\ pc'[i] = "token"
      <4>1. marker # None /\ marker' = marker
        BY <3>3 DEF WriteConfig, Goto, LeftBehind
      <4>2. config' = ImagesOf[want[i]] /\ want[i] \in Releases
        BY <3>3 DEF WriteConfig, Goto, InstallationInv, UpdateProgress
      <4> QED BY <4>1, <4>2, NamesAssumption DEF Images
    <3> QED BY <3>1, <3>2, <3>3
  <2> QED BY <2>1, <2>2
<1>2. token' => marker' # None /\ config' # None
  <2>1. CASE token BY <2>1, FilesStay DEF LeftBehind
  <2>2. CASE ~token /\ token'
    <3>1. \E i \in Installers : WriteToken(i)
      BY <2>2
      DEF Next, InstallerStep, Look, MakeDirectory, WriteOwnership, WriteConfig, LockInstallation,
          CheckDrained, Verify, Build, ActivateConfig, ActivateLauncher, ActivateMarker, ClearDrain,
          Refuses, Goto, Fetch, Dies, RequestDrain, EditCheckout, Launch, WorkerStep, ReadRecord,
          CheckConfig, StartWorker, Cycle, Step, StopWorker, vars, files
    <3> QED BY <3>1, FilesStay DEF WriteToken, Goto, LeftBehind
  <2> QED BY <2>1, <2>2
<1>3. unfinished' => marker' \in Releases /\ config' = ImagesOf[marker']
  <2>1. CASE unfinished
    <3>1. marker' = marker /\ config' = config
      <4>1. CASE UNCHANGED vars BY <4>1 DEF vars, files
      <4> QED BY <2>1, <4>1, StepDisturbsNobody
    <3> QED BY <2>1, <3>1 DEF LeftBehind
  <2>2. CASE ~unfinished /\ unfinished'
    <3>1. Step
      BY <2>2
      DEF Next, InstallerStep, Look, MakeDirectory, WriteOwnership, WriteConfig, WriteToken,
          LockInstallation, CheckDrained, Verify, Build, ActivateConfig, ActivateLauncher,
          ActivateMarker, ClearDrain, Refuses, Goto, Fetch, Dies, RequestDrain, EditCheckout, Launch,
          WorkerStep, ReadRecord, CheckConfig, StartWorker, Cycle, StopWorker, vars, World
    <3>2. worker.at = "step" /\ marker' = marker /\ config' = config
      BY <3>1 DEF Step, files
    <3> QED BY <3>2 DEF InstallationInv, RunningIsRecorded, Started, LaunchProgress
  <2> QED BY <2>1, <2>2
<1> QED BY <1>1, <1>2, <1>3 DEF LeftBehind

\* Wherever installers and workers have died, the installation can be started or
\* updated, unless a checkout was changed; unfinished work is never left to a
\* release that cannot start (install_worker_v2.py:247-269).
THEOREM RetryAlwaysSucceeds == Spec => []RetrySucceeds
<1>1. Init => LeftBehind
  BY DEF Init, LeftBehind
<1>2. InstallationInv /\ LeftBehind => RetrySucceeds
  <2> SUFFICES ASSUME InstallationInv, LeftBehind, Quiet, token, intact = built
               PROVE  Startable \/ \A r \in Releases : UpdateSucceeds(r)
    BY DEF RetrySucceeds
  <2>1. marker # None /\ config # None
    BY DEF LeftBehind
  <2>2. marker \in Releases => marker \in intact
    BY DEF InstallationInv, RecordedIsComplete
  <2>3. workerLock = None
    BY DEF Quiet, InstallationInv, TypeOK, LocksHeld, Updating, Locked
  <2>4. CASE unfinished
    BY <2>2, <2>4 DEF Startable, LeftBehind, InstallationInv, LaunchProgress
  <2>5. CASE ~unfinished
    BY <2>1, <2>2, <2>3, <2>5 DEF UpdateSucceeds, Drained, Buildable
  <2> QED BY <2>4, <2>5
<1> QED BY <1>1, <1>2, LeftBehindNext, InstallationHolds, InstallationInductive, PTL DEF Spec
-----------------------------------------------------------------------------
(* The installation implements InstalledWorker.                            *)

\* Where an update, or the installer of a new directory, writes, nothing runs and
\* no work is open.
LEMMA NothingRuns ==
  ASSUME InstallationInv, NEW i \in Installers, pc[i] \in Updating \cup {"own", "configure"}
  PROVE  worker.at = "off" /\ ~Started /\ ~unfinished
<1>1. CASE pc[i] \in Updating
  BY <1>1, NamesAssumption
  DEF InstallationInv, TypeOK, LocksHeld, UpdateProgress, Updating, Locked, Started
<1>2. CASE pc[i] \in {"own", "configure"}
  BY <1>2 DEF InstallationInv, FirstConfigured, LaunchProgress, Started
<1> QED BY <1>1, <1>2

\* The five things an installer writes that others see, and who writes them.
Seen == <<marker, config, drain, unfinished, worker>>
Writes(i) == WriteOwnership(i) \/ WriteConfig(i) \/ ActivateConfig(i) \/ ActivateMarker(i) \/ ClearDrain(i)

LEMMA OtherStepsUnseen ==
  ASSUME NEW i \in Installers,
         Fetch(i, "create") \/ Fetch(i, "look") \/ Dies(i) \/ (InstallerStep(i) /\ ~Writes(i))
  PROVE  UNCHANGED Seen
<1>1. CASE Fetch(i, "create") \/ Fetch(i, "look") \/ Dies(i)
  BY <1>1 DEF Fetch, Dies, Seen, World, files
<1>2. CASE InstallerStep(i) /\ ~Writes(i)
  BY <1>2
  DEF InstallerStep, Writes, Look, MakeDirectory, WriteToken, LockInstallation, CheckDrained, Verify,
      Build, ActivateLauncher, Refuses, Goto, Seen, World, files
<1> QED BY <1>1, <1>2

LEMMA ActivatingNext == InstallationInv /\ Activating /\ [Next]_vars => Activating'
<1> SUFFICES ASSUME InstallationInv, Activating, [Next]_vars,
                    NEW i \in Installers, pc'[i] \in {"run", "marker"}
             PROVE  config' = ImagesOf[want'[i]]
  BY DEF Activating
<1>1. CASE ActivateConfig(i)
  BY <1>1 DEF ActivateConfig, Goto
<1>2. CASE ~ActivateConfig(i)
  <2>1. pc[i] \in {"run", "marker"} /\ want'[i] = want[i]
    <3>1. ASSUME NEW j \in Installers, Fetch(j, "create") \/ Fetch(j, "look") \/ Dies(j)
          PROVE  pc[i] \in {"run", "marker"} /\ want'[i] = want[i]
      BY <3>1 DEF Fetch, Dies, Ends, InstallationInv, TypeOK
    <3>2. ASSUME NEW j \in Installers, InstallerStep(j)
          PROVE  pc[i] \in {"run", "marker"} /\ want'[i] = want[i]
      <4>1. CASE j # i
        BY <3>2, <4>1
        DEF InstallerStep, Look, MakeDirectory, WriteOwnership, WriteConfig, WriteToken,
            LockInstallation, CheckDrained, Verify, Build, ActivateConfig, ActivateLauncher,
            ActivateMarker, ClearDrain, Refuses, Goto, Ends, InstallationInv, TypeOK
      <4>2. CASE j = i
        BY <1>2, <3>2, <4>2
        DEF InstallerStep, Look, MakeDirectory, WriteOwnership, WriteConfig, WriteToken,
            LockInstallation, CheckDrained, Verify, Build, ActivateLauncher,
            ActivateMarker, ClearDrain, Refuses, Goto, Ends, Then, InstallationInv, TypeOK
      <4> QED BY <4>1, <4>2
    <3>3. CASE RequestDrain \/ EditCheckout \/ Launch \/ WorkerStep \/ StopWorker \/ UNCHANGED vars
      BY <3>3
      DEF RequestDrain, EditCheckout, Launch, WorkerStep, ReadRecord, CheckConfig, StartWorker, Cycle,
          Step, StopWorker, vars, installer
    <3> QED BY <3>1, <3>2, <3>3 DEF Next
  <2>2. config' = config
    <3>1. installation = i /\ config # None
      BY <2>1 DEF InstallationInv, LocksHeld, UpdateProgress, Updating, Locked
    <3>2. ASSUME NEW j \in Installers, InstallerStep(j) PROVE config' = config
      <4>1. ~WriteConfig(j)
        BY <3>1 DEF WriteConfig, Goto, InstallationInv, FirstConfigured
      <4>2. ~ActivateConfig(j)
        BY <1>2, <3>1 DEF ActivateConfig, Goto, InstallationInv, LocksHeld, Locked
      <4>3. CASE Writes(j)
        BY <4>1, <4>2, <4>3 DEF Writes, WriteOwnership, ActivateMarker, ClearDrain
      <4> QED BY <3>2, <4>3, OtherStepsUnseen DEF Seen
    <3>3. ASSUME NEW j \in Installers, Fetch(j, "create") \/ Fetch(j, "look") \/ Dies(j)
          PROVE  config' = config
      BY <3>3, OtherStepsUnseen DEF Seen
    <3>4. CASE RequestDrain \/ EditCheckout \/ Launch \/ WorkerStep \/ StopWorker \/ UNCHANGED vars
      BY <3>4
      DEF RequestDrain, EditCheckout, Launch, WorkerStep, ReadRecord, CheckConfig, StartWorker, Cycle,
          Step, StopWorker, vars, files
    <3> QED BY <3>2, <3>3, <3>4 DEF Next
  <2> QED BY <2>1, <2>2 DEF Activating
<1> QED BY <1>1, <1>2

LEMMA DrainInSightNext == InstallationInv /\ DrainInSight /\ [Next]_vars => DrainInSight'
<1> SUFFICES ASSUME InstallationInv, DrainInSight, [Next]_vars PROVE DrainInSight'
  OBVIOUS
<1> USE DEF DrainInSight
<1>1. worker \in WorkerState
  BY DEF InstallationInv, TypeOK, WorkerState
<1>2. ASSUME NEW i \in Installers, InstallerStep(i) PROVE DrainInSight'
  <2>1. CASE ClearDrain(i)
    <3>1. worker.at = "off"
      BY <2>1, NothingRuns DEF ClearDrain, Updating, Locked
    <3> QED BY <2>1, <3>1 DEF ClearDrain, World
  <2>2. CASE Writes(i) /\ ~ClearDrain(i)
    BY <2>2 DEF Writes, WriteOwnership, WriteConfig, ActivateConfig, ActivateMarker, Goto, World
  <2> QED BY <1>2, <2>1, <2>2, OtherStepsUnseen DEF Seen
<1>3. ASSUME NEW i \in Installers, Fetch(i, "create") \/ Fetch(i, "look") \/ Dies(i)
      PROVE  DrainInSight'
  BY <1>3, OtherStepsUnseen DEF Seen
<1>4. CASE RequestDrain \/ EditCheckout \/ UNCHANGED vars
  BY <1>4 DEF RequestDrain, EditCheckout, vars, files, World
<1>5. CASE WorkerEnds
  BY <1>5 DEF WorkerEnds, Off
<1>6. CASE Launch
  BY <1>1, <1>6 DEF Launch, Worker, WorkerState
<1>7. CASE ReadRecord
  BY <1>1, <1>5, <1>7 DEF ReadRecord, WorkerState
<1>8. CASE CheckConfig
  BY <1>1, <1>5, <1>8 DEF CheckConfig, Worker, WorkerState
<1>9. CASE StartWorker
  BY <1>1, <1>5, <1>9 DEF StartWorker, WorkerState
<1>10. CASE Cycle
  BY <1>1, <1>10 DEF Cycle, DrainSeen, files, WorkerState
<1>11. CASE Step
  BY <1>1, <1>5, <1>11 DEF Step, Worker, files, WorkerState
<1>12. CASE StopWorker
  BY <1>5, <1>12 DEF StopWorker
<1> QED
  BY <1>2, <1>3, <1>4, <1>6, <1>7, <1>8, <1>9, <1>10, <1>11, <1>12 DEF Next, WorkerStep

\* What the refinement rests on.
InstalledInv == InstallationInv /\ LeftBehind /\ Activating /\ DrainInSight

InstalledStep == [Abstract!Next]_(Abstract!installedVars)

LEMMA InstalledInit == Init => InstalledInv /\ Abstract!Init
<1> SUFFICES ASSUME Init PROVE InstalledInv /\ Abstract!Init
  OBVIOUS
<1>1. InstalledInv
  BY InitHolds DEF Init, Off, InstalledInv, LeftBehind, Activating, DrainInSight
<1>2. Abstract!Init
  BY NamesAssumption DEF Init, Off, Abstract!Init, Recorded, Running, TakenBy, Started
<1> QED BY <1>1, <1>2

LEMMA InstalledNext == InstalledInv /\ [Next]_vars => InstalledInv'
  BY InstallationInductive, LeftBehindNext, ActivatingNext, DrainInSightNext DEF InstalledInv

LEMMA UnseenStutters == ASSUME UNCHANGED Seen PROVE UNCHANGED Abstract!installedVars
  BY DEF Seen, Abstract!installedVars, Recorded, Running, TakenBy, Started

\* An installer's writes are made at rest.
LEMMA InstallerRefinesStep ==
  ASSUME InstalledInv, NEW i \in Installers, InstallerStep(i)
  PROVE  InstalledStep
<1> USE DEF InstalledStep
<1>1. CASE ~Writes(i)
  BY <1>1, OtherStepsUnseen, UnseenStutters
<1>2. ASSUME Writes(i)
      PROVE  /\ worker' = worker /\ unfinished' = unfinished /\ ~Started /\ ~unfinished
             /\ Running = None /\ Running' = None /\ TakenBy = None /\ TakenBy' = None
             /\ want[i] \in Releases
  <2>1. ~Started /\ ~unfinished
    BY <1>2, NothingRuns
    DEF Writes, WriteOwnership, WriteConfig, ActivateConfig, ActivateMarker, ClearDrain, Goto,
        InstalledInv, Updating, Locked
  <2>2. worker' = worker /\ unfinished' = unfinished
    BY <1>2 DEF Writes, WriteOwnership, WriteConfig, ActivateConfig, ActivateMarker, ClearDrain, Goto, World
  <2>3. want[i] \in Releases
    BY <1>2
    DEF Writes, WriteOwnership, WriteConfig, ActivateConfig, ActivateMarker, ClearDrain, Goto,
        InstalledInv, InstallationInv, UpdateProgress
  <2> QED BY <2>1, <2>2, <2>3 DEF Running, TakenBy, Started
<1>3. CASE WriteOwnership(i)
  <2>1. Recorded = None /\ Recorded' = None
    BY <1>3, NamesAssumption
    DEF WriteOwnership, InstalledInv, InstallationInv, FirstConfigured, Recorded
  <2> QED BY <1>2, <1>3, <2>1 DEF Writes, WriteOwnership, Abstract!installedVars
<1>4. CASE WriteConfig(i) \/ ActivateConfig(i)
  <2>1. /\ config' = ImagesOf[want[i]] /\ UNCHANGED <<marker, drain>>
    BY <1>4 DEF WriteConfig, ActivateConfig
  <2>2. Abstract!Configure
    BY <1>2, <1>4, <2>1 DEF Writes, Abstract!Configure, Abstract!AtRest, Recorded
  <2> QED BY <2>2 DEF Abstract!Next
<1>5. CASE ActivateMarker(i)
  <2>1. config = ImagesOf[want[i]]
    BY <1>5 DEF ActivateMarker, Goto, InstalledInv, Activating
  <2>2. marker' = want[i] /\ UNCHANGED <<config, drain>>
    BY <1>5 DEF ActivateMarker
  <2>3. Abstract!Activate
    BY <1>2, <1>5, <2>1, <2>2 DEF Writes, Abstract!Activate, Abstract!AtRest, Recorded
  <2> QED BY <2>3 DEF Abstract!Next
<1>6. CASE ClearDrain(i)
  <2>1. drain' = FALSE /\ UNCHANGED <<marker, config>>
    BY <1>6 DEF ClearDrain
  <2>2. Abstract!ForgetDrain
    BY <1>2, <1>6, <2>1 DEF Writes, Abstract!ForgetDrain, Abstract!AtRest, Recorded
  <2> QED BY <2>2 DEF Abstract!Next
<1> QED BY <1>1, <1>3, <1>4, <1>5, <1>6 DEF Writes

\* The end of a launcher or a worker with whatever work it leaves.
LEMMA EndRefines ==
  ASSUME InstalledInv, WorkerEnds, UNCHANGED <<files, unfinished>>
  PROVE  InstalledStep
<1>1. Running' = None /\ worker'.draining = FALSE
  BY DEF WorkerEnds, Off, Running, Started
<1>2. UNCHANGED <<Recorded, config, TakenBy, drain>>
  BY DEF files, Recorded, TakenBy
<1>3. CASE Started
  <2>1. Running # None
    BY <1>3, NamesAssumption
    DEF Running, Started, InstalledInv, InstallationInv, LaunchProgress
  <2>2. Abstract!Stop
    BY <1>1, <1>2, <2>1 DEF Abstract!Stop
  <2> QED BY <2>2 DEF InstalledStep, Abstract!Next
<1>4. CASE ~Started
  <2>1. Running = None /\ worker.draining = FALSE
    BY <1>4 DEF Running, Started, InstalledInv, DrainInSight, InstallationInv, TypeOK
  <2> QED BY <1>1, <1>2, <2>1 DEF InstalledStep, Abstract!installedVars
<1> QED BY <1>3, <1>4

\* From the launcher's checks to the loop of the worker: it runs from exec on.
LEMMA LaunchRefines ==
  ASSUME InstalledInv, Launch \/ ReadRecord \/ CheckConfig \/ StartWorker \/ StopWorker
  PROVE  InstalledStep
<1>1. worker \in WorkerState
  BY DEF InstalledInv, InstallationInv, TypeOK, WorkerState
<1>2. UNCHANGED <<files, unfinished>>
  BY DEF Launch, ReadRecord, CheckConfig, StartWorker, StopWorker
<1>3. UNCHANGED <<Recorded, config, TakenBy, drain>>
  BY <1>2 DEF files, Recorded, TakenBy
<1>4. CASE WorkerEnds BY <1>2, <1>4, EndRefines
<1>5. CASE /\ Launch \/ ReadRecord
           /\ ~WorkerEnds
  <2>1. Running = None /\ Running' = None /\ worker'.draining = worker.draining
    BY <1>1, <1>5 DEF Launch, ReadRecord, Worker, Running, Started, WorkerState
  <2> QED BY <1>3, <2>1 DEF InstalledStep, Abstract!installedVars
<1>6. CASE CheckConfig /\ ~WorkerEnds
  <2>1. worker.at = "config" /\ RecordedImages /\ worker' = [worker EXCEPT !.at = "start"]
    BY <1>6 DEF CheckConfig, Worker
  <2>2. worker.release = marker /\ marker \in Releases
    BY <2>1 DEF InstalledInv, InstallationInv, LaunchProgress
  <2>3. /\ Running = None /\ Running' = marker /\ worker'.draining = worker.draining
        /\ Recorded = marker /\ marker # None
    BY <1>1, <2>1, <2>2, NamesAssumption DEF Running, Started, Recorded, WorkerState
  <2>4. Abstract!Start
    BY <1>3, <2>1, <2>2, <2>3 DEF Abstract!Start, RecordedImages
  <2> QED BY <2>4 DEF InstalledStep, Abstract!Next
<1>7. CASE StartWorker /\ ~WorkerEnds
  <2>1. Running' = Running /\ worker'.draining = worker.draining
    BY <1>1, <1>7 DEF StartWorker, Running, Started, WorkerState
  <2> QED BY <1>3, <2>1 DEF InstalledStep, Abstract!installedVars
<1>8. CASE StopWorker BY <1>4, <1>8 DEF StopWorker
<1> QED BY <1>4, <1>5, <1>6, <1>7, <1>8

\* The loop: it is told, it takes work, it finishes, it ends.
LEMMA LoopRefines ==
  ASSUME InstalledInv, Cycle \/ Step
  PROVE  InstalledStep
<1>1. worker \in WorkerState /\ unfinished \in BOOLEAN /\ drain \in BOOLEAN
  BY DEF InstalledInv, InstallationInv, TypeOK, WorkerState
<1>2. Started /\ worker.release = marker /\ marker \in Releases /\ marker # None
  BY NamesAssumption
  DEF Cycle, Step, Started, InstalledInv, InstallationInv, LaunchProgress
<1>3. Running = marker /\ Recorded = marker /\ UNCHANGED <<Recorded, config, drain, marker>>
  BY <1>2 DEF Cycle, Step, files, Running, Recorded
<1>4. CASE Cycle
  <2>1. /\ worker'.draining = drain /\ Running' = Running /\ TakenBy' = TakenBy
    BY <1>1, <1>3, <1>4 DEF Cycle, DrainSeen, Running, Started, TakenBy, WorkerState
  <2>2. CASE drain
    <3>1. Abstract!Tell BY <1>2, <1>3, <2>1, <2>2 DEF Abstract!Tell
    <3> QED BY <3>1 DEF InstalledStep, Abstract!Next
  <2>3. CASE ~drain
    <3>1. worker.draining = FALSE BY <1>1, <2>3 DEF InstalledInv, DrainInSight, WorkerState
    <3> QED BY <1>1, <1>3, <2>1, <2>3, <3>1 DEF InstalledStep, Abstract!installedVars
  <2> QED BY <1>1, <2>2, <2>3
<1>5. CASE Step
  <2>1. unfinished' \in BOOLEAN
    BY <1>5 DEF Step
  <2>2. CASE worker.draining /\ ~unfinished' /\ WorkerEnds
    <3>1. Running' = None /\ worker'.draining = FALSE
      BY <2>2 DEF WorkerEnds, Off, Running, Started
    <3>2. CASE unfinished
      <4>1. TakenBy = marker /\ TakenBy' = None
        BY <1>3, <2>2, <3>2 DEF TakenBy
      <4>2. Abstract!Finish
        BY <1>2, <1>3, <2>2, <3>1, <4>1 DEF Abstract!Finish
      <4> QED BY <4>2 DEF InstalledStep, Abstract!Next
    <3>3. CASE ~unfinished
      BY <1>1, <1>5, <2>1, <2>2, <3>3, EndRefines DEF Step
    <3> QED BY <3>2, <3>3
  <2>3. CASE (worker.draining => unfinished' = unfinished) /\ worker' = [worker EXCEPT !.at = "run"]
    <3>1. Running' = Running /\ worker'.draining = worker.draining
      BY <1>1, <1>2, <2>3 DEF Running, Started, WorkerState
    <3>2. CASE unfinished' = unfinished
      <4>1. TakenBy' = TakenBy BY <1>3, <3>2 DEF TakenBy
      <4> QED BY <1>3, <3>1, <4>1 DEF InstalledStep, Abstract!installedVars
    <3>3. CASE unfinished /\ ~unfinished'
      <4>1. TakenBy = marker /\ TakenBy' = None /\ worker.draining = FALSE
        BY <1>1, <1>3, <2>3, <3>3 DEF TakenBy, WorkerState
      <4>2. Abstract!Finish
        BY <1>2, <1>3, <3>1, <4>1 DEF Abstract!Finish
      <4> QED BY <4>2 DEF InstalledStep, Abstract!Next
    <3>4. CASE ~unfinished /\ unfinished'
      <4>1. TakenBy = None /\ TakenBy' = marker /\ ~worker.draining
        BY <1>3, <2>3, <3>4 DEF TakenBy
      <4>2. Abstract!Take
        BY <1>2, <1>3, <3>1, <4>1 DEF Abstract!Take
      <4> QED BY <4>2 DEF InstalledStep, Abstract!Next
    <3> QED BY <1>1, <2>1, <3>2, <3>3, <3>4
  <2> QED BY <1>5, <2>2, <2>3 DEF Step, Worker
<1> QED BY <1>4, <1>5

LEMMA InstalledRefines == InstalledInv /\ [Next]_vars => InstalledStep
<1> SUFFICES ASSUME InstalledInv, [Next]_vars PROVE InstalledStep
  OBVIOUS
<1>1. ASSUME NEW i \in Installers, Fetch(i, "create") \/ Fetch(i, "look") \/ Dies(i)
      PROVE  InstalledStep
  BY <1>1, OtherStepsUnseen, UnseenStutters DEF InstalledStep
<1>2. CASE RequestDrain
  <2>1. Abstract!RequestDrain
    BY <1>2 DEF RequestDrain, World, Abstract!RequestDrain, Recorded, Running, TakenBy, Started
  <2> QED BY <2>1 DEF InstalledStep, Abstract!Next
<1>3. CASE EditCheckout \/ UNCHANGED vars
  <2>1. UNCHANGED Seen BY <1>3 DEF EditCheckout, World, vars, files, Seen
  <2> QED BY <2>1, UnseenStutters DEF InstalledStep
<1> QED
  BY <1>1, <1>2, <1>3, InstallerRefinesStep, LaunchRefines, LoopRefines DEF Next, WorkerStep

\* The installation implements InstalledWorker: a release is activated as a whole
\* and at rest, finishes the work it took, and obeys the drain it was told of.
THEOREM InstallationRefinement == Spec => ImplementsInstalledWorker
<1>1. InstalledInv /\ [Next]_vars => [Abstract!Next]_(Abstract!installedVars)
  BY InstalledRefines DEF InstalledStep
<1> QED
  BY <1>1, InstalledInit, InstalledNext, PTL DEF Spec, ImplementsInstalledWorker, Abstract!Spec
=============================================================================
