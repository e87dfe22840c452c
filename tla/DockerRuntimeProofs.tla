------------------------- MODULE DockerRuntimeProofs -------------------------
(***************************************************************************)
(* Theorems about module DockerRuntime for every value of its constants:   *)
(* any number of nonces, outputs, files, limits and faults.                *)
(***************************************************************************)
EXTENDS DockerRuntimeProperties, TLAPS

LEMMA RuntimeInit == Init => RuntimeInv
<1> SUFFICES ASSUME Init PROVE RuntimeInv
  OBVIOUS
<1>1. \A n \in Nonces : thread[n].at = "idle"
  BY DEF Init, Idle
<1>2. TypeOK
  <2>1. Idle \in Thread
    BY DEF Idle, Thread
  <2> QED
    <3>1. thread \in [Nonces -> Thread]
      BY <2>1 DEF Init
    <3>2. 0 \in 0 .. MaxFaults
      BY RuntimeFaultsAssumption
    <3> QED
      BY <3>1, <3>2 DEF Init, TypeOK
<1>3. FilesInPlace /\ ContainerInPlace
  BY DEF Init, FilesInPlace, ContainerInPlace
<1>4. ThreadsInside
  BY <1>1 DEF ThreadsInside
<1>5. VerifiedIsSaved
  BY DEF Init, VerifiedIsSaved, Missing
<1> QED
  BY <1>2, <1>3, <1>4, <1>5 DEF RuntimeInv

\* A step before the executor's block, or after it, meets no thread.
LEMMA OutsideTheBlock ==
  ASSUME RuntimeInv, main \notin {"compute", "shutdown"}, ThreadsStay
  PROVE  ThreadsInside' /\ VerifiedIsSaved'
<1>1. \A n \in Nonces : thread[n].at = "idle"
  BY DEF RuntimeInv, ThreadsInside
<1>2. ThreadsInside'
  BY <1>1 DEF ThreadsStay, ThreadsInside
<1> QED
  BY <1>2 DEF RuntimeInv, ThreadsStay, VerifiedIsSaved, Missing

\* Downloading, extracting and copying the archive.
LEMMA FileSteps ==
  ASSUME RuntimeInv,
         \/ Launch \/ CheckLibrary \/ Fetch \/ Extract
         \/ Truncate \/ Fill \/ CopyEnds \/ WriteMarker
  PROVE  RuntimeInv'
<1> USE DEF Goto
<1>0. TypeOK /\ FilesInPlace /\ ContainerInPlace
  BY DEF RuntimeInv
<1>1. main \notin {"compute", "shutdown"} /\ ThreadsStay
  BY DEF Launch, CheckLibrary, Fetch, Extract, Truncate, Fill, CopyEnds, WriteMarker
<1>2. ThreadsInside' /\ VerifiedIsSaved'
  BY <1>1, OutsideTheBlock
<1>3. UNCHANGED docker /\ UNCHANGED faults /\ main' \notin {"create", "compute", "shutdown"}
  BY DEF Launch, CheckLibrary, Fetch, Extract, Truncate, Fill, CopyEnds, WriteMarker
<1>4. ContainerInPlace'
  BY <1>3 DEF ContainerInPlace
<1>5. /\ cache' \subseteq Files /\ archived' \in BOOLEAN /\ todo' \subseteq Files
      /\ work' \in [Files -> {"absent", "partial", "whole"}]
      /\ main' \in {"check", "fetch", "extract", "copy", "mark", "inspect", "released"}
  BY <1>0 DEF TypeOK, disk, Launch, CheckLibrary, Fetch, Extract, Truncate, Fill, CopyEnds, WriteMarker
<1>6. TypeOK'
  BY <1>0, <1>1, <1>3, <1>5 DEF TypeOK, docker, ThreadsStay
<1>7. FilesInPlace'
  <2> USE DEF FilesInPlace, AllWhole
  <2>1. CASE Launch \/ Fetch \/ Extract
    BY <1>0, <2>1 DEF Launch, Fetch, Extract, disk
  <2>2. CASE CheckLibrary
    <3>1. archived => InPlace
      BY <1>0, LibraryAssumption DEF InPlace
    <3> QED
      BY <1>0, <2>2, <3>1 DEF CheckLibrary, InPlace, disk
  <2>3. CASE Truncate
    BY <1>0, <2>3 DEF Truncate, TypeOK
  <2>4. CASE Fill
    BY <1>0, <2>4 DEF Fill, TypeOK
  <2>5. CASE CopyEnds \/ WriteMarker
    BY <1>0, <2>5 DEF CopyEnds, WriteMarker, disk
  <2> QED
    BY <2>1, <2>2, <2>3, <2>4, <2>5
<1> QED
  BY <1>2, <1>4, <1>6, <1>7 DEF RuntimeInv

\* Finding, replacing and creating the container.
LEMMA ContainerSteps ==
  ASSUME RuntimeInv, Inspect \/ Create \/ PrepareFails
  PROVE  RuntimeInv'
<1> USE DEF Goto
<1>0. TypeOK /\ FilesInPlace /\ ContainerInPlace
  BY DEF RuntimeInv
<1>1. main \notin {"compute", "shutdown"} /\ ThreadsStay /\ UNCHANGED disk
  BY DEF Inspect, Create, PrepareFails
<1>2. ThreadsInside' /\ VerifiedIsSaved'
  BY <1>1, OutsideTheBlock
<1>3. /\ main' \in {"check", "create", "compute"} /\ todo' = {}
      /\ main \in {"inspect", "create"} \/ main' = "check"
  BY DEF Inspect, Create, PrepareFails
<1>4. FilesInPlace'
  BY <1>0, <1>1, <1>3 DEF FilesInPlace, AllWhole, disk
<1>5. ContainerInPlace'
  <2> USE DEF ContainerInPlace
  <2>1. CASE Inspect
    BY <1>0, <1>1, <2>1 DEF Inspect, NoProcesses, LimitsMatch, ThreadsStay, docker, TypeOK
  <2>2. CASE Create
    BY <1>0, <1>1, <2>2 DEF Create, ThreadsStay, docker, TypeOK
  <2>3. CASE PrepareFails
    BY <2>3 DEF PrepareFails
  <2> QED
    BY <2>1, <2>2, <2>3
<1>6. faults' \in 0 .. MaxFaults
  BY <1>0, RuntimeFaultsAssumption DEF Inspect, Create, PrepareFails, Fault, TypeOK
<1>7. /\ box' \in {{}} \cup {{l} : l \in Limits} /\ ordered' \in {{}} \cup {{l} : l \in Limits}
      /\ strays' \subseteq Nonces /\ (box' = {} => strays' = {})
  <2>1. CASE Inspect
    BY <1>0, <2>1 DEF Inspect, NoProcesses, docker, TypeOK
  <2>2. CASE Create
    BY <1>0, <2>2 DEF Create, docker, TypeOK
  <2>3. CASE PrepareFails
    BY <1>0, <2>3 DEF PrepareFails, docker, TypeOK
  <2> QED
    BY <2>1, <2>2, <2>3
<1>8. TypeOK'
  BY <1>0, <1>1, <1>3, <1>6, <1>7 DEF TypeOK, disk, ThreadsStay
<1> QED
  BY <1>2, <1>4, <1>5, <1>8 DEF RuntimeInv

\* Docker obeys a command that was given up.
LEMMA LateContainer == RuntimeInv /\ CreatedLate => RuntimeInv'
  BY DEF RuntimeInv, CreatedLate, disk, TypeOK, FilesInPlace, AllWhole, ContainerInPlace,
     ThreadsInside, VerifiedIsSaved, Missing

-----------------------------------------------------------------------------
(* The threads, and the processes they abandon.                            *)

LEMMA ThreadEdits ==
  ASSUME NEW t \in Thread
  PROVE  /\ \A at \in {"idle", "running", "verify", "read", "done", "failed"} :
              [t EXCEPT !.at = at] \in Thread
         /\ \A leaf \in Leaves \cup {None} :
              /\ [[t EXCEPT !.at = "read"] EXCEPT !.verified = leaf] \in Thread
              /\ [[t EXCEPT !.at = "done"] EXCEPT !.leaf = leaf] \in Thread
  BY DEF Thread

\* A step of one thread: what it may change, and what it must establish.
LEMMA OneThread ==
  ASSUME RuntimeInv, NEW n \in Nonces, NEW t \in Thread,
         thread' = [thread EXCEPT ![n] = t],
         results' \in [Nonces -> Leaves \cup {None}],
         \A m \in Nonces \ {n} : results'[m] = results[m],
         t.at # "idle" => main \in {"compute", "shutdown"} /\ n \in Missing,
         t.at \in {"verify", "read"} => results'[n] # None,
         t.at = "read" => t.verified = results'[n],
         t.at = "done" => t.leaf = t.verified /\ t.leaf # None,
         strays' \subseteq strays \cup {n}, n \in strays' => t.at = "failed",
         box # {},
         UNCHANGED <<disk, saved, box, ordered, main, todo, limits>>,
         faults' \in 0 .. MaxFaults
  PROVE  RuntimeInv'
<1>0. TypeOK /\ FilesInPlace /\ ContainerInPlace /\ ThreadsInside /\ VerifiedIsSaved
  BY DEF RuntimeInv
<1>1. /\ thread'[n] = t /\ \A m \in Nonces \ {n} : thread'[m] = thread[m]
      /\ thread' \in [Nonces -> Thread]
  BY <1>0 DEF TypeOK
<1>2. TypeOK'
  BY <1>0, <1>1 DEF TypeOK, disk
<1>3. FilesInPlace'
  BY <1>0 DEF FilesInPlace, AllWhole, disk
<1>4. ContainerInPlace'
  BY <1>0, <1>1 DEF ContainerInPlace, TypeOK
<1>5. ThreadsInside'
  BY <1>0, <1>1 DEF ThreadsInside, Missing
<1>6. VerifiedIsSaved'
  BY <1>0 DEF VerifiedIsSaved, Missing
<1> QED
  BY <1>2, <1>3, <1>4, <1>5, <1>6 DEF RuntimeInv

LEMMA ThreadSteps ==
  ASSUME RuntimeInv, NEW n \in Nonces, ThreadStep(n) \/ ComputeFails(n)
  PROVE  RuntimeInv'
<1>0. TypeOK /\ ContainerInPlace /\ ThreadsInside
  BY DEF RuntimeInv
<1>t. thread[n] \in Thread
  BY <1>0 DEF TypeOK
<1>1. thread[n].at # "idle"
  BY DEF ThreadStep, RuntimeEnds, Verify, Read, ComputeFails
<1>2. main \in {"compute", "shutdown"} /\ n \in Missing /\ box # {}
  BY <1>0, <1>1 DEF ThreadsInside, ContainerInPlace
<1>3. n \in strays => thread[n].at = "failed"
  BY <1>0, <1>2 DEF ContainerInPlace
<1>4. CASE RuntimeEnds(n)
  <2>1. PICK leaf \in Leaves : results' = [results EXCEPT ![n] = leaf]
    BY <1>4 DEF RuntimeEnds
  <2>2. thread' = [thread EXCEPT ![n] = [thread[n] EXCEPT !.at = "verify"]]
    BY <1>0, <1>4 DEF RuntimeEnds, Now, TypeOK
  <2>3. [thread[n] EXCEPT !.at = "verify"].at = "verify"
    BY <1>t DEF Thread
  <2>4. /\ results' \in [Nonces -> Leaves \cup {None}] /\ results'[n] # None
        /\ \A m \in Nonces \ {n} : results'[m] = results[m]
    BY <1>0, <2>1, LeavesAssumption DEF TypeOK
  <2>5. UNCHANGED <<disk, saved, docker, main, todo, limits, faults>> /\ thread[n].at = "running"
    BY <1>4 DEF RuntimeEnds
  <2> QED
    BY <1>0, <1>t, <1>2, <1>3, <2>2, <2>3, <2>4, <2>5, ThreadEdits, OneThread DEF docker, TypeOK
<1>5. CASE Verify(n)
  <2> DEFINE t == [[thread[n] EXCEPT !.at = "read"] EXCEPT !.verified = results[n]]
  <2>1. thread' = [thread EXCEPT ![n] = t]
    BY <1>0, <1>5 DEF Verify, TypeOK
  <2>2. t \in Thread /\ t.at = "read" /\ t.verified = results[n] /\ results[n] # None
    <3>1. results[n] \in Leaves \cup {None} /\ results[n] # None
      BY <1>0, <1>5 DEF Verify, TypeOK, ThreadsInside
    <3>2. t \in Thread
      BY <1>t, <3>1, ThreadEdits
    <3>3. t.at = "read" /\ t.verified = results[n]
      BY <1>t DEF Thread
    <3> QED
      BY <3>1, <3>2, <3>3
  <2>3. UNCHANGED <<disk, results, saved, docker, main, todo, limits, faults>> /\ thread[n].at = "verify"
    BY <1>5 DEF Verify
  <2> HIDE DEF t
  <2> QED
    BY <1>0, <1>2, <1>3, <2>1, <2>2, <2>3, OneThread DEF docker, TypeOK
<1>6. CASE Read(n)
  <2> DEFINE t == [[thread[n] EXCEPT !.at = "done"] EXCEPT !.leaf = results[n]]
  <2>1. thread' = [thread EXCEPT ![n] = t]
    BY <1>0, <1>6 DEF Read, TypeOK
  <2>2. t \in Thread /\ t.at = "done" /\ t.leaf = t.verified /\ t.leaf # None
    <3>1. /\ results[n] \in Leaves \cup {None} /\ results[n] # None
          /\ thread[n].verified = results[n]
      BY <1>0, <1>6 DEF Read, TypeOK, ThreadsInside
    <3>2. t \in Thread
      BY <1>t, <3>1, ThreadEdits
    <3>3. t.at = "done" /\ t.leaf = results[n] /\ t.verified = thread[n].verified
      BY <1>t DEF Thread
    <3> QED
      BY <3>1, <3>2, <3>3
  <2>3. UNCHANGED <<disk, results, saved, docker, main, todo, limits, faults>> /\ thread[n].at = "read"
    BY <1>6 DEF Read
  <2> HIDE DEF t
  <2> QED
    BY <1>0, <1>2, <1>3, <2>1, <2>2, <2>3, OneThread DEF docker, TypeOK
<1>7. CASE ComputeFails(n)
  <2> DEFINE t == [thread[n] EXCEPT !.at = "failed"]
  <2>1. thread' = [thread EXCEPT ![n] = t]
    BY <1>0, <1>7 DEF ComputeFails, Now, TypeOK
  <2>2. t \in Thread /\ t.at = "failed"
    <3>1. t \in Thread
      BY <1>t, ThreadEdits
    <3>2. t.at = "failed"
      BY <1>t DEF Thread
    <3> QED
      BY <3>1, <3>2
  <2>3. /\ UNCHANGED <<disk, results, saved, box, ordered, main, todo, limits>>
        /\ strays' \in {strays, strays \cup {n}}
        /\ faults' \in 0 .. MaxFaults
    BY <1>0, <1>7, RuntimeFaultsAssumption DEF ComputeFails, Fault, TypeOK
  <2> HIDE DEF t
  <2> QED
    BY <1>0, <1>2, <1>3, <2>1, <2>2, <2>3, OneThread DEF TypeOK
<1> QED
  BY <1>4, <1>5, <1>6, <1>7 DEF ThreadStep

\* A process that was abandoned writes where no live computation looks: its nonce
\* failed in this step, or no step computes.
LEMMA StraySteps ==
  ASSUME RuntimeInv, NEW n \in Nonces, StrayWrites(n)
  PROVE  RuntimeInv'
<1>0. TypeOK /\ FilesInPlace /\ ContainerInPlace /\ ThreadsInside /\ VerifiedIsSaved
  BY DEF RuntimeInv
<1>1. thread[n].at \in {"idle", "failed"}
  BY <1>0 DEF StrayWrites, ContainerInPlace, ThreadsInside
<1>2. /\ results' \in [Nonces -> Leaves \cup {None}]
      /\ \A m \in Nonces \ {n} : results'[m] = results[m]
  BY <1>0 DEF StrayWrites, TypeOK
<1>3. strays' \subseteq strays
  BY DEF StrayWrites
<1>4. TypeOK'
  BY <1>0, <1>2, <1>3 DEF StrayWrites, TypeOK, disk
<1>5. FilesInPlace' /\ ContainerInPlace'
  BY <1>0, <1>3 DEF StrayWrites, FilesInPlace, AllWhole, ContainerInPlace, disk
<1>6. ThreadsInside'
  BY <1>0, <1>1, <1>2 DEF StrayWrites, ThreadsInside, Missing
<1>7. VerifiedIsSaved'
  BY <1>0 DEF StrayWrites, VerifiedIsSaved, Missing
<1> QED
  BY <1>4, <1>5, <1>6, <1>7 DEF RuntimeInv

-----------------------------------------------------------------------------
(* The executor's block, the release and the crash.                        *)

LEMMA SubmitSteps ==
  ASSUME RuntimeInv, NEW n \in Nonces, Submit(n)
  PROVE  RuntimeInv'
<1>0. TypeOK /\ ContainerInPlace
  BY DEF RuntimeInv
<1>1. box # {} /\ main = "compute" /\ n \in Missing /\ thread[n].at = "idle"
  BY <1>0 DEF Submit, ContainerInPlace
<1> DEFINE t == [thread[n] EXCEPT !.at = "running"]
<1>2. thread' = [thread EXCEPT ![n] = t]
  BY <1>0, <1>1 DEF Submit, Now, TypeOK
<1>3. t \in Thread /\ t.at = "running"
  <2>1. thread[n] \in Thread
    BY <1>0 DEF TypeOK
  <2>2. t \in Thread
    BY <2>1, ThreadEdits
  <2>3. t.at = "running"
    BY <2>1 DEF Thread
  <2> QED
    BY <2>2, <2>3
<1>4. UNCHANGED <<disk, results, saved, docker, main, todo, limits, faults>>
  BY DEF Submit
<1>5. n \notin strays
  BY <1>0, <1>1 DEF ContainerInPlace
<1> HIDE DEF t
<1> QED
  BY <1>0, <1>1, <1>2, <1>3, <1>4, <1>5, OneThread DEF docker, TypeOK

LEMMA SaveSteps ==
  ASSUME RuntimeInv, NEW n \in Nonces, Save(n)
  PROVE  RuntimeInv'
<1>0. TypeOK /\ FilesInPlace /\ ContainerInPlace /\ ThreadsInside /\ VerifiedIsSaved
  BY DEF RuntimeInv
<1>1. /\ thread[n].at = "done" /\ thread[n] \in Thread
      /\ thread[n].leaf = thread[n].verified /\ thread[n].leaf # None
  BY <1>0 DEF Save, Returned, TypeOK, ThreadsInside
<1> DEFINE output == [leaf |-> thread[n].leaf, verified |-> thread[n].verified]
<1>2. output \in [leaf : Leaves, verified : Leaves] /\ output.leaf = output.verified
  BY <1>1 DEF Thread
<1>3. saved' = [saved EXCEPT ![n] = output]
  BY DEF Save
<1>4. /\ saved' \in [Nonces -> [leaf : Leaves, verified : Leaves] \cup {None}]
      /\ saved'[n] = output /\ \A m \in Nonces \ {n} : saved'[m] = saved[m]
  BY <1>0, <1>2, <1>3 DEF TypeOK
<1> HIDE DEF output
<1>5. Idle \in Thread /\ Idle.at = "idle"
  BY DEF Idle, Thread
<1>6. /\ thread'[n] = Idle /\ \A m \in Nonces \ {n} : thread'[m] = thread[m]
      /\ thread' \in [Nonces -> Thread]
  BY <1>0, <1>5 DEF Save, TypeOK
<1>7. UNCHANGED <<cache, work, archived, results, box, ordered, strays, main, todo, limits, faults>>
  BY DEF Save, disk, docker
<1>8. n \notin strays
  BY <1>0, <1>1 DEF Save, ContainerInPlace
<1>9. TypeOK'
  BY <1>0, <1>4, <1>6, <1>7 DEF TypeOK
<1>10. FilesInPlace' /\ ContainerInPlace'
  BY <1>0, <1>6, <1>7, <1>8 DEF FilesInPlace, AllWhole, ContainerInPlace, TypeOK
<1>11. ThreadsInside'
  BY <1>0, <1>4, <1>5, <1>6, <1>7 DEF ThreadsInside, Missing
<1>12. VerifiedIsSaved'
  BY <1>0, <1>2, <1>4 DEF VerifiedIsSaved, Missing
<1> QED
  BY <1>9, <1>10, <1>11, <1>12 DEF RuntimeInv

LEMMA BlockEnds ==
  ASSUME RuntimeInv, NonceFailed \/ Shutdown
  PROVE  RuntimeInv'
<1>0. TypeOK /\ FilesInPlace /\ ContainerInPlace /\ ThreadsInside /\ VerifiedIsSaved
  BY DEF RuntimeInv
<1> USE DEF disk, docker
<1>1. CASE NonceFailed
  <2>1. TypeOK' /\ FilesInPlace' /\ ContainerInPlace'
    BY <1>0, <1>1 DEF NonceFailed, ThreadsStay, TypeOK, FilesInPlace, AllWhole, ContainerInPlace
  <2>2. ThreadsInside' /\ VerifiedIsSaved'
    BY <1>0, <1>1 DEF NonceFailed, ThreadsStay, ThreadsInside, VerifiedIsSaved, Missing
  <2> QED
    BY <2>1, <2>2 DEF RuntimeInv
<1>2. CASE Shutdown
  <2>1. Idle \in Thread /\ Idle.at = "idle"
    BY DEF Idle, Thread
  <2>2. thread' \in [Nonces -> Thread] /\ \A n \in Nonces : thread'[n].at = "idle"
    BY <1>0, <1>2, <2>1 DEF Shutdown, ThreadsEnded, TypeOK
  <2>3. TypeOK' /\ FilesInPlace' /\ ContainerInPlace'
    BY <1>0, <1>2, <2>2 DEF Shutdown, TypeOK, FilesInPlace, AllWhole, ContainerInPlace
  <2>4. ThreadsInside' /\ VerifiedIsSaved'
    BY <1>0, <1>2, <2>2 DEF Shutdown, ThreadsInside, VerifiedIsSaved, Missing
  <2> QED
    BY <2>3, <2>4 DEF RuntimeInv
<1> QED
  BY <1>1, <1>2

LEMMA ReleaseSteps == RuntimeInv /\ Release => RuntimeInv'
<1> SUFFICES ASSUME RuntimeInv, Release PROVE RuntimeInv'
  OBVIOUS
<1>0. TypeOK /\ FilesInPlace /\ ContainerInPlace /\ ThreadsInside /\ VerifiedIsSaved
  BY DEF RuntimeInv
<1>1. TypeOK' /\ FilesInPlace' /\ ContainerInPlace'
  BY <1>0 DEF Release, ThreadsStay, TypeOK, FilesInPlace, AllWhole, ContainerInPlace, disk
<1>2. ThreadsInside' /\ VerifiedIsSaved'
  BY <1>0 DEF Release, ThreadsStay, ThreadsInside, VerifiedIsSaved, Missing
<1> QED
  BY <1>1, <1>2 DEF RuntimeInv

LEMMA CrashSteps == RuntimeInv /\ Crash => RuntimeInv'
<1> SUFFICES ASSUME RuntimeInv, Crash PROVE RuntimeInv'
  OBVIOUS
<1>0. TypeOK /\ FilesInPlace /\ ContainerInPlace /\ ThreadsInside /\ VerifiedIsSaved
  BY DEF RuntimeInv
<1>1. Idle \in Thread /\ Idle.at = "idle"
  BY DEF Idle, Thread
<1>2. thread' \in [Nonces -> Thread] /\ \A n \in Nonces : thread'[n].at = "idle"
  BY <1>1 DEF Crash
<1>3. faults' \in 0 .. MaxFaults /\ limits' \in Limits
  BY <1>0, RuntimeFaultsAssumption DEF Crash, Fault, TypeOK
<1>4. ordered' \in {{}} \cup {{l} : l \in Limits}
  BY <1>0 DEF Crash, TypeOK
<1>5. strays' \subseteq Nonces /\ (box' = {} => strays' = {})
  <2>1. \A n \in Nonces : thread[n].at = "running" => box # {}
    BY <1>0 DEF ThreadsInside, ContainerInPlace
  <2> QED
    BY <1>0, <2>1 DEF Crash, TypeOK
<1>6. TypeOK'
  BY <1>0, <1>2, <1>3, <1>4, <1>5 DEF Crash, TypeOK, disk
<1>7. FilesInPlace' /\ ContainerInPlace'
  BY <1>0 DEF Crash, FilesInPlace, AllWhole, ContainerInPlace, disk
<1>8. ThreadsInside' /\ VerifiedIsSaved'
  BY <1>0, <1>2 DEF Crash, ThreadsInside, VerifiedIsSaved, Missing
<1> QED
  BY <1>6, <1>7, <1>8 DEF RuntimeInv

LEMMA RuntimeStutter == RuntimeInv /\ UNCHANGED vars => RuntimeInv'
  BY DEF vars, disk, docker, RuntimeInv, TypeOK, FilesInPlace, AllWhole, ContainerInPlace,
     ThreadsInside, VerifiedIsSaved, Missing

LEMMA RuntimeNext == RuntimeInv /\ [Next]_vars => RuntimeInv'
  BY FileSteps, ContainerSteps, LateContainer, ThreadSteps, StraySteps, SubmitSteps, SaveSteps,
     BlockEnds, ReleaseSteps, CrashSteps, RuntimeStutter DEF Next, MainStep, Finished

-----------------------------------------------------------------------------
(* The theorems.                                                           *)

\* The files, the container, its processes and the threads fit together in every
\* state, through interrupted copies, late containers, timeouts and crashes
\* (runtime.py:99-232).
THEOREM RuntimeAlways == Spec => []RuntimeInv
  BY RuntimeInit, RuntimeNext, PTL DEF Spec

\* What is saved of a nonce is the content the verifier saw, whatever processes
\* earlier attempts left in the container (runtime.py:163-168, 193-203).
THEOREM SavedIsVerified == Spec => []VerifiedIsSaved
<1>1. RuntimeInv => VerifiedIsSaved
  BY DEF RuntimeInv
<1> QED
  BY <1>1, RuntimeAlways, PTL

\* No computation loads a half-written or missing file of the archive
\* (runtime.py:107-156).
THEOREM LibraryIsWhole == Spec => []WholeLibrary
<1>1. RuntimeInv => WholeLibrary
  BY DEF RuntimeInv, WholeLibrary, Computing, ThreadsInside, FilesInPlace, AllWhole
<1> QED
  BY <1>1, RuntimeAlways, PTL

\* No computation runs in a container with other limits than the configured ones
\* (runtime.py:166-190).
THEOREM LimitsAlwaysHold == Spec => []LimitsHold
<1>1. RuntimeInv => LimitsHold
  BY DEF RuntimeInv, LimitsHold, Computing, ThreadsInside, ContainerInPlace
<1> QED
  BY <1>1, RuntimeAlways, PTL
=============================================================================
