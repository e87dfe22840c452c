---------------------------- MODULE WorkerProofs ----------------------------
(***************************************************************************)
(* Theorems about module Worker for every value of its constants: any      *)
(* number of requests, benchmarks, nonces, workers and faults.             *)
(***************************************************************************)
EXTENDS WorkerProperties, TLAPS

-----------------------------------------------------------------------------
(* Rows: what an UPDATE of one column leaves behind is still a row.        *)

LEMMA AssignmentEdits ==
  ASSUME NEW row \in AssignmentRow
  PROVE  /\ \A p \in Payloads : [row EXCEPT !.payload = p] \in AssignmentRow
         /\ [row EXCEPT !.acknowledged = TRUE] \in AssignmentRow
         /\ [row EXCEPT !.resultSent = TRUE] \in AssignmentRow
         /\ \A S \in SUBSET Nonces : [row EXCEPT !.proofsSent = S] \in AssignmentRow
         /\ \A s \in TERMINAL : [row EXCEPT !.terminal = s] \in AssignmentRow
  BY DEF AssignmentRow

LEMMA BenchmarkEdits ==
  ASSUME NEW row \in PoolBenchmark
  PROVE  /\ \A s \in {"free", "accepted"} \cup TERMINAL : [row EXCEPT !.state = s] \in PoolBenchmark
         /\ \A p \in Payloads : [row EXCEPT !.payload = p] \in PoolBenchmark
         /\ \A p \in Payloads : [row EXCEPT !.handed = p] \in PoolBenchmark
         /\ \A r \in [Nonces -> Leaves \cup {None}] : [row EXCEPT !.result = r] \in PoolBenchmark
         /\ \A S \in SUBSET Nonces : [row EXCEPT !.sample = S] \in PoolBenchmark
         /\ \A r \in [Nonces -> Leaves \cup {None}] : [row EXCEPT !.proofs = r] \in PoolBenchmark
  BY DEF PoolBenchmark

\* The columns such an edit keeps.
LEMMA BenchmarkColumns ==
  ASSUME NEW row \in PoolBenchmark
  PROVE  /\ \A s : /\ [row EXCEPT !.state = s].handed = row.handed
                   /\ [row EXCEPT !.state = s].payload = row.payload
         /\ \A S : /\ [row EXCEPT !.sample = S].handed = row.handed
                   /\ [row EXCEPT !.sample = S].payload = row.payload
         /\ \A r : /\ [row EXCEPT !.result = r].handed = row.handed
                   /\ [row EXCEPT !.result = r].payload = row.payload
         /\ \A r : /\ [row EXCEPT !.proofs = r].handed = row.handed
                   /\ [row EXCEPT !.proofs = r].payload = row.payload
         /\ \A p : [row EXCEPT !.payload = p].handed = row.handed
         /\ \A p : /\ [row EXCEPT !.handed = p].handed = p
                   /\ [row EXCEPT !.handed = p].payload = row.payload
  BY DEF PoolBenchmark

LEMMA RequestEdits ==
  ASSUME NEW row \in PoolRequest
  PROVE  /\ \A s \in {"queued"} \cup TERMINAL : [row EXCEPT !.state = s] \in PoolRequest
         /\ \A f \in BOOLEAN : [row EXCEPT !.fresh = f] \in PoolRequest
         /\ [[row EXCEPT !.state = "queued"] EXCEPT !.fresh = TRUE] \in PoolRequest
         /\ \A b \in Benchmarks : [state |-> "assigned", bench |-> b, fresh |-> FALSE] \in PoolRequest
  BY DEF PoolRequest

LEMMA RowEdits ==
  ASSUME NEW row \in RequestRow
  PROVE  /\ \A s \in {"open", "finished"} : [row EXCEPT !.state = s] \in RequestRow
         /\ \A b \in Benchmarks \cup {None} :
              /\ [row EXCEPT !.bench = b] \in RequestRow
              /\ [row EXCEPT !.linked = TRUE, !.bench = b] \in RequestRow
  BY DEF RequestRow

-----------------------------------------------------------------------------
(* Type correctness, one part of the state at a time.                      *)

LEMMA BlankType == Blank \in [Nonces -> Leaves \cup {None}]
  BY DEF Blank

LEMMA TypeInit == Init => TypeOK
<1> SUFFICES ASSUME Init PROVE TypeOK
  OBVIOUS
<1>1. StoreTypeOK
  <2>1. NoRow \in AssignmentRow
    BY DEF AssignmentRow, NoRow
  <2> QED
    BY <2>1, BlankType DEF Init, StoreInit, StoreTypeOK
<1>2. PoolTypeOK
  <2>1. \A p \in Payloads :
          [state |-> "free", payload |-> p, handed |-> None,
           result |-> Blank, sample |-> {}, proofs |-> Blank] \in PoolBenchmark
    BY BlankType DEF PoolBenchmark
  <2>2. [state |-> "unknown", bench |-> None, fresh |-> FALSE] \in PoolRequest
    BY DEF PoolRequest
  <2> QED
    BY <2>1, <2>2 DEF Init, PoolInit, PoolTypeOK
<1>3. MemberTypeOK
  BY DEF Init, MemberTypeOK, RequestRow
<1>4. ProcessTypeOK
  BY MaxFaultsAssumption DEF Init, ProcessTypeOK, Control, StepLocals, NoStep
<1>5. ComputationTypeOK
  BY DEF Init, ComputationTypeOK, NoFutures
<1> QED
  BY <1>1, <1>2, <1>3, <1>4, <1>5 DEF TypeOK

LEMMA TypePool == PoolTypeOK /\ PoolStep => PoolTypeOK'
<1> SUFFICES ASSUME PoolTypeOK, PoolStep PROVE PoolTypeOK'
  OBVIOUS
<1> USE DEF PoolTypeOK
<1>1. ASSUME NEW k \in Keys, NEW b \in Benchmarks, Assign(k, b) PROVE PoolTypeOK'
  BY <1>1, RequestEdits, BenchmarkEdits DEF Assign
<1>2. ASSUME NEW k \in Keys, Age(k) \/ Expire(k) \/ CloseAssigned(k) PROVE PoolTypeOK'
  <2>1. "expired" \in TERMINAL
    BY DEF TERMINAL
  <2>2. CASE Age(k)
    BY <2>2, RequestEdits DEF Age
  <2>3. CASE Expire(k)
    BY <2>1, <2>3, RequestEdits DEF Expire
  <2>4. CASE CloseAssigned(k)
    BY <2>1, <2>4, RequestEdits DEF CloseAssigned
  <2> QED
    BY <1>2, <2>2, <2>3, <2>4
<1>3. ASSUME NEW b \in Benchmarks, NEW p \in Payloads, Reissue(b, p) PROVE PoolTypeOK'
  BY <1>3, BenchmarkEdits DEF Reissue
<1>4. ASSUME NEW b \in Benchmarks, NEW sampled \in SUBSET Nonces, Sample(b, sampled)
      PROVE  PoolTypeOK'
  BY <1>4, BenchmarkEdits DEF Sample
<1>5. ASSUME NEW b \in Benchmarks, NEW outcome \in Outcomes, Conclude(b, outcome)
      PROVE  PoolTypeOK'
  BY <1>5, BenchmarkEdits, OutcomesAssumption DEF Conclude
<1>6. ASSUME ToggleEnabled PROVE PoolTypeOK'
  BY <1>6 DEF ToggleEnabled
<1>7. ASSUME NEW r \in Releases, ChangeRelease(r) PROVE PoolTypeOK'
  BY <1>7 DEF ChangeRelease
<1> QED
  BY <1>1, <1>2, <1>3, <1>4, <1>5, <1>6, <1>7 DEF PoolStep

\* The transactions of the store.
LEMMA StoreCalls ==
  ASSUME StoreTypeOK, NEW b \in Benchmarks
  PROVE  /\ UNCHANGED evidenceVars => StoreTypeOK'
         /\ UNCHANGED assignments /\ UNCHANGED nonces => StoreTypeOK'
         /\ \A p \in Payloads : SaveAssignment(b, p) /\ UNCHANGED nonces => StoreTypeOK'
         /\ Acknowledge(b) /\ UNCHANGED nonces => StoreTypeOK'
         /\ \A n \in Nonces, leaf \in Leaves :
              SaveNonce(b, n, leaf) /\ UNCHANGED assignments => StoreTypeOK'
         /\ MarkResultSent(b) /\ UNCHANGED nonces => StoreTypeOK'
         /\ \A S \in SUBSET Nonces : MarkProofsSent(b, S) /\ UNCHANGED nonces => StoreTypeOK'
<1> USE DEF StoreTypeOK
<1>1. UNCHANGED <<assignments, nonces>> => StoreTypeOK'
  OBVIOUS
<1>2. ASSUME NEW p \in Payloads, SaveAssignment(b, p), UNCHANGED nonces PROVE StoreTypeOK'
  BY <1>2, AssignmentEdits DEF SaveAssignment
<1>3. ASSUME Acknowledge(b), UNCHANGED nonces PROVE StoreTypeOK'
  BY <1>3, AssignmentEdits DEF Acknowledge
<1>4. ASSUME NEW n \in Nonces, NEW leaf \in Leaves, SaveNonce(b, n, leaf), UNCHANGED assignments
      PROVE  StoreTypeOK'
  BY <1>4 DEF SaveNonce
<1>5. ASSUME MarkResultSent(b), UNCHANGED nonces PROVE StoreTypeOK'
  BY <1>5, AssignmentEdits DEF MarkResultSent
<1>6. ASSUME NEW S \in SUBSET Nonces, MarkProofsSent(b, S), UNCHANGED nonces PROVE StoreTypeOK'
  BY <1>6, AssignmentEdits DEF MarkProofsSent
<1> QED
  BY <1>1, <1>2, <1>3, <1>4, <1>5, <1>6 DEF evidenceVars

\* The calls of the worker at the pool.
LEMMA TypeCalls ==
  ASSUME PoolTypeOK
  PROVE  /\ \A k \in Keys : Receive(k) \/ Refresh(k) => PoolTypeOK'
         /\ \A b \in Benchmarks : HandOver(b) => PoolTypeOK'
         /\ \A b \in Benchmarks, r \in [Nonces -> Leaves \cup {None}] :
                StoreResult(b, r) \/ StoreProofs(b, r) => PoolTypeOK'
<1> USE DEF PoolTypeOK
<1>1. ASSUME NEW k \in Keys, Receive(k) PROVE PoolTypeOK'
  BY <1>1, RequestEdits DEF Receive
<1>2. ASSUME NEW k \in Keys, Refresh(k) PROVE PoolTypeOK'
  BY <1>2, RequestEdits DEF Refresh
<1>3. ASSUME NEW b \in Benchmarks, HandOver(b) PROVE PoolTypeOK'
  <2>1. HandedAfter(b) \in Payloads
    BY DEF HandedAfter, PoolBenchmark
  <2> QED
    BY <1>3, <2>1, BenchmarkEdits DEF HandOver
<1>4. ASSUME NEW b \in Benchmarks, NEW r \in [Nonces -> Leaves \cup {None}],
             StoreResult(b, r)
      PROVE  PoolTypeOK'
  BY <1>4, BenchmarkEdits DEF StoreResult
<1>5. ASSUME NEW b \in Benchmarks, NEW r \in [Nonces -> Leaves \cup {None}],
             StoreProofs(b, r)
      PROVE  PoolTypeOK'
  BY <1>5, BenchmarkEdits DEF StoreProofs
<1> QED
  BY <1>1, <1>2, <1>3, <1>4, <1>5

-----------------------------------------------------------------------------
(* Frames: which actions change a part of the state at all.                *)

LEMMA EvidenceFrame ==
  Next => \/ UNCHANGED evidenceVars
          \/ BenchmarkOffered \/ AcknowledgeHandover \/ RecoverHandover
          \/ SaveReady \/ Deliver \/ PostProofs \/ Finish
  BY DEF Next, RunnerStep, StepIdle, StepNew, StepUnlinked, StepLinked,
         OfferWork, CheckBeforePost, ReleaseRefused, PostRequest,
         RequestClosed, RequestQueued, RefreshRequest, RequestAssigned,
         BenchmarkGone, AssignmentChanged, Prepare, Submit, Wait, NonceFailed,
         Shutdown, DeliveredGone, AwaitVerification, ReleaseContainer,
         CallFails, Crash, Launch, RequestDrain, Enter, KeepDurable, durable,
         KeepComputation, KeepEvidence, computation, evidenceVars, poolVars,
         NonceDone, NonceFails, CreatedLate, PoolActs

LEMMA PoolFrame ==
  Next => \/ UNCHANGED poolVars
          \/ PostRequest \/ RefreshRequest \/ AcknowledgeHandover \/ Deliver
          \/ PostProofs \/ PoolActs
  BY DEF Next, RunnerStep, StepIdle, StepNew, StepUnlinked, StepLinked,
         OfferWork, CheckBeforePost, ReleaseRefused, RequestClosed,
         RequestQueued, RequestAssigned, BenchmarkGone, BenchmarkOffered,
         AssignmentChanged, RecoverHandover, Prepare, Submit, Wait, SaveReady,
         NonceFailed, Shutdown, DeliveredGone, AwaitVerification,
         ReleaseContainer, Finish, CallFails, Crash, Launch, RequestDrain,
         Enter, KeepDurable, durable, KeepComputation, KeepEvidence,
         computation, evidenceVars, poolVars, NonceDone, NonceFails, CreatedLate

LEMMA MemberFrame ==
  Next => \/ UNCHANGED <<requests, docker, drainFile, drainFlag>>
          \/ OfferWork \/ PostRequest \/ RequestAssigned \/ Prepare
          \/ ReleaseContainer \/ Finish \/ Crash \/ Launch \/ RequestDrain
          \/ CreatedLate
  BY DEF Next, RunnerStep, StepIdle, StepNew, StepUnlinked, StepLinked,
         CheckBeforePost, ReleaseRefused, RequestClosed, RequestQueued,
         RefreshRequest, BenchmarkGone, BenchmarkOffered, AssignmentChanged,
         AcknowledgeHandover, RecoverHandover, Submit, Wait, SaveReady,
         NonceFailed, Shutdown, Deliver, DeliveredGone, AwaitVerification,
         PostProofs, CallFails, Enter, KeepDurable, durable, KeepComputation,
         KeepEvidence, docker, computation, evidenceVars, poolVars, NonceDone,
         NonceFails, PoolActs

LEMMA ComputationFrame ==
  Next => \/ UNCHANGED computation /\ (pc' = pc \/ {pc, pc'} \cap ComputePoints = {})
          \/ Prepare \/ Submit \/ Wait \/ SaveReady \/ NonceFailed \/ Shutdown
          \/ Crash \/ (\E n \in Nonces : NonceDone(n) \/ NonceFails(n))
  BY DEF Next, RunnerStep, StepIdle, StepNew, StepUnlinked, StepLinked,
         OfferWork, CheckBeforePost, ReleaseRefused, PostRequest,
         RequestClosed, RequestQueued, RefreshRequest, RequestAssigned,
         BenchmarkGone, BenchmarkOffered, AssignmentChanged,
         AcknowledgeHandover, RecoverHandover, Deliver, DeliveredGone,
         AwaitVerification, PostProofs, ReleaseContainer, Finish, CallFails,
         Launch, RequestDrain, Enter, KeepDurable, durable, KeepComputation,
         KeepEvidence, computation, evidenceVars, poolVars, CreatedLate, PoolActs,
         ComputePoints, Goto, Raise, RaiseNow, Return, ReturnNow, ReplyLost,
         CallPoints, AfterHandover, AfterEvidence

-----------------------------------------------------------------------------
(* No action breaks HandoverInv.                                           *)

LEMMA HandoverInit == Init => HandoverInv
<1> SUFFICES ASSUME Init PROVE HandoverInv
  OBVIOUS
<1>1. TypeOK
  BY TypeInit
<1>2. Located /\ FuturesInside
  BY DEF Init, Located, FuturesInside, RowPoints, BenchPoints, OwnedPoints, ComputePoints
<1>7. Leaving
  BY DEF Init, Leaving
<1>3. PayloadFixed
  BY DEF Init, PoolInit, PayloadFixed
<1>4. OwnedIsHanded
  BY DEF Init, StoreInit, NoRow, OwnedIsHanded, Owned
<1>5. EvidenceIsOwned
  BY DEF Init, StoreInit, Blank, EvidenceIsOwned, HasEvidence
<1>6. StepIsOwned
  BY DEF Init, StepIsOwned, OwnedPoints, ComputePoints
<1> QED
  BY <1>1, <1>2, <1>3, <1>4, <1>5, <1>6, <1>7 DEF HandoverInv

LEMMA StoreNext == HandoverInv /\ Next => StoreTypeOK'
<1> SUFFICES ASSUME StoreTypeOK, PoolTypeOK, MemberTypeOK, ComputationTypeOK,
                    Located, Leaving, Next
             PROVE  StoreTypeOK'
  BY DEF HandoverInv, TypeOK
<1>0. pc \in BenchPoints => step.bench \in Benchmarks
  BY DEF Located
<1> USE <1>0 DEF BenchPoints, OwnedPoints, ComputePoints
<1>1. ASSUME BenchmarkOffered PROVE StoreTypeOK'
  <2>1. poolBenchmarks[step.bench].payload \in Payloads
    BY <1>1 DEF BenchmarkOffered, PoolTypeOK, PoolBenchmark
  <2> QED
    BY <1>1, <2>1, StoreCalls DEF BenchmarkOffered
<1>2. ASSUME AcknowledgeHandover \/ RecoverHandover PROVE StoreTypeOK'
  BY <1>2, StoreCalls DEF AcknowledgeHandover, RecoverHandover
<1>3. ASSUME SaveReady PROVE StoreTypeOK'
  <2>1. PICK n \in Nonces : futures[n] \in Leaves /\ SaveNonce(step.bench, n, futures[n])
    BY <1>3 DEF SaveReady, ComputationTypeOK
  <2> QED
    BY <1>3, <2>1, StoreCalls DEF SaveReady
<1>4. ASSUME Deliver PROVE StoreTypeOK'
  BY <1>4, StoreCalls DEF Deliver
<1>5. ASSUME PostProofs PROVE StoreTypeOK'
  <2>1. Sampled(step.bench) \in SUBSET Nonces
    BY <1>5 DEF PostProofs, Sampled, PoolTypeOK, PoolBenchmark
  <2> QED
    BY <1>5, <2>1, StoreCalls DEF PostProofs
<1>6. ASSUME Finish PROVE StoreTypeOK'
  <2>1. Outcome \in TERMINAL
    BY <1>6 DEF Finish, Leaving
  <2> QED
    BY <1>6, <2>1, AssignmentEdits DEF Finish, StoreTypeOK
<1> QED
  BY <1>1, <1>2, <1>3, <1>4, <1>5, <1>6, EvidenceFrame DEF evidenceVars, StoreTypeOK

LEMMA PoolNext == HandoverInv /\ Next => PoolTypeOK'
<1> SUFFICES ASSUME StoreTypeOK, PoolTypeOK, MemberTypeOK, ComputationTypeOK,
                    Located, Leaving, Next
             PROVE  PoolTypeOK'
  BY DEF HandoverInv, TypeOK
<1> USE DEF Located
<1>1. ASSUME PostRequest \/ RefreshRequest PROVE PoolTypeOK'
  <2>1. step.key \in Keys
    BY <1>1 DEF PostRequest, RefreshRequest, RowPoints, Control
  <2> QED
    BY <1>1, <2>1, TypeCalls DEF PostRequest, RefreshRequest
<1>2. ASSUME AcknowledgeHandover PROVE PoolTypeOK'
  BY <1>2, TypeCalls DEF AcknowledgeHandover, BenchPoints
<1>3. ASSUME Deliver PROVE PoolTypeOK'
  BY <1>3, TypeCalls DEF Deliver, BenchPoints, OwnedPoints, StoreTypeOK
<1>4. ASSUME PostProofs PROVE PoolTypeOK'
  <2>1. step.bench \in Benchmarks
    BY <1>4 DEF PostProofs, BenchPoints, OwnedPoints
  <2>2. SampledOpening(step.bench) \in [Nonces -> Leaves \cup {None}]
    BY <2>1 DEF SampledOpening, Opening, StoreTypeOK
  <2> QED
    BY <1>4, <2>1, <2>2, TypeCalls DEF PostProofs
<1>5. ASSUME PoolActs PROVE PoolTypeOK'
  BY <1>5, TypePool DEF PoolActs
<1> QED
  BY <1>1, <1>2, <1>3, <1>4, <1>5, PoolFrame DEF poolVars, PoolTypeOK

\* What Docker does with the container of one benchmark.
LEMMA DockerNext ==
  ASSUME MemberTypeOK, NEW b \in Benchmarks, UNCHANGED <<requests, drainFile, drainFlag>>,
         Stands(b) \/ IsRemoved(b) \/ IsOrdered(b) \/ Appears(b) \/ IsNotSeen(b)
  PROVE  MemberTypeOK'
  BY DEF MemberTypeOK, Stands, IsRemoved, IsOrdered, Appears, IsNotSeen

LEMMA MemberNext == HandoverInv /\ Next => MemberTypeOK'
<1> SUFFICES ASSUME StoreTypeOK, PoolTypeOK, MemberTypeOK, ComputationTypeOK,
                    Located, Leaving, Next
             PROVE  MemberTypeOK'
  BY DEF HandoverInv, TypeOK
<1> USE DEF MemberTypeOK, KeepEvidence, KeepComputation, docker
<1>1. ASSUME OfferWork PROVE MemberTypeOK'
  <2>1. PICK k \in Keys : requests' = [requests EXCEPT ![k].state = "open"]
    BY <1>1 DEF OfferWork
  <2>2. requests' \in [Keys -> RequestRow]
    BY <2>1, RowEdits
  <2> QED
    BY <1>1, <2>2 DEF OfferWork
<1>2. ASSUME PostRequest PROVE MemberTypeOK'
  <2>1. step.key \in Keys /\ poolRequests[step.key].bench \in Benchmarks \cup {None}
    BY <1>2 DEF PostRequest, Located, RowPoints, Control, PoolTypeOK, PoolRequest
  <2>2. CASE UNCHANGED requests
    BY <1>2, <2>2 DEF PostRequest
  <2>3. CASE requests' = [requests EXCEPT ![step.key] =
                 [@ EXCEPT !.linked = TRUE, !.bench = poolRequests[step.key].bench]]
    <3>1. [requests[step.key] EXCEPT !.linked = TRUE, !.bench = poolRequests[step.key].bench]
            \in RequestRow
      <4>1. requests[step.key] \in RequestRow
        BY <2>1
      <4> QED
        BY <2>1, <4>1, RowEdits
    <3>2. requests' \in [Keys -> RequestRow]
      BY <2>3, <3>1
    <3> QED
      BY <1>2, <3>2 DEF PostRequest
  <2> QED
    BY <1>2, <2>2, <2>3 DEF PostRequest
<1>3. ASSUME RequestAssigned PROVE MemberTypeOK'
  <2>1. step.key \in Keys /\ poolRequests[step.key].bench \in Benchmarks
    BY <1>3 DEF RequestAssigned, Located, RowPoints, Control, PoolTypeOK, PoolRequest
  <2> QED
    BY <1>3, <2>1, RowEdits DEF RequestAssigned
<1>4. ASSUME Prepare \/ ReleaseContainer PROVE MemberTypeOK'
  <2>1. step.bench \in Benchmarks
    BY <1>4 DEF Prepare, ReleaseContainer, Located, BenchPoints, OwnedPoints
  <2>2. UNCHANGED <<requests, drainFile, drainFlag>>
    BY <1>4 DEF Prepare, ReleaseContainer
  <2>3. \/ Stands(step.bench) \/ IsRemoved(step.bench) \/ IsOrdered(step.bench)
        \/ Appears(step.bench) \/ IsNotSeen(step.bench)
    BY <1>4 DEF Prepare, ReleaseContainer
  <2> QED
    BY <2>1, <2>2, <2>3, DockerNext
<1>5. ASSUME CreatedLate PROVE MemberTypeOK'
  BY <1>5, DockerNext DEF CreatedLate
<1>6. ASSUME Finish PROVE MemberTypeOK'
  BY <1>6, RowEdits DEF Finish
<1>7. ASSUME Crash \/ Launch \/ RequestDrain PROVE MemberTypeOK'
  BY <1>7 DEF Crash, Launch, RequestDrain, KeepDurable, durable
<1>8. ASSUME UNCHANGED <<requests, docker, drainFile, drainFlag>> PROVE MemberTypeOK'
  BY <1>8
<1> QED
  BY <1>1, <1>2, <1>3, <1>4, <1>5, <1>6, <1>7, <1>8, MemberFrame

LEMMA ComputationNext == HandoverInv /\ Next => ComputationTypeOK'
<1> SUFFICES ASSUME StoreTypeOK, PoolTypeOK, MemberTypeOK, ComputationTypeOK,
                    Located, Leaving, Next
             PROVE  ComputationTypeOK'
  BY DEF HandoverInv, TypeOK
<1> USE DEF ComputationTypeOK
<1>1. ASSUME Prepare PROVE ComputationTypeOK'
  BY <1>1 DEF Prepare, Missing
<1>2. ASSUME Submit PROVE ComputationTypeOK'
  BY <1>2 DEF Submit
<1>3. ASSUME Wait PROVE ComputationTypeOK'
  BY <1>3 DEF Wait
<1>4. ASSUME SaveReady PROVE ComputationTypeOK'
  BY <1>4 DEF SaveReady
<1>5. ASSUME NonceFailed PROVE ComputationTypeOK'
  BY <1>5 DEF NonceFailed
<1>6. ASSUME Shutdown \/ Crash PROVE ComputationTypeOK'
  BY <1>6 DEF Shutdown, Crash, NoFutures
<1>7. ASSUME NEW n \in Nonces, NonceDone(n) \/ NonceFails(n) PROVE ComputationTypeOK'
  BY <1>7 DEF NonceDone, NonceFails
<1> QED
  BY <1>1, <1>2, <1>3, <1>4, <1>5, <1>6, <1>7, ComputationFrame DEF computation

\* The ways a step moves on or ends keep the locals bound.
LEMMA Moves ==
  ASSUME ProcessTypeOK, Located
  PROVE  /\ RaiseNow \/ ReplyLost \/ ReturnNow => ProcessTypeOK' /\ Located'
         /\ \A next \in RowPoints \ BenchPoints :
              pc \in RowPoints /\ Goto(next) => ProcessTypeOK' /\ Located'
         /\ \A next \in BenchPoints :
              pc \in BenchPoints /\ Goto(next) => ProcessTypeOK' /\ Located'
         /\ UNCHANGED <<pc, step>> /\ faults' \in 0 .. MaxFaults => ProcessTypeOK' /\ Located'
<1>0. NoStep \in StepLocals
  BY DEF NoStep, StepLocals
<1>1. BenchPoints \subseteq RowPoints /\ RowPoints \subseteq Control
  BY DEF RowPoints, BenchPoints, OwnedPoints, ComputePoints, Control
<1>2. ASSUME pc' \in {"sleep", "exited"}, step' = NoStep, faults' \in 0 .. MaxFaults
      PROVE  ProcessTypeOK' /\ Located'
  BY <1>0, <1>2 DEF ProcessTypeOK, Located, RowPoints, BenchPoints, OwnedPoints, ComputePoints, Control
<1>3. RaiseNow \/ ReturnNow => ProcessTypeOK' /\ Located'
  BY <1>2 DEF RaiseNow, Raise, ReturnNow, Return, ProcessTypeOK
<1>4. ReplyLost => ProcessTypeOK' /\ Located'
  <2>1. faults \in 0 .. MaxFaults /\ faults < MaxFaults => faults + 1 \in 0 .. MaxFaults
    BY MaxFaultsAssumption
  <2> QED
    BY <1>2, <2>1 DEF ReplyLost, Fault, Raise, ProcessTypeOK
<1>5. ASSUME NEW next \in RowPoints \ BenchPoints, pc \in RowPoints, Goto(next)
      PROVE  ProcessTypeOK' /\ Located'
  BY <1>1, <1>5 DEF ProcessTypeOK, Located, Goto
<1>6. ASSUME NEW next \in BenchPoints, pc \in BenchPoints, Goto(next)
      PROVE  ProcessTypeOK' /\ Located'
  BY <1>1, <1>6 DEF ProcessTypeOK, Located, Goto
<1>7. ASSUME UNCHANGED <<pc, step>>, faults' \in 0 .. MaxFaults PROVE ProcessTypeOK' /\ Located'
  BY <1>7 DEF ProcessTypeOK, Located
<1> QED
  BY <1>3, <1>4, <1>5, <1>6, <1>7

\* Where the process is and what its locals are bound to.
LEMMA ProcessNext == HandoverInv /\ Next => ProcessTypeOK' /\ Located'
<1> SUFFICES ASSUME PoolTypeOK, MemberTypeOK, ProcessTypeOK, Located, Next
             PROVE  ProcessTypeOK' /\ Located'
  BY DEF HandoverInv, TypeOK
<1> USE DEF RowPoints, BenchPoints, OwnedPoints, ComputePoints, Control
<1>0. \A b : AfterHandover(b) \in BenchPoints /\ AfterEvidence(b) \in BenchPoints
  BY DEF AfterHandover, AfterEvidence
<1>f. Fault => faults' \in 0 .. MaxFaults
  BY MaxFaultsAssumption DEF Fault, ProcessTypeOK
<1>1. ASSUME StepIdle PROVE ProcessTypeOK' /\ Located'
  BY <1>1 DEF StepIdle, ProcessTypeOK, Located
<1>2. ASSUME StepNew \/ StepUnlinked \/ StepLinked PROVE ProcessTypeOK' /\ Located'
  <2>1. PICK k \in Keys \cup {0}, next \in {"check_new", "check_post", "get_request"} :
          Enter(k, next) /\ (next # "check_new" => k \in Keys)
    BY <1>2 DEF StepNew, StepUnlinked, StepLinked, Unfinished
  <2>2. step' \in StepLocals /\ step'.key = k
    BY <2>1 DEF Enter, StepLocals, Draining, PoolTypeOK, MemberTypeOK
  <2>3. pc' = next /\ faults' = faults
    BY <2>1 DEF Enter
  <2> QED
    BY <2>1, <2>2, <2>3 DEF ProcessTypeOK, Located
<1>3. ASSUME OfferWork PROVE ProcessTypeOK' /\ Located'
  <2>1. PICK k \in Keys : step' = [step EXCEPT !.key = k]
    BY <1>3 DEF OfferWork
  <2>2. step' \in StepLocals /\ step'.key = k
    BY <2>1 DEF ProcessTypeOK, StepLocals
  <2> QED
    BY <1>3, <2>2 DEF OfferWork, ProcessTypeOK, Located
<1>4. ASSUME CheckBeforePost \/ ReleaseRefused \/ PostRequest PROVE ProcessTypeOK' /\ Located'
  BY <1>4, Moves DEF CheckBeforePost, ReleaseRefused, PostRequest
<1>5. ASSUME RequestClosed \/ RequestQueued \/ RefreshRequest PROVE ProcessTypeOK' /\ Located'
  BY <1>5, Moves DEF RequestClosed, RequestQueued, RefreshRequest
<1>6. ASSUME RequestAssigned PROVE ProcessTypeOK' /\ Located'
  <2>1. step.key \in Keys /\ poolRequests[step.key].bench \in Benchmarks
    BY <1>6 DEF RequestAssigned, Located, PoolTypeOK, PoolRequest
  <2>2. step' = [step EXCEPT !.bench = poolRequests[step.key].bench]
    BY <1>6 DEF RequestAssigned
  <2>3. step' \in StepLocals /\ step'.key \in Keys /\ step'.bench \in Benchmarks
    BY <2>1, <2>2 DEF ProcessTypeOK, StepLocals
  <2> QED
    BY <1>6, <2>3 DEF RequestAssigned, ProcessTypeOK, Located
<1>7. ASSUME BenchmarkGone \/ BenchmarkOffered \/ AssignmentChanged
      PROVE  ProcessTypeOK' /\ Located'
  BY <1>0, <1>7, Moves DEF BenchmarkGone, BenchmarkOffered, AssignmentChanged
<1>8. ASSUME AcknowledgeHandover \/ RecoverHandover PROVE ProcessTypeOK' /\ Located'
  BY <1>0, <1>8, Moves DEF AcknowledgeHandover, RecoverHandover
<1>9. ASSUME Prepare \/ Submit \/ Wait PROVE ProcessTypeOK' /\ Located'
  BY <1>0, <1>9, Moves DEF Prepare, Submit, Wait
<1>10. ASSUME SaveReady \/ NonceFailed \/ Shutdown PROVE ProcessTypeOK' /\ Located'
  BY <1>10, Moves DEF SaveReady, NonceFailed, Shutdown
<1>11. ASSUME Deliver \/ DeliveredGone \/ AwaitVerification \/ PostProofs
       PROVE  ProcessTypeOK' /\ Located'
  BY <1>11, Moves DEF Deliver, DeliveredGone, AwaitVerification, PostProofs
<1>12. ASSUME ReleaseContainer \/ Finish PROVE ProcessTypeOK' /\ Located'
  <2>1. CASE Fault /\ pc = "release" /\ pc' = "finish" /\ UNCHANGED step
    BY <1>f, <2>1 DEF ProcessTypeOK, Located
  <2> QED
    BY <1>12, <2>1, Moves DEF ReleaseContainer, Finish
<1>13. ASSUME CallFails PROVE ProcessTypeOK' /\ Located'
  BY <1>13, Moves DEF CallFails
<1>14. ASSUME Crash \/ Launch PROVE ProcessTypeOK' /\ Located'
  <2>1. step' \in StepLocals
    <3>1. NoStep \in StepLocals
      BY DEF NoStep, StepLocals
    <3> QED
      BY <1>14, <3>1 DEF Crash, Launch, ProcessTypeOK
  <2> QED
    BY <1>f, <1>14, <2>1 DEF Crash, Launch, ProcessTypeOK, Located
<1>15. ASSUME RequestDrain \/ CreatedLate \/ PoolActs \/ \E n \in Nonces : NonceDone(n) \/ NonceFails(n)
       PROVE  ProcessTypeOK' /\ Located'
  <2>1. UNCHANGED <<pc, step>>
    BY <1>15 DEF RequestDrain, CreatedLate, PoolActs, NonceDone, NonceFails
  <2>2. faults' \in 0 .. MaxFaults
    BY <1>f, <1>15 DEF RequestDrain, CreatedLate, PoolActs, NonceDone, NonceFails, ProcessTypeOK
  <2> QED
    BY <2>1, <2>2, Moves
<1> QED
  BY <1>1, <1>2, <1>3, <1>4, <1>5, <1>6, <1>7, <1>8, <1>9, <1>10, <1>11, <1>12, <1>13,
     <1>14, <1>15 DEF Next, RunnerStep

\* The pool's terminal states are final.
Final ==
    /\ \A b \in Benchmarks : Concluded(b) => poolBenchmarks'[b].state = poolBenchmarks[b].state
    /\ \A k \in Keys : poolRequests[k].state \in TERMINAL => poolRequests'[k] = poolRequests[k]

LEMMA TerminalIsFinal == PoolTypeOK /\ Next => Final
<1> SUFFICES ASSUME PoolTypeOK, Next PROVE Final
  OBVIOUS
<1>0. TERMINAL \cap {"free", "accepted", "unknown", "queued", "assigned"} = {}
  BY DEF TERMINAL
<1>1. PoolTypeOK => DOMAIN poolRequests = Keys /\ DOMAIN poolBenchmarks = Benchmarks
  BY DEF PoolTypeOK
<1> USE <1>0, <1>1 DEF Final, Concluded
<1>2. ASSUME PostRequest \/ RefreshRequest PROVE Final
  BY <1>2 DEF PostRequest, RefreshRequest, Receive, Refresh, PoolTypeOK
<1>3. ASSUME AcknowledgeHandover \/ Deliver \/ PostProofs PROVE Final
  <2>1. UNCHANGED poolRequests
    BY <1>3 DEF AcknowledgeHandover, Deliver, PostProofs, HandOver, StoreResult, StoreProofs
  <2>2. \A b \in Benchmarks : poolBenchmarks'[b].state = poolBenchmarks[b].state
    BY <1>3 DEF AcknowledgeHandover, Deliver, PostProofs, HandOver, StoreResult, StoreProofs, PoolTypeOK, PoolBenchmark
  <2> QED
    BY <2>1, <2>2
<1>4. ASSUME NEW k \in Keys, NEW b \in Benchmarks, Assign(k, b) PROVE Final
  BY <1>4 DEF Assign, PoolTypeOK
<1>5. ASSUME NEW k \in Keys, Age(k) \/ Expire(k) \/ CloseAssigned(k) PROVE Final
  BY <1>5 DEF Age, Expire, CloseAssigned, PoolTypeOK
<1>6. ASSUME NEW b \in Benchmarks, NEW p \in Payloads, Reissue(b, p) PROVE Final
  BY <1>6 DEF Reissue, PoolTypeOK
<1>8. ASSUME NEW b \in Benchmarks, NEW sampled \in SUBSET Nonces, Sample(b, sampled) PROVE Final
  BY <1>8 DEF Sample, PoolTypeOK
<1>9. ASSUME NEW b \in Benchmarks, NEW outcome \in Outcomes, Conclude(b, outcome) PROVE Final
  BY <1>9 DEF Conclude, PoolTypeOK
<1>7. ASSUME ToggleEnabled \/ \E r \in Releases : ChangeRelease(r) PROVE Final
  BY <1>7 DEF ToggleEnabled, ChangeRelease
<1> QED
  BY <1>2, <1>3, <1>4, <1>5, <1>6, <1>7, <1>8, <1>9, PoolFrame DEF PoolActs, PoolStep, poolVars

\* A step only leaves a row for a terminal state it has seen at the pool.
LEMMA LeavingNext == HandoverInv /\ Next => Leaving'
<1> SUFFICES ASSUME HandoverInv, Next PROVE Leaving'
  OBVIOUS
<1>0. Final
  BY TerminalIsFinal DEF HandoverInv, TypeOK
<1>k. pc \in RowPoints => step.key \in Keys
  BY DEF HandoverInv, Located
<1>b. pc \in BenchPoints => step.bench \in Benchmarks
  BY DEF HandoverInv, Located
<1> USE DEF Leaving, Goto, Raise, RaiseNow, Return, ReturnNow, ReplyLost, Fault
<1>1. ASSUME StepIdle \/ StepNew \/ StepUnlinked \/ StepLinked PROVE Leaving'
  BY <1>1 DEF StepIdle, StepNew, StepUnlinked, StepLinked, Enter
<1>2. ASSUME OfferWork \/ CheckBeforePost \/ ReleaseRefused \/ PostRequest PROVE Leaving'
  BY <1>2 DEF HandoverInv, TypeOK, ProcessTypeOK, StepLocals, OfferWork, CheckBeforePost, ReleaseRefused, PostRequest
<1>3. ASSUME RequestClosed PROVE Leaving'
  BY <1>3, <1>0, <1>k DEF RequestClosed, RequestIsOver, HandoverInv, Outcome, poolVars, RowPoints, Control
<1>4. ASSUME RequestQueued \/ RefreshRequest \/ RequestAssigned PROVE Leaving'
  BY <1>4 DEF RequestQueued, RefreshRequest, RequestAssigned
<1>5. ASSUME BenchmarkGone PROVE Leaving'
  BY <1>5, <1>b, NoneAssumption DEF BenchmarkGone, Outcome, Concluded, BenchPoints, poolVars, TypeOK, HandoverInv
<1>6. ASSUME BenchmarkOffered \/ AssignmentChanged PROVE Leaving'
  BY <1>6 DEF BenchmarkOffered, AssignmentChanged, AfterHandover, AfterEvidence
<1>7. ASSUME AcknowledgeHandover \/ RecoverHandover PROVE Leaving'
  BY <1>7 DEF AcknowledgeHandover, RecoverHandover, AfterHandover, AfterEvidence
<1>8. ASSUME Prepare \/ Submit \/ Wait \/ SaveReady \/ NonceFailed \/ Shutdown PROVE Leaving'
  BY <1>8 DEF Prepare, Submit, Wait, SaveReady, NonceFailed, Shutdown, AfterEvidence
<1>9. ASSUME Deliver \/ AwaitVerification \/ PostProofs PROVE Leaving'
  BY <1>9 DEF Deliver, AwaitVerification, PostProofs
<1>10. ASSUME DeliveredGone PROVE Leaving'
  BY <1>10 DEF DeliveredGone, Concluded, poolVars
<1>11. ASSUME ReleaseContainer PROVE Leaving'
  BY <1>11, <1>b, NoneAssumption DEF ReleaseContainer, Outcome, Concluded, BenchPoints, poolVars, HandoverInv
<1>12. ASSUME Finish \/ CallFails \/ Crash \/ Launch PROVE Leaving'
  BY <1>12 DEF Finish, CallFails, Crash, Launch
<1>13. ASSUME RequestDrain \/ CreatedLate \/ PoolActs \/ \E n \in Nonces : NonceDone(n) \/ NonceFails(n)
       PROVE  Leaving'
  <2>1. UNCHANGED <<pc, step>>
    BY <1>13 DEF RequestDrain, CreatedLate, PoolActs, NonceDone, NonceFails
  <2>2. pc = "release" => Concluded(step.bench)'
    BY <2>1, <1>0, <1>b DEF Final, Concluded, HandoverInv, BenchPoints
  <2>3. pc = "finish" => /\ step.bench \in Benchmarks \/ poolRequests'[step.key].bench = None
                         /\ Outcome' \in TERMINAL
    <3> SUFFICES ASSUME pc = "finish"
                 PROVE  /\ step.bench \in Benchmarks \/ poolRequests'[step.key].bench = None
                        /\ Outcome' \in TERMINAL
      OBVIOUS
    <3>1. /\ step.bench \in Benchmarks \/ poolRequests[step.key].bench = None
          /\ Outcome \in TERMINAL
      BY DEF HandoverInv
    <3>2. step.key \in Keys /\ step.bench \in Benchmarks \cup {None}
      BY <1>k DEF RowPoints, Control, HandoverInv, TypeOK, ProcessTypeOK, StepLocals
    <3>3. CASE step.bench \in Benchmarks
      BY <3>1, <3>3, <2>1, <1>0, NoneAssumption DEF Final, Concluded, Outcome
    <3>4. CASE step.bench = None
      BY <3>1, <3>2, <3>4, <2>1, <1>0, NoneAssumption DEF Final, Outcome
    <3> QED
      BY <3>2, <3>3, <3>4
  <2> QED
    BY <2>1, <2>2, <2>3 DEF HandoverInv
<1> QED
  BY <1>1, <1>2, <1>3, <1>4, <1>5, <1>6, <1>7, <1>8, <1>9, <1>10, <1>11, <1>12, <1>13
     DEF Next, RunnerStep

\* The executor's futures end with the with-block.
LEMMA FuturesNext == HandoverInv /\ Next => FuturesInside'
<1> SUFFICES ASSUME HandoverInv, Next PROVE FuturesInside'
  OBVIOUS
<1> USE DEF FuturesInside, ComputePoints, Goto, Raise, RaiseNow, ReplyLost
<1>1. ASSUME UNCHANGED computation, pc' = pc \/ {pc, pc'} \cap ComputePoints = {}
      PROVE  FuturesInside'
  BY <1>1 DEF computation, HandoverInv
<1>2. ASSUME Prepare PROVE FuturesInside'
  BY <1>2 DEF Prepare, HandoverInv
<1>3. ASSUME Submit PROVE FuturesInside'
  <2>1. PICK batch \in SUBSET todo :
          /\ futures' = [n \in Nonces |-> IF n \in batch THEN "running" ELSE futures[n]]
          /\ pc' = IF InFlight \cup batch = {} THEN AfterEvidence(step.bench) ELSE "wait"
    BY <1>3 DEF Submit
  <2>2. InFlight \cup batch = {} => futures' = NoFutures
    BY <2>1 DEF InFlight, NoFutures
  <2> QED
    BY <2>1, <2>2 DEF AfterEvidence
<1>4. ASSUME Wait \/ SaveReady \/ NonceFailed PROVE FuturesInside'
  BY <1>4 DEF Wait, SaveReady, NonceFailed
<1>5. ASSUME Shutdown \/ Crash PROVE FuturesInside'
  BY <1>5 DEF Shutdown, Crash
<1>6. ASSUME NEW n \in Nonces, NonceDone(n) \/ NonceFails(n) PROVE FuturesInside'
  BY <1>6 DEF NonceDone, NonceFails, HandoverInv, NoFutures
<1> QED
  BY <1>1, <1>2, <1>3, <1>4, <1>5, <1>6, ComputationFrame

\* No action changes or drops what is saved of a benchmark.
LEMMA ImmutableNext == HandoverInv /\ Next => Immutable
<1> SUFFICES ASSUME HandoverInv, Next PROVE Immutable
  OBVIOUS
<1>0. StoreTypeOK
  BY DEF HandoverInv, TypeOK
<1> USE DEF Immutable
<1>1. ASSUME UNCHANGED evidenceVars PROVE Immutable
  BY <1>1 DEF evidenceVars
<1>2. ASSUME BenchmarkOffered PROVE Immutable
  BY <1>0, <1>2 DEF BenchmarkOffered, SaveAssignment, StoreTypeOK, AssignmentRow
<1>3. ASSUME AcknowledgeHandover \/ RecoverHandover PROVE Immutable
  BY <1>0, <1>3 DEF AcknowledgeHandover, RecoverHandover, Acknowledge, StoreTypeOK, AssignmentRow
<1>4. ASSUME SaveReady PROVE Immutable
  <2>1. PICK n \in ready : SaveNonce(step.bench, n, futures[n])
    BY <1>4 DEF SaveReady
  <2> QED
    BY <1>0, <1>4, <2>1 DEF SaveReady, SaveNonce, StoreTypeOK
<1>5. ASSUME Deliver PROVE Immutable
  BY <1>0, <1>5 DEF Deliver, MarkResultSent, StoreTypeOK, AssignmentRow
<1>6. ASSUME PostProofs PROVE Immutable
  BY <1>0, <1>6 DEF PostProofs, MarkProofsSent, StoreTypeOK, AssignmentRow
<1>7. ASSUME Finish PROVE Immutable
  BY <1>0, <1>7 DEF Finish, StoreTypeOK, AssignmentRow
<1> QED
  BY <1>1, <1>2, <1>3, <1>4, <1>5, <1>6, <1>7, EvidenceFrame

\* The pool hands a benchmark over once, with the payload it then keeps.
LEMMA HandedNext ==
  HandoverInv /\ Next =>
    /\ \A b \in Benchmarks : poolBenchmarks[b].handed # None
                            => poolBenchmarks'[b].handed = poolBenchmarks[b].handed
    /\ PayloadFixed'
<1> DEFINE Handed == \A b \in Benchmarks :
               /\ poolBenchmarks[b].handed # None
                  => poolBenchmarks'[b].handed = poolBenchmarks[b].handed
               /\ poolBenchmarks'[b].handed # None
                  => poolBenchmarks'[b].handed = poolBenchmarks'[b].payload
<1> SUFFICES ASSUME HandoverInv, Next PROVE Handed
  BY DEF PayloadFixed
<1>0. PoolTypeOK /\ PayloadFixed
  BY DEF HandoverInv, TypeOK
<1> USE <1>0 DEF PoolTypeOK, PayloadFixed
<1>1. ASSUME UNCHANGED poolBenchmarks PROVE Handed
  BY <1>1
<1>2. PostRequest \/ RefreshRequest => UNCHANGED poolBenchmarks
  BY DEF PostRequest, RefreshRequest, Receive, Refresh
<1>3. ASSUME AcknowledgeHandover PROVE Handed
  BY <1>3, BenchmarkColumns DEF AcknowledgeHandover, HandOver, HandedAfter
<1>4. ASSUME Deliver \/ PostProofs PROVE Handed
  <2>1. CASE Deliver
    BY <2>1, BenchmarkColumns DEF Deliver, StoreResult
  <2>2. CASE PostProofs
    BY <2>2, BenchmarkColumns DEF PostProofs, StoreProofs
  <2> QED
    BY <1>4, <2>1, <2>2
<1>5. ASSUME NEW k \in Keys, Age(k) \/ Expire(k) \/ CloseAssigned(k)
      PROVE  UNCHANGED poolBenchmarks
  BY <1>5 DEF Age, Expire, CloseAssigned
<1>6. ASSUME NEW k \in Keys, NEW b \in Benchmarks, Assign(k, b) PROVE Handed
  BY <1>6, BenchmarkColumns DEF Assign
<1>7. ASSUME NEW b \in Benchmarks, NEW p \in Payloads, Reissue(b, p) PROVE Handed
  BY <1>7, BenchmarkColumns DEF Reissue
<1>8. ASSUME NEW b \in Benchmarks, NEW sampled \in SUBSET Nonces, Sample(b, sampled) PROVE Handed
  BY <1>8, BenchmarkColumns DEF Sample
<1>9. ASSUME NEW b \in Benchmarks, NEW outcome \in Outcomes, Conclude(b, outcome) PROVE Handed
  BY <1>9, BenchmarkColumns DEF Conclude
<1>10. ToggleEnabled \/ (\E r \in Releases : ChangeRelease(r)) => UNCHANGED poolBenchmarks
  BY DEF ToggleEnabled, ChangeRelease
<1>11. ASSUME PoolActs PROVE Handed
  <2> HIDE <1>0 DEF Handed, PoolTypeOK, PayloadFixed
  <2> QED
    BY <1>1, <1>5, <1>6, <1>7, <1>8, <1>9, <1>10, <1>11 DEF PoolActs, PoolStep
<1> HIDE <1>0 DEF Handed, PoolTypeOK, PayloadFixed
<1> QED
  BY <1>1, <1>2, <1>3, <1>4, <1>11, PoolFrame DEF poolVars

\* A saved acknowledgement always names the payload that was handed over.
LEMMA OwnedNext == HandoverInv /\ Next => OwnedIsHanded'
<1> SUFFICES ASSUME HandoverInv, Next, NEW b \in Benchmarks, Owned(b)' PROVE HandedOver(b)'
  BY DEF OwnedIsHanded
<1>0. StoreTypeOK /\ PoolTypeOK /\ OwnedIsHanded
  BY DEF HandoverInv, TypeOK
<1>1. poolBenchmarks[b].handed # None => poolBenchmarks'[b].handed = poolBenchmarks[b].handed
  BY HandedNext
<1>2. assignments[b].payload # None => assignments'[b].payload = assignments[b].payload
  BY ImmutableNext DEF Immutable
<1>3. Payloads \cap {None} = {}
  BY NoneAssumption
<1>4. ASSUME HandedOver(b) PROVE HandedOver(b)'
  BY <1>1, <1>2, <1>4 DEF HandedOver
<1>5. CASE Owned(b)
  BY <1>0, <1>4, <1>5 DEF OwnedIsHanded
<1>6. CASE ~Owned(b)
  <2>1. CASE AcknowledgeHandover
    <3>1. SameAssignment /\ b = step.bench /\ UNCHANGED nonces
      BY <1>0, <1>6, <2>1 DEF AcknowledgeHandover, Acknowledge, Owned, StoreTypeOK
    <3>2. poolBenchmarks'[b].handed = HandedAfter(b)
      BY <1>0, <2>1, <3>1, BenchmarkColumns DEF AcknowledgeHandover, HandOver, PoolTypeOK
    <3>3. assignments[b].payload = HandedAfter(b)
      BY <3>1 DEF SameAssignment
    <3>4. HandedAfter(b) # None
      BY <1>0, <1>3 DEF HandedAfter, PoolTypeOK, PoolBenchmark
    <3> QED
      BY <1>2, <3>2, <3>3, <3>4 DEF HandedOver
  <2>2. CASE RecoverHandover
    <3>1. b = step.bench
      BY <1>0, <1>6, <2>2 DEF RecoverHandover, Acknowledge, Owned, StoreTypeOK
    <3>2. HandedOver(b)
      BY <2>2, <3>1 DEF RecoverHandover, HandoverInv, StepIsOwned
    <3> QED
      BY <1>4, <3>2
  <2>3. ASSUME \/ UNCHANGED evidenceVars
               \/ SaveReady
        PROVE  FALSE
    BY <1>6, <2>3 DEF SaveReady, evidenceVars, Owned
  <2>4. ASSUME BenchmarkOffered PROVE FALSE
    BY <1>0, <1>6, <2>4 DEF BenchmarkOffered, SaveAssignment, Owned, StoreTypeOK, AssignmentRow
  <2>5. ASSUME Deliver \/ PostProofs PROVE FALSE
    BY <1>0, <1>6, <2>5 DEF Deliver, PostProofs, MarkResultSent, MarkProofsSent, Owned,
       StoreTypeOK, AssignmentRow
  <2>6. ASSUME Finish PROVE FALSE
    BY <1>0, <1>6, <2>6 DEF Finish, Owned, StoreTypeOK, AssignmentRow
  <2> QED
    BY <2>1, <2>2, <2>3, <2>4, <2>5, <2>6, EvidenceFrame
<1> QED
  BY <1>5, <1>6

\* Outputs are only saved after the handover.
LEMMA EvidenceNext == HandoverInv /\ Next => EvidenceIsOwned'
<1> SUFFICES ASSUME HandoverInv, Next, NEW b \in Benchmarks, HasEvidence(b)' PROVE Owned(b)'
  BY DEF EvidenceIsOwned
<1>0. StoreTypeOK /\ EvidenceIsOwned
  BY DEF HandoverInv, TypeOK
<1>1. Owned(b) => Owned(b)'
  BY ImmutableNext DEF Immutable, Owned
<1>2. CASE SaveReady
  <2>1. PICK n \in ready : SaveNonce(step.bench, n, futures[n])
    BY <1>2 DEF SaveReady
  <2>2. CASE b = step.bench
    BY <1>1, <2>1, <2>2 DEF SaveNonce, Owned
  <2>3. CASE b # step.bench
    BY <1>0, <1>1, <2>1, <2>3 DEF SaveNonce, HasEvidence, EvidenceIsOwned, StoreTypeOK
  <2> QED
    BY <2>2, <2>3
<1>3. CASE UNCHANGED nonces
  BY <1>0, <1>1, <1>3 DEF HasEvidence, EvidenceIsOwned
<1>4. \/ UNCHANGED evidenceVars \/ BenchmarkOffered \/ AcknowledgeHandover
      \/ RecoverHandover \/ Deliver \/ PostProofs \/ Finish
      => UNCHANGED nonces
  BY DEF evidenceVars, BenchmarkOffered, AcknowledgeHandover, RecoverHandover, Deliver,
         PostProofs, Finish
<1> QED
  BY <1>2, <1>3, <1>4, EvidenceFrame

\* The process computes and delivers only for a benchmark it owns.
LEMMA StepOwnedNext == HandoverInv /\ Next => StepIsOwned'
<1> SUFFICES ASSUME HandoverInv, Next PROVE StepIsOwned'
  OBVIOUS
<1>0. StoreTypeOK /\ PoolTypeOK /\ OwnedIsHanded
  BY DEF HandoverInv, TypeOK
<1>b. pc \in BenchPoints => step.bench \in Benchmarks
  BY DEF HandoverInv, Located
<1>1. \A b \in Benchmarks : Owned(b) => Owned(b)'
  BY ImmutableNext DEF Immutable, Owned
<1>2. \A b \in Benchmarks : HandedOver(b) => HandedOver(b)'
  BY HandedNext, ImmutableNext DEF Immutable, HandedOver
<1>3. pc \in OwnedPoints => Owned(step.bench)
  BY DEF HandoverInv, StepIsOwned
<1>4. pc = "recover" => HandedOver(step.bench)
  BY DEF HandoverInv, StepIsOwned
<1>5. ASSUME UNCHANGED step, pc' = "recover" => pc = "recover",
             pc' \in OwnedPoints => pc \in OwnedPoints
      PROVE  StepIsOwned'
  <2>1. OwnedPoints \subseteq BenchPoints /\ "recover" \in BenchPoints
    BY DEF BenchPoints
  <2> QED
    BY <1>1, <1>2, <1>3, <1>4, <1>5, <1>b, <2>1 DEF StepIsOwned, Owned, HandedOver
<1>6. ASSUME pc' \notin OwnedPoints \cup {"recover"} PROVE StepIsOwned'
  BY <1>6 DEF StepIsOwned
<1> USE DEF OwnedPoints, ComputePoints, Goto, Raise, RaiseNow, Return, ReturnNow, ReplyLost, Fault
<1>7. ASSUME BenchmarkOffered PROVE StepIsOwned'
  <2>1. step.bench \in Benchmarks /\ UNCHANGED <<step, poolBenchmarks>>
    BY <1>7, <1>b DEF BenchmarkOffered, BenchPoints, poolVars
  <2>2. pc' = "recover" => /\ poolBenchmarks[step.bench].handed # None
                           /\ assignments'[step.bench].payload = poolBenchmarks[step.bench].payload
    BY <1>0, <1>7, <2>1 DEF BenchmarkOffered, SaveAssignment, AfterHandover, AfterEvidence,
       StoreTypeOK, AssignmentRow
  <2>3. pc' \in OwnedPoints => Owned(step.bench)
    BY <1>7 DEF BenchmarkOffered, Owned
  <2>4. PayloadFixed
    BY DEF HandoverInv
  <2> QED
    BY <1>1, <2>1, <2>2, <2>3, <2>4 DEF StepIsOwned, HandedOver, Owned, PayloadFixed
<1>8. ASSUME AcknowledgeHandover \/ RecoverHandover PROVE StepIsOwned'
  <2>1. step.bench \in Benchmarks
    BY <1>8, <1>b DEF AcknowledgeHandover, RecoverHandover, BenchPoints
  <2>2. CASE Acknowledge(step.bench) /\ UNCHANGED step /\ pc' # "recover"
    BY <1>0, <2>1, <2>2 DEF Acknowledge, StepIsOwned, Owned, StoreTypeOK, AssignmentRow
  <2>3. CASE pc' = "sleep"
    BY <1>6, <2>3
  <2> QED
    BY <1>8, <2>2, <2>3 DEF AcknowledgeHandover, RecoverHandover, AfterHandover, AfterEvidence
<1>9. ASSUME Prepare \/ Submit \/ Wait \/ NonceFailed \/ Shutdown \/ SaveReady
      PROVE  StepIsOwned'
  BY <1>5, <1>6, <1>9 DEF Prepare, Submit, Wait, NonceFailed, Shutdown, SaveReady, AfterEvidence
<1>10. ASSUME Deliver \/ DeliveredGone \/ AwaitVerification \/ PostProofs \/ ReleaseContainer \/ Finish
       PROVE  StepIsOwned'
  BY <1>5, <1>6, <1>10 DEF Deliver, DeliveredGone, AwaitVerification, PostProofs, ReleaseContainer, Finish
<1>11. ASSUME StepIdle \/ StepNew \/ StepUnlinked \/ StepLinked PROVE StepIsOwned'
  BY <1>6, <1>11 DEF StepIdle, StepNew, StepUnlinked, StepLinked, Enter
<1>12. ASSUME OfferWork \/ CheckBeforePost \/ ReleaseRefused \/ PostRequest PROVE StepIsOwned'
  BY <1>6, <1>12 DEF OfferWork, CheckBeforePost, ReleaseRefused, PostRequest
<1>13. ASSUME \/ RequestClosed \/ RequestQueued \/ RefreshRequest \/ RequestAssigned
              \/ BenchmarkGone \/ AssignmentChanged
       PROVE  StepIsOwned'
  BY <1>6, <1>13 DEF RequestClosed, RequestQueued, RefreshRequest, RequestAssigned,
     BenchmarkGone, AssignmentChanged
<1>14. ASSUME CallFails \/ Crash \/ Launch PROVE StepIsOwned'
  BY <1>6, <1>14 DEF CallFails, Crash, Launch
<1>15. ASSUME RequestDrain \/ CreatedLate \/ PoolActs \/ \E n \in Nonces : NonceDone(n) \/ NonceFails(n)
       PROVE  StepIsOwned'
  BY <1>5, <1>15 DEF RequestDrain, CreatedLate, PoolActs, NonceDone, NonceFails
<1> QED
  BY <1>7, <1>8, <1>9, <1>10, <1>11, <1>12, <1>13, <1>14, <1>15 DEF Next, RunnerStep

LEMMA HandoverStutter == HandoverInv /\ UNCHANGED vars => HandoverInv'
  BY DEF HandoverInv, vars, durable, computation, poolVars, TypeOK, StoreTypeOK, PoolTypeOK,
         MemberTypeOK, ProcessTypeOK, ComputationTypeOK, Located, Leaving, FuturesInside,
         PayloadFixed, OwnedIsHanded, EvidenceIsOwned, StepIsOwned, Owned, HandedOver,
         HasEvidence, Concluded, Outcome

LEMMA HandoverNext == HandoverInv /\ [Next]_vars => HandoverInv'
<1>1. ASSUME HandoverInv, Next PROVE HandoverInv'
  BY <1>1, StoreNext, PoolNext, MemberNext, ProcessNext, ComputationNext, LeavingNext,
     FuturesNext, HandedNext, OwnedNext, EvidenceNext, StepOwnedNext DEF HandoverInv, TypeOK
<1> QED
  BY <1>1, HandoverStutter

\* In every state of the worker its locals, its saved rows and the pool agree on
\* the handover, through every call, failure and crash (runner.py:37-148).
THEOREM HandoverAlways == Spec => []HandoverInv
  BY HandoverInit, HandoverNext, PTL DEF Spec

\* What follows from the invariant in every state.
LEMMA HandoverImplies == HandoverInv => EvidenceMatchesHandover
<1> SUFFICES ASSUME HandoverInv, NEW b \in Benchmarks, ComputesFor(b) \/ HasEvidence(b)
             PROVE  Owned(b) /\ HandedOver(b)
  BY DEF EvidenceMatchesHandover, HandedOver
<1>1. ASSUME ComputesFor(b) PROVE Owned(b)
  <2>1. futures # NoFutures
    BY <1>1 DEF ComputesFor, NoFutures
  <2>2. pc \in OwnedPoints
    BY <2>1 DEF HandoverInv, FuturesInside, OwnedPoints
  <2> QED
    BY <1>1, <2>2 DEF ComputesFor, HandoverInv, StepIsOwned
<1>2. ASSUME HasEvidence(b) PROVE Owned(b)
  BY <1>2 DEF HandoverInv, EvidenceIsOwned
<1> QED
  BY <1>1, <1>2 DEF HandoverInv, OwnedIsHanded

-----------------------------------------------------------------------------
(* The theorems.                                                           *)

\* Every variable of the worker and of the pool keeps its type, for any number
\* of requests, benchmarks, nonces, workers, releases and faults.
THEOREM TypeCorrect == Spec => []TypeOK
<1>1. HandoverInv => TypeOK
  BY DEF HandoverInv
<1> QED
  BY <1>1, HandoverAlways, PTL

\* The worker computes and saves only for the assignment the pool handed over
\* to it (runner.py:82-113), whatever is lost, reissued, killed or retried.
THEOREM HandoverSafe == Spec => []EvidenceMatchesHandover
  BY HandoverAlways, HandoverImplies, PTL

\* No step of the worker, and no crash, changes or drops a saved payload, a
\* saved handover or a saved leaf (state.py:104-145, 158-164).
THEOREM EvidenceKept == Spec => EvidenceNeverChanges
<1>1. HandoverInv /\ [Next]_vars => [Immutable]_vars
  BY ImmutableNext
<1> QED
  BY <1>1, HandoverAlways, PTL DEF Spec, EvidenceNeverChanges
=============================================================================
