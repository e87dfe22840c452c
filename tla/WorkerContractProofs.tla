------------------------ MODULE WorkerContractProofs ------------------------
(***************************************************************************)
(* What the pool holds of the member's benchmarks is the member's saved    *)
(* evidence, and the worker implements the contract of WholeBenchmark, for *)
(* every value of the constants.                                           *)
(***************************************************************************)
EXTENDS WorkerRefines, WorkerSlotProofs

-----------------------------------------------------------------------------
(* Results and proofs at the pool.                                         *)

\* Only a delivery changes a result, only posted proofs change the proofs, and
\* the sample is drawn once.
LEMMA ColumnsMove ==
  ASSUME PoolTypeOK, Next, NEW b \in Benchmarks
  PROVE  /\ \/ poolBenchmarks'[b].result = poolBenchmarks[b].result
            \/ Deliver /\ b = step.bench /\ poolBenchmarks'[b].result = nonces[b]
         /\ \/ poolBenchmarks'[b].proofs = poolBenchmarks[b].proofs
            \/ PostProofs /\ b = step.bench /\ poolBenchmarks'[b].proofs = SampledOpening(b)
         /\ \/ poolBenchmarks'[b].sample = poolBenchmarks[b].sample
            \/ PoolActs /\ poolBenchmarks[b].sample = {}
<1> DEFINE Kept == /\ poolBenchmarks'[b].result = poolBenchmarks[b].result
                   /\ poolBenchmarks'[b].proofs = poolBenchmarks[b].proofs
                   /\ \/ poolBenchmarks'[b].sample = poolBenchmarks[b].sample
                      \/ PoolActs /\ poolBenchmarks[b].sample = {}
<1> USE DEF PoolTypeOK, PoolBenchmark
<1>1. ASSUME UNCHANGED poolBenchmarks PROVE Kept
  BY <1>1
<1>2. PostRequest \/ RefreshRequest => UNCHANGED poolBenchmarks
  BY DEF PostRequest, RefreshRequest, Receive, Refresh
<1>3. ASSUME AcknowledgeHandover PROVE Kept
  BY <1>3 DEF AcknowledgeHandover, HandOver
<1>4. CASE Deliver
  BY <1>4 DEF Deliver, StoreResult
<1>5. CASE PostProofs
  BY <1>5 DEF PostProofs, StoreProofs
<1>6. ASSUME PoolActs PROVE Kept
  <2>1. ASSUME NEW k \in Keys, Age(k) \/ Expire(k) \/ CloseAssigned(k) PROVE Kept
    BY <2>1 DEF Age, Expire, CloseAssigned
  <2>2. ASSUME NEW k \in Keys, NEW c \in Benchmarks, Assign(k, c) PROVE Kept
    BY <2>2 DEF Assign
  <2>3. ASSUME NEW c \in Benchmarks, NEW p \in Payloads, Reissue(c, p) PROVE Kept
    BY <2>3 DEF Reissue
  <2>4. ASSUME NEW c \in Benchmarks, NEW sampled \in SUBSET Nonces, Sample(c, sampled) PROVE Kept
    BY <1>6, <2>4 DEF Sample
  <2>5. ASSUME NEW c \in Benchmarks, NEW outcome \in Outcomes, Conclude(c, outcome) PROVE Kept
    BY <2>5 DEF Conclude
  <2>6. ASSUME ToggleEnabled \/ \E r \in Releases : ChangeRelease(r) PROVE Kept
    BY <2>6 DEF ToggleEnabled, ChangeRelease
  <2> HIDE DEF Kept
  <2> QED
    BY <1>6, <2>1, <2>2, <2>3, <2>4, <2>5, <2>6 DEF PoolActs, PoolStep
<1> QED
  BY <1>1, <1>2, <1>3, <1>4, <1>5, <1>6, PoolFrame DEF poolVars

LEMMA DeliveryInit == Init => DeliveryInv
<1> SUFFICES ASSUME Init, NEW b \in Benchmarks
             PROVE  poolBenchmarks[b].result = Blank /\ poolBenchmarks[b].proofs = Blank
  BY DEF DeliveryInv, DeliveredWhole, EvidenceRetained, ProofsOpenTheResult
<1> QED
  BY DEF Init, PoolInit

\* Complete evidence stays what it is.
LEMMA WholeIsKept ==
  ASSUME HandoverInv, Next, NEW b \in Benchmarks, Missing(b) = {}
  PROVE  nonces'[b] = nonces[b]
<1>1. StoreTypeOK /\ StoreTypeOK'
  BY StoreNext DEF HandoverInv, TypeOK
<1>2. \A n \in Nonces : nonces[b][n] # None
  BY DEF Missing
<1>3. \A n \in Nonces : nonces'[b][n] = nonces[b][n]
  BY <1>2, ImmutableNext DEF Immutable
<1> QED
  BY <1>1, <1>3 DEF StoreTypeOK

LEMMA DeliveryNext == HandoverInv /\ DeliveryInv /\ [Next]_vars => DeliveryInv'
<1>1. ASSUME HandoverInv, DeliveryInv, Next, NEW b \in Benchmarks
      PROVE  /\ poolBenchmarks'[b].result # Blank =>
                  /\ Missing(b)' = {}
                  /\ poolBenchmarks'[b].result = nonces'[b]
             /\ poolBenchmarks'[b].proofs # Blank =>
                  /\ poolBenchmarks'[b].result # Blank
                  /\ \A n \in Nonces : poolBenchmarks'[b].proofs[n] =
                        IF n \in poolBenchmarks'[b].sample THEN poolBenchmarks'[b].result[n] ELSE None
  <2>0. PoolTypeOK
    BY <1>1 DEF HandoverInv, TypeOK
  <2>1. poolBenchmarks[b].result # Blank => /\ Missing(b) = {}
                                            /\ poolBenchmarks[b].result = nonces[b]
    BY <1>1 DEF DeliveryInv, DeliveredWhole, EvidenceRetained
  <2>2. poolBenchmarks[b].proofs # Blank =>
           /\ poolBenchmarks[b].result # Blank
           /\ \A n \in Nonces : poolBenchmarks[b].proofs[n] =
                 IF n \in poolBenchmarks[b].sample THEN poolBenchmarks[b].result[n] ELSE None
    BY <1>1 DEF DeliveryInv, DeliveredWhole, ProofsOpenTheResult
  <2>3. Missing(b) = {} => nonces'[b] = nonces[b] /\ Missing(b)' = {}
    BY <1>1, WholeIsKept DEF Missing
  <2>4. ASSUME poolBenchmarks[b].result # Blank
        PROVE  poolBenchmarks'[b].result = poolBenchmarks[b].result
    BY <1>1, <2>0, <2>1, <2>4, ColumnsMove
  <2>5. ASSUME poolBenchmarks'[b].result # Blank
        PROVE  Missing(b)' = {} /\ poolBenchmarks'[b].result = nonces'[b]
    <3>1. CASE poolBenchmarks[b].result # Blank
      BY <2>1, <2>3, <2>4, <3>1
    <3>2. CASE poolBenchmarks[b].result = Blank
      <4>1. Deliver /\ b = step.bench /\ poolBenchmarks'[b].result = nonces[b]
        BY <1>1, <2>0, <2>5, <3>2, ColumnsMove
      <4>2. Missing(b) = {}
        BY <4>1 DEF Deliver
      <4> QED
        BY <2>3, <4>1, <4>2
    <3> QED
      BY <3>1, <3>2
  <2>6. ASSUME poolBenchmarks'[b].proofs # Blank
        PROVE  /\ poolBenchmarks'[b].result # Blank
               /\ \A n \in Nonces : poolBenchmarks'[b].proofs[n] =
                     IF n \in poolBenchmarks'[b].sample THEN poolBenchmarks'[b].result[n] ELSE None
    <3>1. CASE poolBenchmarks'[b].proofs = poolBenchmarks[b].proofs
      <4>1. poolBenchmarks'[b].result = poolBenchmarks[b].result
        BY <2>2, <2>4, <2>6, <3>1
      <4>2. poolBenchmarks[b].sample # {}
        <5> SUFFICES ASSUME poolBenchmarks[b].sample = {} PROVE FALSE
          OBVIOUS
        <5>1. \A n \in Nonces : poolBenchmarks[b].proofs[n] = None
          BY <2>2, <2>6, <3>1
        <5>2. poolBenchmarks[b].proofs \in [Nonces -> Leaves \cup {None}]
          BY <2>0 DEF PoolTypeOK, PoolBenchmark
        <5>3. poolBenchmarks[b].proofs = Blank
          BY <5>1, <5>2 DEF Blank
        <5> QED
          BY <2>6, <3>1, <5>3
      <4>3. poolBenchmarks'[b].sample = poolBenchmarks[b].sample
        BY <1>1, <2>0, <4>2, ColumnsMove
      <4> QED
        BY <2>2, <2>6, <3>1, <4>1, <4>3
    <3>2. CASE /\ PostProofs /\ b = step.bench
               /\ poolBenchmarks'[b].proofs = SampledOpening(b)
      <4>1. poolBenchmarks[b].result # Blank
        BY <3>2 DEF PostProofs, StoreProofs
      <4>2. poolBenchmarks'[b].result = poolBenchmarks[b].result
        BY <2>4, <4>1
      <4>3. poolBenchmarks'[b].sample = poolBenchmarks[b].sample
        BY <2>0, <3>2 DEF PostProofs, StoreProofs, PoolTypeOK, PoolBenchmark
      <4>4. \A n \in Nonces : SampledOpening(b)[n] =
               IF n \in poolBenchmarks[b].sample THEN nonces[b][n] ELSE None
        BY DEF SampledOpening, Opening, Sampled
      <4> QED
        BY <2>1, <3>2, <4>1, <4>2, <4>3, <4>4
    <3> QED
      BY <1>1, <2>0, <3>1, <3>2, ColumnsMove
  <2> QED
    BY <2>5, <2>6
<1>2. ASSUME DeliveryInv, UNCHANGED vars PROVE DeliveryInv'
  BY <1>2 DEF vars, durable, poolVars, DeliveryInv, DeliveredWhole, EvidenceRetained,
     ProofsOpenTheResult, Missing
<1> QED
  BY <1>1, <1>2 DEF DeliveryInv, DeliveredWhole, EvidenceRetained, ProofsOpenTheResult

\* The pool's results and proofs are whole and the member's own, in every state
\* (runner.py:118-147).
THEOREM DeliveryAlways == Spec => []DeliveryInv
  BY DeliveryInit, DeliveryNext, HandoverAlways, PTL DEF Spec

\* Whatever result the pool holds is the saved output of every nonce, for ever
\* (runner.py:95-133, state.py:158-164).
THEOREM ResultIsEvidence == Spec => []EvidenceRetained
<1>1. DeliveryInv => EvidenceRetained
  BY DEF DeliveryInv
<1> QED
  BY <1>1, DeliveryAlways, PTL

\* The proofs at the pool open the sampled nonces of the delivered result, and
\* no other (runner.py:139-147).
THEOREM ProofsOpenSampled == Spec => []ProofsOpenTheResult
<1>1. DeliveryInv => ProofsOpenTheResult
  BY DEF DeliveryInv
<1> QED
  BY <1>1, DeliveryAlways, PTL

\* The three invariants hold together in every state: where a step stands, what
\* was handed over, the member's slot and what was delivered (runner.py:37-148,
\* state.py:90-164).
THEOREM WorkerAlways == Spec => []WorkerInv
  BY HandoverAlways, SlotAlways, DeliveryAlways, PTL DEF WorkerInv

-----------------------------------------------------------------------------
(* The worker implements WholeBenchmark: the initial states, then the      *)
(* steps that change a variable of the contract, one lemma each.           *)

ContractStep == [Contract!Next]_(Contract!contractVars)

LEMMA RefineInit == Init => Contract!Init
<1> SUFFICES ASSUME Init PROVE Contract!Init
  OBVIOUS
<1>1. \A b \in Benchmarks : /\ ~assignments[b].acknowledged /\ nonces[b] = Blank
                            /\ poolBenchmarks[b].result = Blank /\ poolBenchmarks[b].proofs = Blank
                            /\ poolBenchmarks[b].state = "free"
  BY DEF Init, StoreInit, PoolInit, NoRow
<1>2. \A k \in Keys : requests[k].state = "absent"
  BY DEF Init
<1>3. nonces = [b \in Benchmarks |-> Contract!Nothing]
  BY DEF Init, StoreInit, Blank, Contract!Nothing
<1> QED
  BY <1>1, <1>2, <1>3 DEF Contract!Init, Contract!Nothing, Blank, Committed, Results, Openings,
     ConcludedBenchmarks, ClosedBenchmarks, Concluded, TERMINAL

\* What a step keeps of the contract's variables.
LEMMA CommittedKept ==
  ASSUME HandoverInv, Next, \A b \in Benchmarks : Owned(b)' => Owned(b)
  PROVE  Committed' = Committed
<1>1. ASSUME NEW b \in Benchmarks
      PROVE  /\ assignments'[b].acknowledged <=> assignments[b].acknowledged
             /\ assignments[b].acknowledged => assignments'[b].payload = assignments[b].payload
  BY <1>1, ImmutableNext, NoneAssumption
     DEF Immutable, Owned, HandoverInv, OwnedIsHanded, HandedOver
<1> QED
  BY <1>1 DEF Committed

LEMMA ClosedKept ==
  ASSUME HandoverInv, SlotInv, Next, ~Finish
  PROVE  ClosedBenchmarks' = ClosedBenchmarks
<1>0. MemberTypeOK /\ ProcessTypeOK /\ Located /\ OneOpenRow
  BY DEF HandoverInv, TypeOK, SlotInv
<1>1. ASSUME NEW k \in Keys
      PROVE  /\ requests'[k].state = "finished" <=> requests[k].state = "finished"
             /\ requests[k].state = "finished" => requests'[k].bench = requests[k].bench
  <2>1. CASE OfferWork
    BY <1>0, <2>1, RowsMove DEF RowOpened
  <2>2. CASE PostRequest \/ RequestAssigned
    <3>1. Open(step.key)
      BY <1>0, <2>2 DEF PostRequest, RequestAssigned, OneOpenRow, RowPoints, Control
    <3> QED
      BY <1>0, <2>2, <3>1, RowsMove DEF RowNamed, Open
  <2> QED
    BY <1>0, <2>1, <2>2, RowsMove
<1> QED
  BY <1>1 DEF ClosedBenchmarks

LEMMA PoolKept ==
  ASSUME PoolTypeOK, Next
  PROVE  /\ UNCHANGED poolBenchmarks => UNCHANGED <<Results, Openings, ConcludedBenchmarks>>
         /\ ~Deliver => Results' = Results
         /\ ~PostProofs => Openings' = Openings
         /\ PostRequest \/ RefreshRequest \/ AcknowledgeHandover \/ Deliver \/ PostProofs
            => ConcludedBenchmarks' = ConcludedBenchmarks
<1>1. UNCHANGED poolBenchmarks => UNCHANGED <<Results, Openings, ConcludedBenchmarks>>
  BY DEF Results, Openings, ConcludedBenchmarks, Concluded
<1>2. ~Deliver => Results' = Results
  BY ColumnsMove DEF Results
<1>3. ~PostProofs => Openings' = Openings
  BY ColumnsMove DEF Openings
<1>4. PostRequest \/ RefreshRequest \/ AcknowledgeHandover \/ Deliver \/ PostProofs
      => ConcludedBenchmarks' = ConcludedBenchmarks
  BY CallsMove DEF ConcludedBenchmarks, Concluded
<1> QED
  BY <1>1, <1>2, <1>3, <1>4

\* The benchmark of the step has not been closed: its row is open.
LEMMA StepIsNotClosed ==
  ASSUME HandoverInv, SlotInv, pc \in BenchPoints
  PROVE  step.bench \notin ClosedBenchmarks
<1>1. /\ step.key \in Keys /\ Open(step.key) /\ step.bench \in Benchmarks
      /\ requests[step.key].bench = step.bench
  BY StepBench
<1>2. \A k \in Keys : requests[k].bench = step.bench => k = step.key
  BY <1>1, NoneAssumption DEF SlotInv, RowsAgree, AssignedOnce
<1> QED
  BY <1>1, <1>2 DEF ClosedBenchmarks, Open

LEMMA TakeOnRefines ==
  ASSUME HandoverInv, SlotInv, Next, AcknowledgeHandover \/ RecoverHandover,
         NEW b, b = step.bench
  PROVE  ContractStep
<1>0. PoolTypeOK /\ StoreTypeOK /\ StoreTypeOK' /\ OwnedIsHanded' /\ OwnedHasRow /\ MemberTypeOK
  BY StoreNext, OwnedNext DEF HandoverInv, TypeOK, SlotInv
<1>1. pc \in BenchPoints /\ ~Finish /\ ~Deliver /\ ~PostProofs
  BY DEF AcknowledgeHandover, RecoverHandover, BenchPoints, Finish, Deliver, PostProofs
<1>2. b \in Benchmarks /\ b \notin ClosedBenchmarks
  BY <1>1, StepBench, StepIsNotClosed
<1>3. UNCHANGED <<nonces, Results, Openings, ConcludedBenchmarks, ClosedBenchmarks>>
  BY <1>0, <1>1, PoolKept, ClosedKept DEF AcknowledgeHandover, RecoverHandover, poolVars
<1>4. CASE \A c \in Benchmarks : Owned(c)' => Owned(c)
  BY <1>3, <1>4, CommittedKept DEF ContractStep, Contract!contractVars
<1>5. CASE \E c \in Benchmarks : Owned(c)' /\ ~Owned(c)
  <2>1. Owned(b)' /\ ~Owned(b) /\ \A c \in Benchmarks : c # b => (Owned(c)' <=> Owned(c))
    BY <1>0, <1>5, BecomesOwned, ImmutableNext DEF Immutable, Owned
  <2>2. assignments'[b].payload \in Payloads
    BY <1>0, <1>2, <2>1 DEF OwnedIsHanded, HandedOver, StoreTypeOK, AssignmentRow
  <2>3. \A c \in Benchmarks : Owned(c) => assignments'[c].payload = assignments[c].payload
    BY ImmutableNext DEF Immutable, HandoverInv, OwnedIsHanded, HandedOver
  <2>4. Committed' = [Committed EXCEPT ![b] = assignments'[b].payload]
    BY <1>2, <2>1, <2>3 DEF Committed, Owned
  <2>5. Committed[b] = None
    BY <1>2, <2>1 DEF Committed, Owned
  <2>6. ASSUME NEW c \in Benchmarks, Committed[c] # None PROVE c \in ClosedBenchmarks
    <3>1. Owned(c) /\ c # b
      BY <2>5, <2>6 DEF Committed, Owned
    <3>2. PICK k \in Keys : requests[k].bench = c
      BY <1>0, <3>1 DEF OwnedHasRow
    <3>3. k # step.key
      BY <1>1, <3>1, <3>2, StepBench
    <3>4. requests[k].state # "open"
      BY <1>1, <3>3, StepBench DEF SlotInv, OneOpenRow, Open
    <3>5. requests[k].state # "absent"
      BY <3>2, NoneAssumption DEF SlotInv, RowsAgree, AssignedOnce
    <3> QED
      BY <1>0, <3>2, <3>4, <3>5 DEF ClosedBenchmarks, MemberTypeOK, RequestRow
  <2>7. Contract!TakeOn(b, assignments'[b].payload)
    BY <1>2, <1>3, <2>4, <2>5, <2>6 DEF Contract!TakeOn
  <2> QED
    BY <1>2, <2>2, <2>7 DEF ContractStep, Contract!Next
<1> QED
  BY <1>4, <1>5

LEMMA ComputeRefines ==
  ASSUME HandoverInv, SlotInv, Next, SaveReady, NEW b, b = step.bench
  PROVE  ContractStep
<1>0. PoolTypeOK /\ StoreTypeOK /\ OwnedIsHanded
  BY DEF HandoverInv, TypeOK
<1>1. pc \in BenchPoints /\ ~Finish
  BY DEF SaveReady, Finish, BenchPoints, OwnedPoints, ComputePoints
<1>2. b \in Benchmarks /\ b \notin ClosedBenchmarks
  BY <1>1, StepBench, StepIsNotClosed
<1>3. UNCHANGED <<Committed, Results, Openings, ConcludedBenchmarks, ClosedBenchmarks>>
  BY <1>0, <1>1, PoolKept, ClosedKept DEF SaveReady, poolVars, Committed
<1>4. PICK n \in Nonces, leaf \in Leaves : SaveNonce(b, n, leaf)
  BY DEF SaveReady, HandoverInv, TypeOK, ComputationTypeOK
<1>5. Committed[b] # None
  BY <1>0, <1>2, <1>4 DEF SaveNonce, Committed, OwnedIsHanded, HandedOver, Owned
<1>6. CASE nonces[b][n] = None
  <2>1. Contract!Compute(b, n, leaf)
    BY <1>2, <1>3, <1>4, <1>5, <1>6 DEF SaveNonce, Contract!Compute
  <2> QED
    BY <1>2, <2>1 DEF ContractStep, Contract!Next
<1>7. CASE nonces[b][n] = leaf
  <2>1. UNCHANGED nonces
    BY <1>0, <1>2, <1>4, <1>7 DEF SaveNonce, StoreTypeOK
  <2> QED
    BY <1>3, <2>1 DEF ContractStep, Contract!contractVars
<1> QED
  BY <1>4, <1>6, <1>7 DEF SaveNonce

LEMMA DeliverRefines ==
  ASSUME HandoverInv, SlotInv, DeliveryInv, Next, Deliver, NEW b, b = step.bench
  PROVE  ContractStep
<1>0. PoolTypeOK /\ StoreTypeOK
  BY DEF HandoverInv, TypeOK
<1>1. pc \in BenchPoints /\ ~Finish /\ ~PostProofs /\ ~AcknowledgeHandover /\ ~RecoverHandover
  BY DEF Deliver, Finish, PostProofs, AcknowledgeHandover, RecoverHandover, BenchPoints, OwnedPoints
<1>2. b \in Benchmarks /\ b \notin ClosedBenchmarks
  BY <1>1, StepBench, StepIsNotClosed
<1>3. Committed' = Committed
  BY <1>0, <1>1, BecomesOwned, CommittedKept
<1>4. UNCHANGED <<nonces, Openings, ConcludedBenchmarks, ClosedBenchmarks>>
  BY <1>0, <1>1, PoolKept, ClosedKept DEF Deliver
<1>5. /\ poolBenchmarks[b].result \in {Blank, nonces[b]}
      /\ poolBenchmarks' = [poolBenchmarks EXCEPT ![b].result = nonces[b]]
  BY DEF Deliver, StoreResult
<1>6. Results' = [Results EXCEPT ![b] = nonces[b]] /\ Results[b] \in {Blank, nonces[b]}
  BY <1>0, <1>2, <1>5 DEF Results, PoolTypeOK, PoolBenchmark
<1>7. CASE Results[b] = nonces[b]
  <2>1. Results' = Results
    BY <1>2, <1>6, <1>7 DEF Results
  <2> QED
    BY <1>3, <1>4, <2>1 DEF ContractStep, Contract!contractVars
<1>8. CASE Results[b] = Blank
  <2>1. Results[b] = Contract!Nothing
    BY <1>8 DEF Blank, Contract!Nothing
  <2>2. nonces[b] \in Contract!Full
    <3>1. \A n \in Nonces : nonces[b][n] # None
      BY DEF Deliver, Missing
    <3> QED
      BY <1>0, <1>2, <3>1 DEF StoreTypeOK, Contract!Full
  <2>3. Contract!Deliver(b)
    BY <1>2, <1>3, <1>4, <1>6, <2>1, <2>2 DEF Contract!Deliver
  <2> QED
    BY <1>2, <2>3 DEF ContractStep, Contract!Next
<1> QED
  BY <1>6, <1>7, <1>8

LEMMA RevealRefines ==
  ASSUME HandoverInv, SlotInv, DeliveryInv, Next, PostProofs, NEW b, b = step.bench
  PROVE  ContractStep
<1>0. PoolTypeOK /\ StoreTypeOK
  BY DEF HandoverInv, TypeOK
<1>1. pc \in BenchPoints /\ ~Finish /\ ~Deliver /\ ~AcknowledgeHandover /\ ~RecoverHandover
  BY DEF Deliver, Finish, PostProofs, AcknowledgeHandover, RecoverHandover, BenchPoints, OwnedPoints
<1>2. b \in Benchmarks /\ b \notin ClosedBenchmarks
  BY <1>1, StepBench, StepIsNotClosed
<1>3. Committed' = Committed
  BY <1>0, <1>1, BecomesOwned, CommittedKept
<1>4. UNCHANGED <<nonces, Results, ConcludedBenchmarks, ClosedBenchmarks>>
  BY <1>0, <1>1, PoolKept, ClosedKept DEF PostProofs
<1> DEFINE opening == SampledOpening(b)
<1>5. /\ poolBenchmarks[b].result # Blank
      /\ poolBenchmarks[b].proofs \in {Blank, opening}
      /\ poolBenchmarks' = [poolBenchmarks EXCEPT ![b].proofs = opening]
  BY DEF PostProofs, StoreProofs
<1>6. opening = [n \in Nonces |-> IF n \in Sampled(b) THEN Results[b][n] ELSE None]
  <2>1. Results[b] = nonces[b]
    BY <1>2, <1>5 DEF Results, DeliveryInv, EvidenceRetained
  <2> QED
    BY <2>1 DEF SampledOpening, Opening
<1> HIDE DEF opening
<1>7. Openings' = [Openings EXCEPT ![b] = opening] /\ Openings[b] \in {Blank, opening}
  BY <1>0, <1>2, <1>5 DEF Openings, PoolTypeOK, PoolBenchmark
<1>8. CASE Openings[b] = opening
  <2>1. Openings' = Openings
    BY <1>2, <1>7, <1>8 DEF Openings
  <2> QED
    BY <1>3, <1>4, <2>1 DEF ContractStep, Contract!contractVars
<1>9. CASE Openings[b] = Blank /\ Openings[b] # opening
  <2>1. Openings[b] = Contract!Nothing /\ Results[b] # Contract!Nothing
    BY <1>2, <1>5, <1>9 DEF Blank, Contract!Nothing, Results
  <2>2. Sampled(b) # {}
    BY <1>6, <1>9 DEF Blank
  <2>3. Sampled(b) \in SUBSET Nonces
    BY <1>0, <1>2 DEF Sampled, PoolTypeOK, PoolBenchmark
  <2>4. Contract!Reveal(b, Sampled(b))
    BY <1>2, <1>3, <1>4, <1>6, <1>7, <2>1, <2>2 DEF Contract!Reveal
  <2> QED
    BY <1>2, <2>3, <2>4 DEF ContractStep, Contract!Next
<1> QED
  BY <1>7, <1>8, <1>9

LEMMA ConcludeRefines ==
  ASSUME HandoverInv, Next, PoolActs
  PROVE  ContractStep
<1>0. PoolTypeOK
  BY DEF HandoverInv, TypeOK
<1>1. UNCHANGED <<assignments, nonces, requests, pc>>
  BY DEF PoolActs, KeepDurable, durable
<1>2. UNCHANGED <<Committed, ClosedBenchmarks>>
  BY <1>1 DEF Committed, ClosedBenchmarks
<1>3. UNCHANGED <<Results, Openings>>
  <2>1. ASSUME Deliver \/ PostProofs PROVE pc' # pc
    BY <2>1 DEF Deliver, PostProofs, Goto, ReplyLost, Raise, ReturnNow, Return
  <2> QED
    BY <1>0, <1>1, <2>1, PoolKept
<1>4. ASSUME NEW b \in Benchmarks, NEW outcome \in Outcomes, Conclude(b, outcome)
      PROVE  ContractStep
  <2>1. ~Concluded(b)
    BY <1>4 DEF Conclude, Concluded, TERMINAL
  <2>2. ConcludedBenchmarks' = ConcludedBenchmarks \cup {b}
    <3>1. /\ poolBenchmarks'[b].state = outcome
          /\ \A c \in Benchmarks : c # b => poolBenchmarks'[c] = poolBenchmarks[c]
      BY <1>0, <1>4 DEF Conclude, PoolTypeOK, PoolBenchmark
    <3> QED
      BY <3>1, OutcomesAssumption DEF ConcludedBenchmarks, Concluded
  <2>3. Contract!Conclude(b)
    BY <1>1, <1>2, <1>3, <2>1, <2>2 DEF Contract!Conclude, ConcludedBenchmarks
  <2> QED
    BY <2>3 DEF ContractStep, Contract!Next
<1>5. ASSUME ConcludedBenchmarks' = ConcludedBenchmarks PROVE ContractStep
  BY <1>1, <1>2, <1>3, <1>5 DEF ContractStep, Contract!contractVars
<1>6. ASSUME \A b \in Benchmarks : Concluded(b)' <=> Concluded(b) PROVE ContractStep
  BY <1>5, <1>6 DEF ConcludedBenchmarks
<1> USE DEF Concluded, TERMINAL, PoolTypeOK, PoolBenchmark
<1>7. ASSUME NEW k \in Keys, NEW b \in Benchmarks, Assign(k, b) PROVE ContractStep
  BY <1>0, <1>6, <1>7 DEF Assign
<1>8. ASSUME NEW k \in Keys, Age(k) \/ Expire(k) \/ CloseAssigned(k) PROVE ContractStep
  BY <1>6, <1>8 DEF Age, Expire, CloseAssigned
<1>9. ASSUME NEW b \in Benchmarks, NEW p \in Payloads, Reissue(b, p) PROVE ContractStep
  BY <1>0, <1>6, <1>9 DEF Reissue
<1>10. ASSUME NEW b \in Benchmarks, NEW sampled \in SUBSET Nonces, Sample(b, sampled)
       PROVE  ContractStep
  BY <1>0, <1>6, <1>10 DEF Sample
<1>11. ASSUME ToggleEnabled \/ \E r \in Releases : ChangeRelease(r) PROVE ContractStep
  BY <1>6, <1>11 DEF ToggleEnabled, ChangeRelease
<1> QED
  BY <1>4, <1>7, <1>8, <1>9, <1>10, <1>11 DEF PoolActs, PoolStep

LEMMA CloseRefines ==
  ASSUME HandoverInv, SlotInv, Next, Finish
  PROVE  ContractStep
<1>0. /\ StoreTypeOK /\ PoolTypeOK /\ MemberTypeOK /\ ProcessTypeOK /\ Located /\ Leaving
      /\ RowsAgree /\ OneOpenRow
  BY DEF HandoverInv, TypeOK, SlotInv
<1>1. pc = "finish" /\ ~AcknowledgeHandover /\ ~RecoverHandover
  BY DEF Finish, AcknowledgeHandover, RecoverHandover
<1>2. UNCHANGED <<nonces, Results, Openings, ConcludedBenchmarks>>
  BY <1>0, PoolKept DEF Finish, poolVars
<1>3. Committed' = Committed
  BY <1>0, <1>1, BecomesOwned, CommittedKept
<1>4. RowFinished
  BY <1>0, RowsMove
<1>5. Open(step.key) /\ step.bench \in {None, requests[step.key].bench}
  BY <1>0, <1>1 DEF OneOpenRow, RowPoints, Control
<1>6. CASE requests[step.key].bench = None
  <2>1. ClosedBenchmarks' = ClosedBenchmarks
    BY <1>4, <1>5, <1>6, NoneAssumption DEF ClosedBenchmarks, RowFinished, Open
  <2> QED
    BY <1>2, <1>3, <2>1 DEF ContractStep, Contract!contractVars
<1>7. ASSUME NEW b \in Benchmarks, requests[step.key].bench = b PROVE ContractStep
  <2>1. b # None /\ poolRequests[step.key].bench = b
    BY <1>0, <1>4, <1>7, NoneAssumption DEF RowsAgree, RowFinished
  <2>2. step.bench = b
    BY <1>0, <1>1, <1>5, <1>7, <2>1, NoneAssumption DEF Leaving
  <2>3. b \in ConcludedBenchmarks
    BY <1>0, <1>1, <2>1, <2>2 DEF Leaving, Outcome, ConcludedBenchmarks, Concluded
  <2>4. \A k \in Keys : requests[k].bench = b => k = step.key
    BY <1>4, <1>7, <2>1 DEF SlotInv, RowsAgree, AssignedOnce, RowFinished
  <2>5. b \notin ClosedBenchmarks
    BY <1>5, <2>4 DEF ClosedBenchmarks, Open
  <2>6. ClosedBenchmarks' = ClosedBenchmarks \cup {b}
    BY <1>4, <1>5, <1>7 DEF ClosedBenchmarks, RowFinished, Open
  <2>7. Contract!Close(b)
    BY <1>2, <1>3, <2>3, <2>5, <2>6 DEF Contract!Close
  <2> QED
    BY <2>7 DEF ContractStep, Contract!Next
<1> QED
  BY <1>0, <1>4, <1>6, <1>7 DEF MemberTypeOK, RequestRow, RowFinished

\* Every other step leaves the contract alone.
LEMMA OthersRefine ==
  ASSUME HandoverInv, SlotInv, Next,
         ~AcknowledgeHandover, ~RecoverHandover, ~SaveReady, ~Deliver, ~PostProofs, ~PoolActs, ~Finish
  PROVE  ContractStep
<1>0. PoolTypeOK /\ StoreTypeOK
  BY DEF HandoverInv, TypeOK
<1>1. UNCHANGED nonces
  BY EvidenceFrame DEF evidenceVars, BenchmarkOffered
<1>2. Committed' = Committed
  BY <1>0, BecomesOwned, CommittedKept
<1>3. ClosedBenchmarks' = ClosedBenchmarks
  BY ClosedKept
<1>4. UNCHANGED <<Results, Openings, ConcludedBenchmarks>>
  BY <1>0, PoolFrame, PoolKept DEF poolVars
<1> QED
  BY <1>1, <1>2, <1>3, <1>4 DEF ContractStep, Contract!contractVars

LEMMA RefineNext == HandoverInv /\ SlotInv /\ DeliveryInv /\ [Next]_vars => ContractStep
<1>1. ASSUME HandoverInv, SlotInv, DeliveryInv, Next PROVE ContractStep
  BY <1>1, TakeOnRefines, ComputeRefines, DeliverRefines, RevealRefines, ConcludeRefines,
     CloseRefines, OthersRefine
<1>2. ASSUME UNCHANGED vars PROVE ContractStep
  BY <1>2 DEF vars, durable, poolVars, ContractStep, Contract!contractVars, Committed, Results,
     Openings, ConcludedBenchmarks, ClosedBenchmarks, Concluded
<1> QED
  BY <1>1, <1>2

\* Through lost replies, failed calls, crashes and restarts the worker takes on
\* one benchmark at a time, commits to one payload, computes each nonce once,
\* delivers all outputs, opens sampled ones and closes the benchmark after the
\* pool concluded it, each at most once and in this order (runner.py:37-148).
THEOREM Refinement == Spec => ImplementsWholeBenchmark
  BY RefineInit, RefineNext, HandoverAlways, SlotAlways, DeliveryAlways, PTL
     DEF Spec, ImplementsWholeBenchmark, Contract!Spec, ContractStep
=============================================================================
