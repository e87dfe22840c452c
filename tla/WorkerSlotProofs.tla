-------------------------- MODULE WorkerSlotProofs --------------------------
(***************************************************************************)
(* The member's slot, for every value of the constants: one live request,  *)
(* a row that is freed only when the pool is done with it, and no container*)
(* without its open row but those that Docker made late or did not show.   *)
(***************************************************************************)
EXTENDS WorkerProofs

-----------------------------------------------------------------------------
(* What a step may do to the pool's rows.                                  *)

\* A request is queued by its POST, assigned a free benchmark, or closed.
RequestMoves(k) ==
    \/ /\ poolRequests'[k].state = poolRequests[k].state
       /\ poolRequests'[k].bench = poolRequests[k].bench
    \/ /\ pc = "post_request" /\ k = step.key
       /\ poolRequests[k].state = "unknown" /\ poolRequests'[k].state = "queued"
       /\ poolRequests'[k].bench = poolRequests[k].bench
    \/ /\ poolRequests[k].state \in {"queued", "assigned"} /\ poolRequests'[k].state = "expired"
       /\ poolRequests'[k].bench = poolRequests[k].bench
    \/ /\ poolRequests[k].state = "queued" /\ poolRequests'[k].state = "assigned"
       /\ poolRequests'[k].bench \in Benchmarks
       /\ poolBenchmarks[poolRequests'[k].bench].state = "free"
       /\ poolBenchmarks'[poolRequests'[k].bench].state = "accepted"
       /\ \A j \in Keys : j # k => poolRequests'[j] = poolRequests[j]
       /\ UNCHANGED <<durable, pc, step>>

BenchmarkMoves(b) ==
    \/ poolBenchmarks'[b].state = poolBenchmarks[b].state
    \/ poolBenchmarks[b].state = "accepted" /\ poolBenchmarks'[b].state \in TERMINAL
    \/ poolBenchmarks[b].state = "free" /\ poolBenchmarks'[b].state = "accepted"

\* The calls change one row of the pool, and no state of a benchmark.
LEMMA CallsMove ==
  ASSUME PoolTypeOK, Next,
         PostRequest \/ RefreshRequest \/ AcknowledgeHandover \/ Deliver \/ PostProofs
  PROVE  /\ \A k \in Keys : RequestMoves(k)
         /\ \A b \in Benchmarks : poolBenchmarks'[b].state = poolBenchmarks[b].state
<1>1. CASE PostRequest \/ RefreshRequest
  <2>1. UNCHANGED poolBenchmarks
    BY <1>1 DEF PostRequest, RefreshRequest, Receive, Refresh
  <2>2. ASSUME NEW k \in Keys PROVE RequestMoves(k)
    <3>1. CASE PostRequest
      BY <3>1 DEF PostRequest, Receive, RequestMoves, PoolTypeOK, PoolRequest
    <3>2. CASE RefreshRequest
      BY <3>2 DEF RefreshRequest, Refresh, RequestMoves, PoolTypeOK, PoolRequest
    <3> QED
      BY <1>1, <3>1, <3>2
  <2> QED
    BY <2>1, <2>2
<1>2. CASE AcknowledgeHandover \/ Deliver \/ PostProofs
  <2>1. UNCHANGED poolRequests
    BY <1>2 DEF AcknowledgeHandover, Deliver, PostProofs, HandOver, StoreResult, StoreProofs
  <2>2. \A b \in Benchmarks : poolBenchmarks'[b].state = poolBenchmarks[b].state
    BY <1>2 DEF AcknowledgeHandover, Deliver, PostProofs, HandOver, StoreResult, StoreProofs,
       PoolTypeOK, PoolBenchmark
  <2> QED
    BY <2>1, <2>2 DEF RequestMoves
<1> QED
  BY <1>1, <1>2

LEMMA PoolMoves ==
  PoolTypeOK /\ Next => /\ \A k \in Keys : RequestMoves(k)
                        /\ \A b \in Benchmarks : BenchmarkMoves(b)
<1> DEFINE Moved == /\ \A k \in Keys : RequestMoves(k)
                    /\ \A b \in Benchmarks : BenchmarkMoves(b)
<1> SUFFICES ASSUME PoolTypeOK, Next PROVE Moved
  OBVIOUS
<1>1. ASSUME UNCHANGED poolVars PROVE Moved
  BY <1>1 DEF poolVars, RequestMoves, BenchmarkMoves
<1>2. ASSUME PoolActs PROVE Moved
  <2> USE <1>2 DEF PoolTypeOK
  <2>1. UNCHANGED <<durable, pc, step>>
    BY DEF PoolActs, KeepDurable
  <2>2. ASSUME NEW k \in Keys, NEW b \in Benchmarks, Assign(k, b) PROVE Moved
    <3>1. /\ poolRequests'[k].state = "assigned" /\ poolRequests'[k].bench = b
          /\ \A j \in Keys : j # k => poolRequests'[j] = poolRequests[j]
      BY <2>2 DEF Assign
    <3>2. /\ poolBenchmarks'[b].state = "accepted"
          /\ \A c \in Benchmarks : c # b => poolBenchmarks'[c] = poolBenchmarks[c]
      BY <2>2 DEF Assign, PoolBenchmark
    <3>3. poolRequests[k].state = "queued" /\ poolBenchmarks[b].state = "free"
      BY <2>2 DEF Assign
    <3> QED
      BY <2>1, <3>1, <3>2, <3>3 DEF RequestMoves, BenchmarkMoves
  <2>3. ASSUME NEW k \in Keys, Age(k) \/ Expire(k) \/ CloseAssigned(k) PROVE Moved
    <3>1. UNCHANGED poolBenchmarks
      BY <2>3 DEF Age, Expire, CloseAssigned
    <3>2. \A j \in Keys : RequestMoves(j)
      BY <2>3 DEF Age, Expire, CloseAssigned, RequestMoves, PoolRequest
    <3> QED
      BY <3>1, <3>2 DEF BenchmarkMoves
  <2>4. ASSUME UNCHANGED poolRequests, \A b \in Benchmarks : BenchmarkMoves(b) PROVE Moved
    BY <2>4 DEF RequestMoves
  <2>5. ASSUME NEW b \in Benchmarks, NEW p \in Payloads, Reissue(b, p) PROVE Moved
    BY <2>4, <2>5 DEF Reissue, BenchmarkMoves, PoolBenchmark
  <2>6. ASSUME NEW b \in Benchmarks, NEW sampled \in SUBSET Nonces, Sample(b, sampled) PROVE Moved
    BY <2>4, <2>6 DEF Sample, BenchmarkMoves, PoolBenchmark
  <2>7. ASSUME NEW b \in Benchmarks, NEW outcome \in Outcomes, Conclude(b, outcome) PROVE Moved
    BY <2>4, <2>7, OutcomesAssumption DEF Conclude, BenchmarkMoves, PoolBenchmark
  <2>8. ASSUME ToggleEnabled \/ \E r \in Releases : ChangeRelease(r) PROVE Moved
    BY <2>4, <2>8 DEF ToggleEnabled, ChangeRelease, BenchmarkMoves
  <2> HIDE DEF Moved, PoolTypeOK
  <2> QED
    BY <2>2, <2>3, <2>5, <2>6, <2>7, <2>8 DEF PoolActs, PoolStep
<1>3. ASSUME PostRequest \/ RefreshRequest \/ AcknowledgeHandover \/ Deliver \/ PostProofs
      PROVE  Moved
  BY <1>3, CallsMove DEF BenchmarkMoves
<1> QED
  BY <1>1, <1>2, <1>3, PoolFrame

-----------------------------------------------------------------------------
(* What a step may do to the member's rows and to its own locals.          *)

StaysOnRow ==
    /\ pc \in RowPoints /\ pc' \in RowPoints
    /\ UNCHANGED step
    /\ pc' = "post_request" => ReleaseMatches

PicksRow(k) ==
    /\ k \in Unfinished
    /\ pc' \in {"check_post", "get_request"}
    /\ step'.key = k /\ step'.bench = None
    /\ UNCHANGED requests

LEMMA StepMoves ==
  Next => \/ UNCHANGED <<pc, step, requests>>
          \/ pc' \notin RowPoints \cup {"check_new"} /\ (UNCHANGED requests \/ PostRequest \/ Finish)
          \/ pc' = "check_new" /\ Unfinished = {} /\ UNCHANGED requests
          \/ \E k \in Keys : PicksRow(k)
          \/ OfferWork \/ RequestAssigned
          \/ StaysOnRow /\ (UNCHANGED requests \/ PostRequest)
<1> SUFFICES ASSUME Next
             PROVE  \/ UNCHANGED <<pc, step, requests>>
                    \/ /\ pc' \notin RowPoints \cup {"check_new"}
                       /\ UNCHANGED requests \/ PostRequest \/ Finish
                    \/ pc' = "check_new" /\ Unfinished = {} /\ UNCHANGED requests
                    \/ \E k \in Keys : PicksRow(k)
                    \/ OfferWork \/ RequestAssigned
                    \/ StaysOnRow /\ (UNCHANGED requests \/ PostRequest)
  OBVIOUS
<1> USE DEF StaysOnRow, RowPoints, Control, Goto, Raise, RaiseNow, Return, ReturnNow, ReplyLost, Fault,
            KeepDurable, durable, KeepEvidence
<1>1. CASE StepIdle \/ StepNew
  BY <1>1 DEF StepIdle, StepNew, Enter
<1>2. CASE StepUnlinked \/ StepLinked
  BY <1>2 DEF StepUnlinked, StepLinked, Enter, PicksRow, Unfinished
<1>3. CASE CheckBeforePost \/ ReleaseRefused \/ PostRequest
  BY <1>3 DEF CheckBeforePost, ReleaseRefused, PostRequest
<1>4. CASE RequestClosed \/ RequestQueued \/ RefreshRequest
  BY <1>4 DEF RequestClosed, RequestQueued, RefreshRequest
<1>5. CASE BenchmarkGone \/ BenchmarkOffered \/ AssignmentChanged
  BY <1>5 DEF BenchmarkGone, BenchmarkOffered, AssignmentChanged, AfterHandover, AfterEvidence
<1>6. CASE AcknowledgeHandover \/ RecoverHandover
  BY <1>6 DEF AcknowledgeHandover, RecoverHandover, AfterHandover, AfterEvidence
<1>7. CASE Prepare \/ Submit \/ Wait \/ SaveReady \/ NonceFailed \/ Shutdown
  BY <1>7 DEF Prepare, Submit, Wait, SaveReady, NonceFailed, Shutdown, AfterEvidence
<1>8. CASE Deliver \/ DeliveredGone \/ AwaitVerification \/ PostProofs
  BY <1>8 DEF Deliver, DeliveredGone, AwaitVerification, PostProofs
<1>9. CASE ReleaseContainer \/ Finish
  BY <1>9 DEF ReleaseContainer, Finish
<1>10. CASE CallFails \/ Crash \/ Launch
  BY <1>10 DEF CallFails, Crash, Launch
<1>11. CASE RequestDrain \/ CreatedLate \/ PoolActs \/ \E n \in Nonces : NonceDone(n) \/ NonceFails(n)
  BY <1>11 DEF RequestDrain, CreatedLate, PoolActs, NonceDone, NonceFails
<1> QED
  BY <1>1, <1>2, <1>3, <1>4, <1>5, <1>6, <1>7, <1>8, <1>9, <1>10, <1>11 DEF Next, RunnerStep

\* The rows after a step: which row is edited, and how.
RowOpened == \E k \in Keys :
    /\ requests[k].state = "absent" /\ requests'[k].state = "open"
    /\ requests'[k].bench = requests[k].bench
    /\ \A j \in Keys : j # k => requests'[j] = requests[j]
    /\ step'.key = k /\ step'.bench = step.bench

RowNamed ==
    /\ step.key \in Keys
    /\ requests'[step.key].state = requests[step.key].state
    /\ requests'[step.key].bench = poolRequests[step.key].bench
    /\ \A j \in Keys : j # step.key => requests'[j] = requests[j]

RowFinished ==
    /\ step.key \in Keys
    /\ requests'[step.key].state = "finished"
    /\ requests'[step.key].bench = requests[step.key].bench
    /\ \A j \in Keys : j # step.key => requests'[j] = requests[j]

LEMMA RowsMove ==
  ASSUME MemberTypeOK, ProcessTypeOK, Located
  PROVE  /\ OfferWork => RowOpened
         /\ PostRequest => UNCHANGED requests \/ RowNamed
         /\ RequestAssigned => RowNamed
         /\ Finish => RowFinished
         /\ Next => UNCHANGED requests \/ OfferWork \/ PostRequest \/ RequestAssigned \/ Finish
<1>0. pc \in RowPoints => step.key \in Keys
  BY DEF Located
<1> USE <1>0 DEF RowPoints, Control, MemberTypeOK, RequestRow
<1>1. ASSUME OfferWork PROVE RowOpened
  BY <1>1 DEF OfferWork, RowOpened, ProcessTypeOK, StepLocals
<1>2. ASSUME PostRequest PROVE UNCHANGED requests \/ RowNamed
  BY <1>2 DEF PostRequest, RowNamed
<1>3. ASSUME RequestAssigned PROVE RowNamed
  BY <1>3 DEF RequestAssigned, RowNamed
<1>4. ASSUME Finish PROVE RowFinished
  BY <1>4 DEF Finish, RowFinished
<1> QED
  BY <1>1, <1>2, <1>3, <1>4, MemberFrame DEF Prepare, ReleaseContainer, Crash, Launch, RequestDrain,
     CreatedLate, KeepDurable, durable

\* A benchmark becomes the member's own only at the two calls that save the
\* handover of the step's benchmark.
LEMMA BecomesOwned ==
  ASSUME StoreTypeOK, Next, NEW b \in Benchmarks, ~Owned(b), Owned(b)'
  PROVE  (AcknowledgeHandover \/ RecoverHandover) /\ b = step.bench
<1> USE DEF Owned, StoreTypeOK, AssignmentRow
<1>1. ASSUME \/ UNCHANGED evidenceVars \/ SaveReady PROVE FALSE
  BY <1>1 DEF SaveReady, evidenceVars
<1>2. ASSUME BenchmarkOffered PROVE FALSE
  BY <1>2 DEF BenchmarkOffered, SaveAssignment
<1>3. ASSUME Deliver \/ PostProofs PROVE FALSE
  BY <1>3 DEF Deliver, PostProofs, MarkResultSent, MarkProofsSent
<1>4. ASSUME Finish PROVE FALSE
  BY <1>4 DEF Finish
<1>5. ASSUME AcknowledgeHandover \/ RecoverHandover PROVE b = step.bench
  BY <1>5 DEF AcknowledgeHandover, RecoverHandover, Acknowledge
<1> QED
  BY <1>1, <1>2, <1>3, <1>4, <1>5, EvidenceFrame

-----------------------------------------------------------------------------
(* No action breaks SlotInv.                                               *)

LEMMA SlotInit == Init => SlotInv
<1> SUFFICES ASSUME Init PROVE SlotInv
  OBVIOUS
<1>1. \A k \in Keys : /\ requests[k].state = "absent" /\ requests[k].bench = None
                      /\ poolRequests[k].state = "unknown" /\ poolRequests[k].bench = None
  BY DEF Init, PoolInit
<1>2. /\ \A b \in Benchmarks : ~Owned(b)
      /\ containers = {} /\ ordered = {} /\ pc = "down"
  BY DEF Init, StoreInit, NoRow, Owned
<1> QED
  BY <1>1, <1>2 DEF SlotInv, RowsAgree, AssignedOnce, OneOpenRow, OwnedHasRow, ContainersOwned,
     OfferChecked, FinishedIsConcluded, NoOrphanContainer, Open, RowPoints

\* The benchmark of a request at the pool never changes.
LEMMA BenchKept ==
  ASSUME PoolTypeOK, AssignedOnce, Next, NEW k \in Keys, poolRequests[k].bench # None
  PROVE  poolRequests'[k].bench = poolRequests[k].bench
  BY PoolMoves DEF RequestMoves, AssignedOnce

\* Nor does the benchmark of a row.
LEMMA RowKept ==
  ASSUME HandoverInv, RowsAgree, Next, NEW k \in Keys, requests[k].bench # None
  PROVE  requests'[k].bench = requests[k].bench
<1>1. MemberTypeOK /\ ProcessTypeOK /\ Located
  BY DEF HandoverInv, TypeOK
<1>2. requests[k].bench = poolRequests[k].bench
  BY DEF RowsAgree
<1> QED
  BY <1>1, <1>2, RowsMove DEF RowOpened, RowNamed, RowFinished

LEMMA RowsAgreeNext == HandoverInv /\ SlotInv /\ Next => RowsAgree'
<1> SUFFICES ASSUME HandoverInv, SlotInv, Next, NEW k \in Keys
             PROVE  /\ requests'[k].state = "absent" => poolRequests'[k].state = "unknown"
                    /\ requests'[k].bench \in {None, poolRequests'[k].bench}
  BY DEF RowsAgree
<1>0. PoolTypeOK /\ MemberTypeOK /\ ProcessTypeOK /\ Located /\ RowsAgree /\ AssignedOnce /\ OneOpenRow
  BY DEF HandoverInv, TypeOK, SlotInv
<1>1. requests'[k].state = "absent" => requests[k].state = "absent"
  <2>1. OfferWork \/ PostRequest \/ RequestAssigned \/ Finish \/ UNCHANGED requests
    BY <1>0, RowsMove
  <2> QED
    BY <1>0, <2>1, RowsMove DEF RowOpened, RowNamed, RowFinished
<1>2. requests[k].state = "absent" => ~(pc = "post_request" /\ k = step.key)
  BY <1>0 DEF OneOpenRow, Open, RowPoints, Control
<1>3. requests'[k].bench \in {None, poolRequests[k].bench}
  BY <1>0, RowsMove DEF RowsAgree, RowOpened, RowNamed, RowFinished
<1>4. requests'[k].bench \in {None, poolRequests'[k].bench}
  BY <1>0, <1>3, BenchKept
<1>5. requests'[k].state = "absent" => poolRequests'[k].state = "unknown"
  BY <1>0, <1>1, <1>2, PoolMoves DEF RequestMoves, RowsAgree
<1> QED
  BY <1>4, <1>5

LEMMA AssignedOnceNext == HandoverInv /\ SlotInv /\ Next => AssignedOnce'
<1> SUFFICES ASSUME PoolTypeOK, AssignedOnce, Next, NEW k \in Keys, poolRequests'[k].bench # None
             PROVE  /\ poolRequests'[k].state \notin {"unknown", "queued"}
                    /\ poolBenchmarks'[poolRequests'[k].bench].state # "free"
                    /\ \A j \in Keys : poolRequests'[j].bench = poolRequests'[k].bench => j = k
  BY DEF HandoverInv, TypeOK, SlotInv, AssignedOnce
<1>0. \A j \in Keys : poolRequests[j].bench \in Benchmarks \cup {None}
  BY DEF PoolTypeOK, PoolRequest
<1>1. /\ \A j \in Keys : RequestMoves(j)
      /\ \A b \in Benchmarks : BenchmarkMoves(b)
  BY PoolMoves
<1>2. \A b \in Benchmarks : poolBenchmarks[b].state # "free" => poolBenchmarks'[b].state # "free"
  BY <1>1 DEF BenchmarkMoves, TERMINAL
<1>3. ASSUME NEW j \in Keys, poolRequests[j].bench = None, poolRequests'[j].bench # None
      PROVE  /\ poolRequests'[j].bench \in Benchmarks /\ poolRequests'[j].state = "assigned"
             /\ poolBenchmarks[poolRequests'[j].bench].state = "free"
             /\ poolBenchmarks'[poolRequests'[j].bench].state = "accepted"
             /\ \A i \in Keys : i # j => poolRequests'[i] = poolRequests[i]
  BY <1>1, <1>3 DEF RequestMoves
<1>4. CASE poolRequests[k].bench # None
  <2>1. poolRequests'[k].bench = poolRequests[k].bench
    BY <1>4, BenchKept
  <2>2. poolRequests'[k].state \notin {"unknown", "queued"}
    BY <1>1, <1>4 DEF RequestMoves, AssignedOnce
  <2>3. poolBenchmarks'[poolRequests[k].bench].state # "free"
    BY <1>0, <1>2, <1>4 DEF AssignedOnce
  <2>4. ASSUME NEW j \in Keys, poolRequests'[j].bench = poolRequests[k].bench PROVE j = k
    <3>1. CASE poolRequests[j].bench = None
      BY <1>3, <1>4, <2>4, <3>1 DEF AssignedOnce
    <3>2. CASE poolRequests[j].bench # None
      BY <1>4, <2>4, <3>2, BenchKept DEF AssignedOnce
    <3> QED
      BY <3>1, <3>2
  <2> QED
    BY <2>1, <2>2, <2>3, <2>4
<1>5. CASE poolRequests[k].bench = None
  BY <1>3, <1>5 DEF AssignedOnce
<1> QED
  BY <1>4, <1>5

LEMMA OneOpenRowNext == HandoverInv /\ SlotInv /\ Next => OneOpenRow'
<1> SUFFICES ASSUME HandoverInv, SlotInv, Next PROVE OneOpenRow'
  OBVIOUS
<1>0. MemberTypeOK /\ ProcessTypeOK /\ Located /\ Leaving /\ OneOpenRow /\ RowsAgree
  BY DEF HandoverInv, TypeOK, SlotInv
<1>k. pc \in RowPoints => step.key \in Keys
  BY <1>0 DEF Located
<1>r. {"check_post", "post_request", "get_request", "get_bench", "finish"} \subseteq RowPoints
      /\ "check_new" \notin RowPoints
  BY DEF RowPoints, Control
<1> USE DEF OneOpenRow, Open
<1>1. CASE UNCHANGED <<pc, step, requests>>
  BY <1>0, <1>1
<1>2. CASE pc' \notin RowPoints \cup {"check_new"} /\ (UNCHANGED requests \/ PostRequest \/ Finish)
  <2>1. \A k \in Keys : Open(k)' => Open(k)
    BY <1>0, <1>2, RowsMove DEF RowNamed, RowFinished
  <2> QED
    BY <1>0, <1>2, <2>1
<1>3. CASE pc' = "check_new" /\ Unfinished = {} /\ UNCHANGED requests
  <2>1. \A k \in Keys : ~Open(k)
    <3> SUFFICES ASSUME NEW k \in Keys, Open(k) PROVE FALSE
      OBVIOUS
    <3>1. \A j \in Keys : Open(j) => k <= j
      BY <1>0 DEF Keys
    <3> QED
      BY <1>3, <3>1 DEF Unfinished
  <2> QED
    BY <1>0, <1>3, <1>r, <2>1
<1>4. ASSUME NEW k \in Keys, PicksRow(k) PROVE OneOpenRow'
  BY <1>0, <1>4, <1>r DEF PicksRow, Unfinished
<1>5. CASE OfferWork
  <2>1. RowOpened
    BY <1>0, <1>5, RowsMove
  <2>2. pc = "check_new" /\ pc' = "check_post" /\ step.bench = None
    BY <1>0, <1>5 DEF OfferWork, Leaving
  <2>3. PICK k \in Keys :
          /\ requests'[k].state = "open" /\ \A j \in Keys : j # k => requests'[j] = requests[j]
          /\ step'.key = k /\ step'.bench = None
    BY <2>1, <2>2 DEF RowOpened
  <2> QED
    BY <1>0, <2>2, <2>3
<1>6. CASE RequestAssigned
  <2>1. RowNamed
    BY <1>0, <1>6, RowsMove
  <2>2. pc \in RowPoints /\ pc' = "get_bench"
    BY <1>6, <1>r DEF RequestAssigned
  <2>3. step'.key = step.key /\ step'.bench = poolRequests[step.key].bench
    BY <1>0, <1>6 DEF RequestAssigned, ProcessTypeOK, StepLocals
  <2>4. \A k \in Keys : Open(k)' => Open(k)
    BY <2>1 DEF RowNamed
  <2>5. Open(step.key)'
    BY <1>0, <2>1, <2>2, <2>3 DEF RowNamed
  <2> QED
    BY <1>0, <2>1, <2>2, <2>3, <2>4, <2>5 DEF RowNamed
<1>7. CASE StaysOnRow /\ (UNCHANGED requests \/ PostRequest)
  <2>1. \A k \in Keys : Open(k)' <=> Open(k)
    BY <1>0, <1>7, RowsMove DEF RowNamed
  <2>2. step.bench \in {None, requests'[step.key].bench}
    BY <1>0, <1>7, <1>k, RowKept DEF StaysOnRow
  <2> QED
    BY <1>0, <1>7, <1>k, <1>r, <2>1, <2>2 DEF StaysOnRow
<1> QED
  BY <1>1, <1>2, <1>3, <1>4, <1>5, <1>6, <1>7, StepMoves

LEMMA OwnedHasRowNext == HandoverInv /\ SlotInv /\ Next => OwnedHasRow'
<1> SUFFICES ASSUME HandoverInv, SlotInv, Next, NEW b \in Benchmarks, Owned(b)'
             PROVE  \E k \in Keys : requests'[k].bench = b
  BY DEF OwnedHasRow
<1>0. StoreTypeOK /\ Located /\ RowsAgree /\ OneOpenRow
  BY DEF HandoverInv, TypeOK, SlotInv
<1>1. b # None
  BY NoneAssumption
<1>2. \E k \in Keys : requests[k].bench = b
  <2>1. CASE Owned(b)
    BY <2>1 DEF SlotInv, OwnedHasRow
  <2>2. CASE ~Owned(b)
    <3>1. (AcknowledgeHandover \/ RecoverHandover) /\ b = step.bench
      BY <1>0, <2>2, BecomesOwned
    <3>2. pc \in RowPoints
      BY <3>1 DEF AcknowledgeHandover, RecoverHandover, RowPoints, Control
    <3> QED
      BY <1>0, <1>1, <3>1, <3>2 DEF OneOpenRow, Located
  <2> QED
    BY <2>1, <2>2
<1> QED
  BY <1>0, <1>1, <1>2, RowKept

\* The benchmark of a step that has one is the benchmark of its open row.
LEMMA StepBench ==
  ASSUME HandoverInv, SlotInv, pc \in BenchPoints
  PROVE  /\ step.key \in Keys /\ Open(step.key) /\ step.bench \in Benchmarks
         /\ requests[step.key].bench = step.bench
         /\ containers \ untracked \subseteq {step.bench}
<1>1. Located /\ MemberTypeOK /\ OneOpenRow /\ NoOrphanContainer
  BY DEF HandoverInv, TypeOK, SlotInv
<1>2. pc \in RowPoints
  BY DEF BenchPoints, OwnedPoints, ComputePoints, RowPoints, Control
<1>3. step.key \in Keys /\ Open(step.key) /\ step.bench \in Benchmarks
  BY <1>1, <1>2 DEF Located, OneOpenRow
<1>4. requests[step.key].bench = step.bench
  BY <1>1, <1>2, <1>3, NoneAssumption DEF OneOpenRow
<1>5. containers \ untracked \subseteq {step.bench}
  BY <1>1, <1>3, <1>4 DEF NoOrphanContainer, OneOpenRow
<1> QED
  BY <1>3, <1>4, <1>5

\* What Docker does in a step, and for which benchmark.
DockerMoves(b) ==
    \/ Prepare /\ b = step.bench
       /\ (Stands(b) \/ IsRemoved(b) \/ IsOrdered(b) \/ Appears(b))
    \/ ReleaseContainer /\ b = step.bench /\ (IsRemoved(b) \/ IsNotSeen(b))
    \/ CreatedLate /\ b \in ordered /\ Appears(b)

LEMMA ContainersMove ==
  Next => UNCHANGED docker \/ \E b \in ordered \cup {step.bench} : DockerMoves(b)
<1> SUFFICES ASSUME Next PROVE UNCHANGED docker \/ \E b \in ordered \cup {step.bench} : DockerMoves(b)
  OBVIOUS
<1>1. CASE Prepare
  BY <1>1 DEF Prepare, DockerMoves
<1>2. CASE ReleaseContainer
  BY <1>2 DEF ReleaseContainer, DockerMoves
<1>3. CASE CreatedLate
  BY <1>3 DEF CreatedLate, DockerMoves
<1> QED
  BY <1>1, <1>2, <1>3, MemberFrame DEF OfferWork, PostRequest, RequestAssigned, Finish, Crash, Launch,
     RequestDrain, KeepEvidence, KeepDurable, durable, docker

\* The benchmark it is about was handed over to this member.
LEMMA DockerOwned ==
  ASSUME HandoverInv, SlotInv, NEW b, DockerMoves(b), ~ReleaseContainer
  PROVE  b \in Benchmarks /\ Owned(b)
<1>1. MemberTypeOK /\ Located /\ StepIsOwned /\ ContainersOwned
  BY DEF HandoverInv, TypeOK, SlotInv
<1>2. CASE Prepare /\ b = step.bench
  BY <1>1, <1>2 DEF Prepare, Located, StepIsOwned, BenchPoints, OwnedPoints
<1>3. CASE b \in ordered
  BY <1>1, <1>3 DEF ContainersOwned, MemberTypeOK
<1> QED
  BY <1>2, <1>3 DEF DockerMoves

\* A container that is new, or found again, stands for the step's benchmark.
LEMMA ContainersKnown ==
  ASSUME Next, NEW b \in containers' \ untracked', b \notin containers \ untracked
  PROVE  Prepare /\ b = step.bench
<1>1. ~UNCHANGED docker
  BY DEF docker
<1>2. PICK c \in ordered \cup {step.bench} : DockerMoves(c)
  BY <1>1, ContainersMove
<1> QED
  BY <1>2 DEF DockerMoves, Stands, IsRemoved, IsOrdered, Appears, IsNotSeen

\* The ways to the end of a row.
LEMMA FinishMoves ==
  Next /\ pc' = "finish" => \/ RequestClosed \/ BenchmarkGone \/ ReleaseContainer
                            \/ pc = "finish" /\ (UNCHANGED docker \/ CreatedLate)
  BY DEF Next, RunnerStep, StepIdle, StepNew, StepUnlinked, StepLinked, Enter,
         OfferWork, CheckBeforePost, ReleaseRefused, PostRequest, RequestQueued,
         RefreshRequest, RequestAssigned, BenchmarkOffered, AssignmentChanged,
         AcknowledgeHandover, RecoverHandover, Prepare, Submit, Wait, SaveReady,
         NonceFailed, Shutdown, Deliver, DeliveredGone, AwaitVerification, PostProofs,
         Finish, CallFails, Crash, Launch, RequestDrain, CreatedLate, NonceDone, NonceFails,
         PoolActs, Goto, Raise, RaiseNow, Return, ReturnNow, ReplyLost, Fault, AfterHandover,
         AfterEvidence, KeepDurable, durable, docker

\* Docker only works on what the pool handed over to this member.
LEMMA OwnedDockerNext ==
  ASSUME HandoverInv, SlotInv, Next, NEW b \in containers' \cup ordered' PROVE Owned(b)'
<1>0. MemberTypeOK /\ ContainersOwned
  BY DEF HandoverInv, TypeOK, SlotInv
<1>1. \A c \in Benchmarks : Owned(c) => Owned(c)'
  BY ImmutableNext DEF Immutable, Owned
<1>2. CASE b \in containers \cup ordered
  BY <1>0, <1>1, <1>2 DEF ContainersOwned, MemberTypeOK
<1>3. CASE b \notin containers \cup ordered
  <2>1. PICK c \in ordered \cup {step.bench} : DockerMoves(c)
    BY <1>3, ContainersMove DEF docker
  <2>2. b = c /\ ~ReleaseContainer
    BY <1>3, <2>1 DEF DockerMoves, ReleaseContainer, Prepare, CreatedLate, Stands, IsRemoved,
       IsOrdered, Appears, IsNotSeen
  <2> QED
    BY <1>1, <2>1, <2>2, DockerOwned
<1> QED
  BY <1>2, <1>3

LEMMA ContainersOwnedNext == HandoverInv /\ SlotInv /\ Next => ContainersOwned'
<1> SUFFICES ASSUME HandoverInv, SlotInv, Next, pc' = "finish" PROVE containers' \subseteq untracked'
  BY OwnedDockerNext DEF ContainersOwned
<1>0. /\ MemberTypeOK /\ Located /\ OwnedIsHanded
      /\ RowsAgree /\ OneOpenRow /\ ContainersOwned /\ NoOrphanContainer
  BY DEF HandoverInv, TypeOK, SlotInv
<1>1. CASE pc = "finish" /\ UNCHANGED docker
  BY <1>0, <1>1 DEF ContainersOwned, docker
<1>2. CASE pc = "finish" /\ CreatedLate
  BY <1>0, <1>2 DEF ContainersOwned, CreatedLate, Appears
<1>3. CASE RequestClosed
  <2>1. UNCHANGED docker
    BY <1>3 DEF RequestClosed, KeepDurable, durable, docker
  <2>2. step.key \in Keys /\ Open(step.key) /\ requests[step.key].bench = None
    BY <1>0, <1>3 DEF RequestClosed, RequestIsOver, Located, OneOpenRow, RowsAgree, RowPoints, Control
  <2> QED
    BY <1>0, <2>1, <2>2, NoneAssumption DEF NoOrphanContainer, OneOpenRow, MemberTypeOK, docker
<1>4. CASE BenchmarkGone
  <2>1. pc = "get_bench" /\ UNCHANGED docker /\ assignments[step.bench].payload = None
    BY <1>4 DEF BenchmarkGone, Goto, KeepDurable, durable, docker
  <2>2. step.bench \in Benchmarks /\ containers \ untracked \subseteq {step.bench}
    BY <2>1, StepBench DEF BenchPoints
  <2>3. ~Owned(step.bench)
    BY <1>0, <2>1, <2>2 DEF OwnedIsHanded, HandedOver
  <2> QED
    BY <1>0, <2>1, <2>2, <2>3 DEF ContainersOwned, docker
<1>5. CASE ReleaseContainer
  <2>1. containers \ untracked \subseteq {step.bench}
    BY <1>5, StepBench DEF ReleaseContainer, BenchPoints
  <2> QED
    BY <1>5, <2>1 DEF ReleaseContainer, IsRemoved, IsNotSeen
<1> QED
  BY <1>1, <1>2, <1>3, <1>4, <1>5, FinishMoves

LEMMA NoOrphanNext == HandoverInv /\ SlotInv /\ Next => NoOrphanContainer'
<1> SUFFICES ASSUME HandoverInv, SlotInv, Next, NEW b \in containers' \ untracked'
             PROVE  \E k \in Keys : requests'[k].state = "open" /\ requests'[k].bench = b
  BY DEF NoOrphanContainer, Open
<1>0. MemberTypeOK /\ ProcessTypeOK /\ Located /\ RowsAgree /\ OneOpenRow /\ NoOrphanContainer
  BY DEF HandoverInv, TypeOK, SlotInv
<1>1. PICK k \in Keys : Open(k) /\ requests[k].bench = b
  <2>1. CASE b \in containers \ untracked
    BY <1>0, <2>1 DEF NoOrphanContainer
  <2>2. CASE b \notin containers \ untracked
    <3>1. Prepare /\ b = step.bench
      BY <2>2, ContainersKnown
    <3> QED
      BY <3>1, StepBench DEF Prepare, BenchPoints, OwnedPoints
  <2> QED
    BY <2>1, <2>2
<1>2. b \in Benchmarks
  <2>1. MemberTypeOK'
    BY MemberNext
  <2> QED
    BY <2>1 DEF MemberTypeOK
<1>3. requests'[k].bench = b
  BY <1>0, <1>1, <1>2, RowKept, NoneAssumption
<1>4. ~Finish
  <2> SUFFICES ASSUME Finish PROVE FALSE
    OBVIOUS
  <2>1. UNCHANGED docker /\ pc = "finish"
    BY DEF Finish
  <2> QED
    BY <2>1 DEF SlotInv, ContainersOwned, docker
<1>5. requests'[k].state = "open"
  BY <1>0, <1>1, <1>4, RowsMove DEF Open, RowOpened, RowNamed
<1> QED
  BY <1>3, <1>5

\* The comparison of the releases is what makes a step's release accepted.
LEMMA MatchesAccepted == ReleaseMatches => ReleaseAccepted
  BY DEF ReleaseMatches, ReleaseAccepted

LEMMA OfferCheckedNext == OfferChecked /\ Next => OfferChecked'
<1> SUFFICES ASSUME OfferChecked, Next, pc' = "post_request" PROVE ReleaseAccepted'
  BY DEF OfferChecked
<1>1. UNCHANGED step /\ (pc = "post_request" \/ ReleaseMatches)
  BY StepMoves DEF RowPoints, Control, PicksRow, OfferWork, RequestAssigned, StaysOnRow
<1> QED
  BY <1>1, MatchesAccepted DEF OfferChecked, ReleaseAccepted

\* A request that no longer counts never counts again, unless it is posted.
LEMMA LiveMoves ==
  ASSUME PoolTypeOK, AssignedOnce, Next, NEW k \in Keys, Live(k)', ~Live(k)
  PROVE  pc = "post_request" /\ k = step.key
<1>1. RequestMoves(k) /\ (\A b \in Benchmarks : BenchmarkMoves(b))
  BY PoolMoves
<1>2. \A b \in Benchmarks : Concluded(b) => Concluded(b)'
  BY TerminalIsFinal DEF Final, Concluded
<1>3. poolRequests[k].bench \in Benchmarks \cup {None}
  BY DEF PoolTypeOK, PoolRequest
<1>4. CASE poolRequests[k].bench # None
  BY <1>2, <1>3, <1>4, BenchKept DEF Live
<1>5. CASE poolRequests[k].bench = None
  BY <1>1, <1>5 DEF Live, RequestMoves
<1> QED
  BY <1>4, <1>5

LEMMA FinishedNext == HandoverInv /\ SlotInv /\ Next => FinishedIsConcluded'
<1> SUFFICES ASSUME HandoverInv, SlotInv, Next, NEW k \in Keys, requests'[k].state = "finished",
                    Live(k)'
             PROVE  FALSE
  BY DEF FinishedIsConcluded
<1>0. /\ PoolTypeOK /\ MemberTypeOK /\ ProcessTypeOK /\ Located /\ Leaving
      /\ RowsAgree /\ AssignedOnce /\ OneOpenRow /\ FinishedIsConcluded
  BY DEF HandoverInv, TypeOK, SlotInv
<1>1. CASE requests[k].state = "finished"
  <2>1. ~Live(k)
    BY <1>0, <1>1 DEF FinishedIsConcluded
  <2> QED
    BY <1>0, <1>1, <2>1, LiveMoves DEF OneOpenRow, Open, RowPoints, Control
<1>2. CASE requests[k].state # "finished"
  <2>1. Finish /\ k = step.key
    BY <1>0, <1>2, RowsMove DEF RowOpened, RowNamed, RowFinished
  <2>2. pc = "finish" /\ ~(pc = "post_request")
    BY <2>1 DEF Finish
  <2>3. /\ step.bench \in Benchmarks \/ poolRequests[k].bench = None
        /\ Outcome \in TERMINAL
    BY <1>0, <2>1, <2>2 DEF Leaving
  <2>4. step.bench # None => poolRequests[k].bench = step.bench
    BY <1>0, <2>1, <2>2 DEF OneOpenRow, RowsAgree, RowPoints, Control
  <2>5. ~Live(k)
    <3>1. CASE step.bench = None
      BY <2>1, <2>3, <3>1, NoneAssumption DEF Live, Outcome, TERMINAL
    <3>2. CASE step.bench # None
      BY <2>3, <2>4, <3>2 DEF Live, Outcome, Concluded
    <3> QED
      BY <3>1, <3>2
  <2> QED
    BY <1>0, <2>2, <2>5, LiveMoves
<1> QED
  BY <1>1, <1>2

LEMMA SlotStutter == SlotInv /\ UNCHANGED vars => SlotInv'
  BY DEF SlotInv, vars, durable, docker, poolVars, RowsAgree, AssignedOnce, OneOpenRow, OwnedHasRow,
         ContainersOwned, OfferChecked, ReleaseAccepted, FinishedIsConcluded, NoOrphanContainer,
         Open, Owned, Live, Concluded

LEMMA SlotNext == HandoverInv /\ SlotInv /\ [Next]_vars => SlotInv'
<1>1. ASSUME HandoverInv, SlotInv, Next PROVE SlotInv'
  BY <1>1, RowsAgreeNext, AssignedOnceNext, OneOpenRowNext, OwnedHasRowNext,
     ContainersOwnedNext, OfferCheckedNext, FinishedNext, NoOrphanNext DEF SlotInv
<1> QED
  BY <1>1, SlotStutter

\* The rows, the step, the containers and the pool agree on the member's slot in
\* every state, through every lost reply, crash and restart (runner.py:42-81,
\* state.py:71-103).
THEOREM SlotAlways == Spec => []SlotInv
  BY SlotInit, SlotNext, HandoverAlways, PTL DEF Spec

-----------------------------------------------------------------------------
(* The theorems.                                                           *)

\* A live request has an open row, and there is one open row.
LEMMA LiveIsOpen == HandoverInv /\ SlotInv => OneLiveRequest
<1> SUFFICES ASSUME HandoverInv, SlotInv, NEW k \in Keys, Live(k) PROVE Open(k)
  BY DEF OneLiveRequest, SlotInv, OneOpenRow
<1>0. PoolTypeOK /\ MemberTypeOK /\ RowsAgree /\ AssignedOnce /\ FinishedIsConcluded
  BY DEF HandoverInv, TypeOK, SlotInv
<1>1. requests[k].state # "finished"
  BY <1>0 DEF FinishedIsConcluded
<1>2. poolRequests[k].state # "unknown"
  BY <1>0 DEF Live, AssignedOnce
<1>3. requests[k].state # "absent"
  BY <1>0, <1>2 DEF RowsAgree
<1> QED
  BY <1>0, <1>1, <1>3 DEF MemberTypeOK, RequestRow, Open

\* Whatever replies are lost, the member never has two live requests at the pool:
\* a saved key is posted again until its row is finished (state.py:82-89).
THEOREM LiveRequestIsOne == Spec => []OneLiveRequest
  BY HandoverAlways, SlotAlways, LiveIsOpen, PTL

\* The slot is freed only when the pool is done with the request and with its
\* benchmark (runner.py:58-61, 73-81).
THEOREM FinishedForGood == Spec => []FinishedIsConcluded
<1>1. SlotInv => FinishedIsConcluded
  BY DEF SlotInv
<1> QED
  BY <1>1, SlotAlways, PTL

\* No crash, failure or early end of a step leaves a container behind whose row is
\* not open, but for two: one that a given-up docker run made later, and one that a
\* failing docker inspect hid from the release (runner.py:73-81, 98, runtime.py:93-96,
\* 182, 203-212).
THEOREM ContainersHaveRows == Spec => []NoOrphanContainer
<1>1. SlotInv => NoOrphanContainer
  BY DEF SlotInv
<1> QED
  BY <1>1, SlotAlways, PTL

\* A key reaches the pool for the first time only in a step whose capabilities named
\* the release installed here, if they named one and the runtime checks it
\* (runner.py:26-35, 45, 53).
THEOREM OffersChecked == Spec => OffersMatchRelease
<1> DEFINE Checked ==
      \A k \in Keys : poolRequests[k].state = "unknown" /\ poolRequests'[k].state # "unknown"
                      => ReleaseAccepted
<1>1. HandoverInv /\ SlotInv /\ [Next]_vars => [Checked]_vars
  <2>1. ASSUME PoolTypeOK, OfferChecked, Next PROVE Checked
    BY <2>1, PoolMoves DEF RequestMoves, OfferChecked
  <2> QED
    BY <2>1 DEF HandoverInv, TypeOK, SlotInv
<1> QED
  BY <1>1, HandoverAlways, SlotAlways, PTL DEF Spec, OffersMatchRelease
=============================================================================
