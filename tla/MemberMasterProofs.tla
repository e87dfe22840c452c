-------------------------- MODULE MemberMasterProofs --------------------------
(***************************************************************************)
(* The member master and its helper for every value of the constants: any  *)
(* number of benchmarks, nonces and workers, and any number of failures of *)
(* every kind.  The invariant is FleetInv of MemberMasterProperties: first *)
(* SharedInv, then the account of the calls, which rests on it.  What the  *)
(* helper's own steps keep of both is module HelperProofs.                 *)
(***************************************************************************)
EXTENDS MemberMasterRefines, HelperProofs

-----------------------------------------------------------------------------
(* Messages and calls.                                                     *)

LEMMA HelloIsAMessage == Hello \in Message /\ Hello.op = "hello"
  BY DEF Hello, MessageTo, Message

LEMMA AboutIsAMessage ==
  ASSUME NEW op \in {"validate", "prepare", "release"}, NEW b \in Benchmarks, NEW d \in Benchmarks
  PROVE  /\ About(op, b, d) \in Message
         /\ About(op, b, d).op = op /\ About(op, b, d).bench = b
<1>1. PayloadOf[d] \in Payloads
  BY PayloadOfAssumption
<1> QED
  BY <1>1 DEF About, MessageTo, Message

LEMMA ComputeCallIsAMessage ==
  ASSUME NEW n \in Nonces, row \in Benchmarks, saved \in Benchmarks
  PROVE  /\ ComputeCall(n) \in Message
         /\ ComputeCall(n).op = "compute" /\ ComputeCall(n).bench = row /\ ComputeCall(n).nonce = n
<1>1. PayloadOf[saved] \in Payloads
  BY PayloadOfAssumption
<1> QED
  BY <1>1 DEF ComputeCall, MessageTo, Message

LEMMA NonceOfCall == \A n, k : ComputeCall(n) = ComputeCall(k) => n = k
<1> SUFFICES ASSUME NEW n, NEW k, ComputeCall(n) = ComputeCall(k) PROVE n = k
  OBVIOUS
<1>1. ComputeCall(n).nonce = n /\ ComputeCall(k).nonce = k
  BY DEF ComputeCall, MessageTo
<1> QED
  BY <1>1

\* What the main thread's own call is about.
LEMMA CallsByOperation ==
  ASSUME SharedInv, NEW c \in calls
  PROVE  /\ c.to.op = "prepare" => main = "prepare" /\ c.to = About("prepare", row, row)
         /\ main \in {"compute", "shutdown"} => c.to.op = "compute"
         /\ c.to.op = "compute" => c.to.bench \in Benchmarks /\ c.to.nonce \in Nonces
<1>1. MainCalls /\ TypeOK /\ StepInHand
  BY DEF SharedInv
<1>2. \A n : ComputeCall(n).op = "compute" /\ ComputeCall(n).bench = row /\ ComputeCall(n).nonce = n
  BY DEF ComputeCall, MessageTo
<1>3. Hello.op = "hello" /\ About("validate", row, row).op = "validate"
      /\ About("release", row, saved).op = "release"
  BY DEF Hello, About, MessageTo
<1>4. CASE main \in {"compute", "shutdown"}
  <2>1. PICK n \in Nonces : c.to = ComputeCall(n)
    BY <1>1, <1>4 DEF MainCalls
  <2>2. row \in Benchmarks
    BY <1>1, <1>4 DEF StepInHand, TypeOK
  <2> QED
    BY <1>2, <2>1, <2>2
<1>5. CASE main \notin {"compute", "shutdown"}
  <2>1. c.to \in {Hello, About("validate", row, row), About("release", row, saved)}
        \/ (main = "prepare" /\ c.to = About("prepare", row, row))
    <3>1. main \in {"down", "startup", "pause", "offer", "check", "validate", "recheck",
                    "prepare", "release"}
      BY <1>1, <1>5 DEF TypeOK
    <3>2. main \notin {"down", "pause"}
      BY <1>1 DEF MainCalls
    <3>3. CASE main \in {"startup", "offer", "check", "recheck"}
      BY <1>1, <3>3 DEF MainCalls
    <3>4. CASE main = "validate"
      BY <1>1, <3>4 DEF MainCalls
    <3>5. CASE main = "prepare"
      BY <1>1, <3>5 DEF MainCalls
    <3>6. CASE main = "release"
      BY <1>1, <3>6 DEF MainCalls
    <3> QED
      BY <3>1, <3>2, <3>3, <3>4, <3>5, <3>6
  <2>2. About("prepare", row, row).op = "prepare"
    BY DEF About, MessageTo
  <2> QED
    BY <1>3, <1>5, <2>1, <2>2
<1> QED
  BY <1>4, <1>5

\* The main thread goes on when its call is resolved: nothing is pending then.
LEMMA NothingPending ==
  ASSUME SharedInv, main \notin {"compute", "shutdown"},
         main \in {"down", "pause"} \/ Answered \/ HelperError
  PROVE  Pending = {}
<1>1. MainCalls /\ TypeOK
  BY DEF SharedInv
<1>2. \A c, d \in calls : c.to = d.to
  BY <1>1 DEF MainCalls, TypeOK
<1>3. \A c, d \in calls : c = d
  BY <1>1, <1>2 DEF MainCalls
<1> QED
  BY <1>1, <1>3 DEF MainCalls, Pending, Answered, HelperError

\* With nothing pending the helper has nothing of the session.
LEMMA NothingUnderWay ==
  ASSUME SharedInv, Pending = {}, attached
  PROVE  UnderWay = {}
  BY DEF SharedInv, SessionAsked

LEMMA SharedInit == Init => SharedInv
<1> SUFFICES ASSUME Init PROVE SharedInv
  OBVIOUS
<1>1. HelperInv
  BY HelperStart DEF Init
<1>2. DOMAIN inbox = {} /\ DOMAIN events = {}
  BY DEF Init, HelperInit
<1>3. Requests = {} /\ UnderWay = {}
  BY <1>2 DEF Init, HelperInit, Requests, Unread, Of, UnderWay, AnsweredTo
<1>4. TypeOK
  <2>1. Blank \in [Nonces -> Leaves \cup {None}]
    BY DEF Blank
  <2>2. slots \in [Backends -> 0 .. LocalWorkers + RemoteWorkers]
    <3>1. 0 \in 0 .. LocalWorkers + RemoteWorkers
      BY FleetAssumption, HelperWorkersAssumption
    <3> QED
      BY <3>1 DEF Init, NoSlots
  <2>3. faults \in 0 .. MaxFaults
    BY FleetAssumption DEF Init
  <2>4. tasks \in [Nonces -> {"idle", "waiting", "local", "remote", "failed"} \cup Leaves]
    BY DEF Init, NoTasks
  <2> QED
    BY <1>1, <2>1, <2>2, <2>3, <2>4 DEF Init, TypeOK, HelperInv, NoneReady
<1>5. MainCalls /\ SlotsConserved
  BY DEF Init, MainCalls, SlotsConserved
<1>6. StepInHand
  BY DEF Init, StepInHand, NoTasks
<1>7. SessionAsked /\ PreparedIsReady /\ ReceivedSaved
  BY DEF Init, HelperInit, SessionAsked, PreparedIsReady, ReceivedSaved
<1>8. HandoverFirst
  <2>1. \A b \in Benchmarks : ~assignments[b].acknowledged /\ \A n \in Nonces : nonces[b][n] = None
    BY DEF Init, HelperInit, StoreInit, NoRow, Blank
  <2> QED
    BY <1>3, <2>1 DEF Init, HelperInit, HandoverFirst, HelperWorksForHandedOver
<1> QED
  BY <1>1, <1>4, <1>5, <1>6, <1>7, <1>8 DEF SharedInv

-----------------------------------------------------------------------------
(* The helper's steps.                                                     *)

LEMMA HelperIdle ==
  ASSUME HelperInv, HelperStays
  PROVE  HelperInv' /\ UnderWay' = UnderWay /\ Requests' = Requests
<1> USE DEF HelperStays, helperVars, evidenceVars, process
<1>1. Unread' = Unread /\ (\A kind : Of(kind)' = Of(kind)) /\ AnsweredTo' = AnsweredTo
      /\ LinesOnce' = LinesOnce /\ QueueOnce' = QueueOnce
  BY DEF Unread, Of, AnsweredTo, LinesOnce, QueueOnce
<1>2. Requests' = Requests /\ UnderWay' = UnderWay
  BY <1>1 DEF Requests, UnderWay
<1>3. HelperTypeOK'
  BY DEF HelperInv, HelperTypeOK, StoreTypeOK
<1>4. OnePlace' /\ Addressed' /\ RuntimeKept'
  BY <1>1, <1>2 DEF HelperInv, OnePlace, Addressed, RuntimeKept
<1>5. ProcessAndSession' /\ RepliesSaved'
  BY <1>1 DEF HelperInv, ProcessAndSession, RepliesSaved
<1> QED
  BY <1>2, <1>3, <1>4, <1>5 DEF HelperInv

\* Whom the helper prepares has a confirmed handover.
LEMMA AskedIsHandedOver ==
  ASSUME SharedInv, NEW b, Asks(b)
  PROVE  HandedOver(b)
  BY DEF SharedInv, HandoverFirst, Asks

LEMMA HelperMoves ==
  ASSUME SharedInv, HelperInv', Effect, UNCHANGED <<masterVars, World>>, faults' \in 0 .. MaxFaults
  PROVE  SharedInv'
<1> USE DEF masterVars, World
<1>0. TypeOK /\ MainCalls /\ StepInHand /\ SlotsConserved /\ SessionAsked /\ HandoverFirst
      /\ PreparedIsReady /\ ReceivedSaved /\ HelperInv
  BY DEF SharedInv
<1>1. TypeOK'
  BY <1>0 DEF TypeOK, HelperInv
<1>2. MainCalls' /\ StepInHand' /\ SlotsConserved'
  <2>1. \A n : ComputeCall(n)' = ComputeCall(n)
    BY DEF ComputeCall, MessageTo
  <2>2. MainCalls'
    BY <1>0, <2>1 DEF MainCalls, About, Hello, MessageTo
  <2>3. StepInHand' /\ SlotsConserved'
    BY <1>0 DEF StepInHand, SlotsConserved, Holding, Capacity
  <2> QED
    BY <2>2, <2>3
<1>3. SessionAsked'
  BY <1>0 DEF SessionAsked, Effect, Pending
<1>4. \A b : HandedOver(b)' = HandedOver(b)
  BY DEF HandedOver
<1>5. HandoverFirst'
  <2>1. \A m \in Requests' : m.op = "prepare" => HandedOver(m.bench)
    BY <1>0 DEF Effect, HandoverFirst
  <2>2. \A m \in active' : HandedOver(m.bench) /\ m.bench # None
    <3>1. \A m \in active' : m.bench # None
      BY DEF HelperInv, Addressed
    <3> QED
      BY <1>0, <3>1 DEF Effect, HandoverFirst
  <2>3. prepared' # None => HandedOver(prepared')
    BY <1>0, AskedIsHandedOver DEF Effect, HandoverFirst
  <2>4. \A b \in runtimes' : HandedOver(b)
    <3>1. \A b \in runtimes' : b \in Benchmarks /\ (b \in runtimes \/ Asks(b))
      BY DEF Effect, HelperInv, HelperTypeOK
    <3> QED
      BY <1>0, <3>1, AskedIsHandedOver DEF HandoverFirst, HelperWorksForHandedOver
  <2>5. \A b \in Benchmarks : assignments'[b].acknowledged => HandedOver(b)
    BY <1>0, AskedIsHandedOver DEF Effect, HandoverFirst, HelperWorksForHandedOver
  <2>6. \A b \in Benchmarks, n \in Nonces : nonces'[b][n] # None => HandedOver(b)
    <3> SUFFICES ASSUME NEW b \in Benchmarks, NEW n \in Nonces, nonces'[b][n] # None
                 PROVE  HandedOver(b)
      OBVIOUS
    <3>1. nonces[b][n] # None \/ \E m \in active : m.bench = b
      BY DEF Effect
    <3> QED
      BY <1>0, <3>1 DEF HandoverFirst, HelperWorksForHandedOver
  <2>7. running' \subseteq active'
    BY DEF HelperInv, OnePlace
  <2> QED
    BY <1>4, <2>1, <2>2, <2>3, <2>4, <2>5, <2>6, <2>7 DEF HandoverFirst, HelperWorksForHandedOver
<1>6. PreparedIsReady'
  <2> SUFFICES ASSUME attached', prepared' \notin runtimes' \cup {None}
               PROVE  /\ main \in {"compute", "shutdown"} => ~available["remote"]
                      /\ \A r \in replies' : ~(r.ok /\ r.to.op = "prepare")
                      /\ \A c \in calls : ~(c.state = "ok" /\ c.to.op = "prepare")
    BY DEF PreparedIsReady
  <2>1. /\ attached
        /\ prepared \notin runtimes \cup {None} \/ \E b : Asks(b)
        /\ \A r \in replies' : r \in replies \/ ~(r.ok /\ r.to.op = "prepare")
    BY DEF Effect
  <2>2. CASE prepared \notin runtimes \cup {None}
    BY <1>0, <2>1, <2>2 DEF PreparedIsReady
  <2>3. CASE \E b : Asks(b)
    <3>1. PICK m \in Requests : m.op = "prepare"
      BY <2>3 DEF Asks
    <3>2. PICK d \in Pending : d.to = m
      BY <1>0, <2>1 DEF SessionAsked, UnderWay
    <3>3. d \in calls /\ d.state = "pending"
      BY <3>2 DEF Pending
    <3>4. main = "prepare" /\ m = About("prepare", row, row)
      BY <3>1, <3>2, <3>3, CallsByOperation
    <3>5. \A c \in calls : c.to = m
      BY <1>0, <3>4 DEF MainCalls
    <3>6. \A c \in calls : c.state = "pending"
      BY <1>0, <3>2, <3>3, <3>5 DEF MainCalls
    <3>7. \A r \in replies : r.to.op # "prepare"
      <4> SUFFICES ASSUME NEW r \in replies, r.to.op = "prepare" PROVE FALSE
        OBVIOUS
      <4>1. r.to \in AnsweredTo
        BY DEF AnsweredTo
      <4>2. PICK e \in Pending : e.to = r.to
        BY <1>0, <2>1, <4>1 DEF SessionAsked, UnderWay
      <4>3. r.to = m
        BY <3>5, <4>2 DEF Pending
      <4> QED
        BY <1>0, <3>1, <4>1, <4>3 DEF HelperInv, OnePlace
    <3> QED
      BY <2>1, <3>4, <3>6, <3>7
  <2> QED
    BY <2>1, <2>2, <2>3
<1>7. ReceivedSaved'
  <2> SUFFICES ASSUME NEW c \in calls, c.state = "ok", c.to.op = "compute"
               PROVE  c.leaf # None /\ nonces'[c.to.bench][c.to.nonce] = c.leaf
    BY DEF ReceivedSaved
  <2>1. c.leaf # None /\ nonces[c.to.bench][c.to.nonce] = c.leaf
    BY <1>0 DEF ReceivedSaved
  <2>2. c.to.bench \in Benchmarks /\ c.to.nonce \in Nonces
    BY CallsByOperation
  <2> QED
    BY <2>1, <2>2 DEF Effect
<1> QED
  BY <1>0, <1>1, <1>2, <1>3, <1>5, <1>6, <1>7 DEF SharedInv

-----------------------------------------------------------------------------
(* What the master does to the helper.                                     *)

\* The master's steps leave the helper's tables alone and take no handover back.
LEMMA HandoverKept ==
  ASSUME SharedInv, OutputKept, NEW m, Requests' \subseteq Requests \cup {m},
         m.op = "prepare" => HandedOver(m.bench)',
         active' \subseteq active, running' \subseteq running, prepared' \in {prepared, None},
         \A b \in Benchmarks : HandedOver(b) => HandedOver(b)'
  PROVE  HandoverFirst'
<1>1. HandoverFirst /\ HelperInv
  BY DEF SharedInv
<1>2. /\ \A k \in Requests : k.op = "prepare" => k.bench \in Benchmarks
      /\ \A k \in active : k.bench \in Benchmarks
      /\ prepared \in Benchmarks \cup {None} /\ running \subseteq active
  <2>1. Requests \subseteq Message /\ active \subseteq Message
    <3>1. \A j \in DOMAIN inbox : inbox[j] \in Message
      BY <1>1 DEF HelperInv, HelperTypeOK
    <3> QED
      BY <1>1, <3>1 DEF HelperInv, HelperTypeOK, Addressed, Requests, Unread
  <2>2. \A k \in Message : k.bench \in Benchmarks \cup {None}
    BY DEF Message
  <2> QED
    BY <1>1, <2>1, <2>2 DEF HelperInv, HelperTypeOK, OnePlace, Addressed
<1>3. HelperWorksForHandedOver'
  <2>1. \A k \in running' : HandedOver(k.bench)'
    BY <1>1, <1>2 DEF HandoverFirst
  <2> QED
    BY <1>1, <2>1 DEF HandoverFirst, HelperWorksForHandedOver, OutputKept, evidenceVars
<1> QED
  BY <1>1, <1>2, <1>3 DEF HandoverFirst

\* The main thread is alone: it calls, opens a session with a call, or does not.
Talks(m) == (m = Hello /\ SayHello) \/ Ask(m) \/ AskNothing

LEMMA MainTalks ==
  ASSUME SharedInv, Pending = {}, NEW m \in Message, Talks(m),
         m.op \in {"hello", "validate", "prepare", "release"},
         m.op = "prepare" => m.bench # None /\ HandedOver(m.bench)',
         \A b \in Benchmarks : HandedOver(b) => HandedOver(b)'
  PROVE  /\ HelperInv' /\ SessionAsked' /\ HandoverFirst' /\ ReceivedSaved'
         /\ calls' \subseteq Call /\ session' \in BOOLEAN
         /\ \A c \in calls' : c.to = m /\ c.state # "ok"
         /\ \A c, d \in calls' : c = d
         /\ attached' /\ prepared' \notin runtimes' \cup {None} =>
                attached /\ prepared \notin runtimes \cup {None} /\ replies' = replies
<1>0. TypeOK /\ HelperInv /\ SessionAsked
  BY DEF SharedInv
<1> DEFINE waits == [to |-> m, state |-> "pending", leaf |-> None]
           fails == [to |-> m, state |-> "error", leaf |-> None]
<1>1. /\ waits \in Call /\ waits.to = m /\ waits.state = "pending"
      /\ fails \in Call /\ fails.to = m /\ fails.state = "error"
  BY DEF Call
<1>2. Asked(m) = IF session THEN waits ELSE fails
  BY DEF Asked
<1> HIDE DEF waits, fails
<1>3. CASE AskNothing
  <2>1. calls' = {} /\ HelperStays /\ session' = session
    BY <1>3 DEF AskNothing
  <2>2. HelperInv' /\ UnderWay' = UnderWay /\ Requests' = Requests
    BY <1>0, <2>1, HelperIdle
  <2>3. OutputKept /\ active' = active /\ running' = running /\ prepared' = prepared
        /\ attached' = attached /\ replies' = replies /\ runtimes' = runtimes
    BY <2>1 DEF HelperStays, helperVars, process, OutputKept
  <2>4. HandoverFirst'
    BY <2>2, <2>3, HandoverKept
  <2>5. SessionAsked'
    <3>1. attached => UnderWay = {}
      BY NothingUnderWay
    <3> QED
      BY <1>0, <2>1, <2>2, <2>3, <3>1 DEF SessionAsked
  <2> QED
    BY <1>0, <2>1, <2>2, <2>3, <2>4, <2>5 DEF ReceivedSaved, TypeOK
<1>4. CASE Ask(m)
  <2>1. /\ calls' = {IF session THEN waits ELSE fails} /\ session' = session
        /\ inbox' = IF attached THEN Append(inbox, m) ELSE inbox
        /\ OutputKept /\ UNCHANGED <<process, attached, replies>>
    BY <1>2, <1>4 DEF Ask, Deliver
  <2>2. active' = active /\ running' = running /\ prepared' = prepared /\ runtimes' = runtimes
    BY <2>1 DEF process, OutputKept
  <2>3. HelperInv' /\ Requests' \subseteq Requests \cup {m} /\ (attached => UnderWay' = {m})
    <3>1. CASE attached
      <4>1. UnderWay = {}
        BY <3>1, NothingUnderWay
      <4>2. m \notin UnderWay /\ \A k \in Requests : k.op # "compute"
        BY <4>1 DEF UnderWay
      <4>3. inbox' = Append(inbox, m)
        BY <2>1, <3>1
      <4>4. HelperInv' /\ Requests' = Requests \cup {m} /\ UnderWay' = UnderWay \cup {m}
        BY <1>0, <2>1, <3>1, <4>2, <4>3, LineArrives
      <4> QED
        BY <4>1, <4>4
    <3>2. CASE ~attached
      <4>1. HelperStays
        BY <2>1, <3>2 DEF HelperStays, helperVars, OutputKept
      <4> QED
        BY <1>0, <3>2, <4>1, HelperIdle
    <3> QED
      BY <3>1, <3>2
  <2>4. HandoverFirst'
    BY <2>1, <2>2, <2>3, HandoverKept
  <2>5. SessionAsked'
    <3> SUFFICES ASSUME attached PROVE session /\ \A k \in UnderWay' : \E c \in Pending' : c.to = k
      BY <2>1 DEF SessionAsked
    <3>1. session
      BY <1>0 DEF SessionAsked
    <3>2. waits \in Pending'
      BY <1>1, <2>1, <3>1 DEF Pending
    <3> QED
      BY <1>1, <2>3, <3>1, <3>2
  <2> QED
    BY <1>0, <1>1, <2>1, <2>2, <2>3, <2>4, <2>5 DEF ReceivedSaved, TypeOK
<1>5. CASE m = Hello /\ SayHello /\ ~Ask(m)
  <2>1. /\ ~session /\ session' = TRUE /\ calls' = {waits}
        /\ OutputKept
        /\ IF helper = "off" /\ reachable
           THEN Launched /\ inbox' = <<m>>
           ELSE UNCHANGED <<process, attached, inbox, replies>>
    BY <1>5 DEF SayHello, waits
  <2>2. ~attached
    BY <1>0, <2>1 DEF SessionAsked
  <2>3. waits \in Pending'
    BY <1>1, <2>1 DEF Pending
  <2>4. CASE helper = "off" /\ reachable
    <3>1. Launched /\ inbox' = <<m>> /\ m.op = "hello"
      BY <1>5, <2>1, <2>4, HelloIsAMessage
    <3>2. HelperInv' /\ UnderWay' = {m} /\ Requests' = {m} /\ active' = {} /\ replies' = {}
      BY <1>0, <2>1, <2>4, <3>1, SessionStarts
    <3>3. running' = {} /\ prepared' = None
      BY <3>1 DEF Launched
    <3>4. HandoverFirst'
      BY <2>1, <3>1, <3>2, <3>3, HandoverKept
    <3>5. SessionAsked'
      BY <1>1, <2>1, <2>3, <3>2 DEF SessionAsked
    <3> QED
      BY <1>1, <2>1, <3>2, <3>3, <3>4, <3>5 DEF ReceivedSaved
  <2>5. CASE ~(helper = "off" /\ reachable)
    <3>1. HelperStays /\ attached' = attached
      BY <2>1, <2>5 DEF HelperStays, helperVars, OutputKept
    <3>2. HelperInv' /\ Requests' = Requests
      BY <1>0, <3>1, HelperIdle
    <3>3. active' = active /\ running' = running /\ prepared' = prepared
      BY <3>1 DEF HelperStays, helperVars, process
    <3>4. HandoverFirst'
      BY <2>1, <3>2, <3>3, HandoverKept
    <3>5. SessionAsked'
      BY <2>2, <3>1 DEF SessionAsked
    <3> QED
      BY <1>1, <2>1, <2>2, <3>1, <3>2, <3>4, <3>5 DEF ReceivedSaved
  <2> QED
    BY <2>4, <2>5
<1> QED
  BY <1>3, <1>4, <1>5 DEF Talks

\* The session of the helper breaks.
LEMMA SessionBreaks ==
  ASSUME SharedInv, Detached, OutputKept, UNCHANGED process,
         UNCHANGED inbox \/ \E lost : NotWritten(lost),
         \A b \in Benchmarks : HandedOver(b) => HandedOver(b)'
  PROVE  HelperInv' /\ SessionAsked' /\ HandoverFirst' /\ PreparedIsReady'
<1>1. HelperInv
  BY DEF SharedInv
<1>2. HelperInv' /\ Requests' \subseteq Requests /\ active' = active /\ replies' = {} /\ ~attached'
  BY <1>1, SessionCut
<1>3. running' = running /\ prepared' = prepared
  BY DEF process
<1>4. HandoverFirst'
  BY <1>2, <1>3, HelloIsAMessage, HandoverKept
<1> QED
  BY <1>2, <1>4 DEF SessionAsked, PreparedIsReady

-----------------------------------------------------------------------------
(* The main thread, up to the executor.                                    *)

\* The types of what a call of the main thread leaves alone.
OthersTyped == HelperTypeOK /\ calls \subseteq Call /\ session \in BOOLEAN => TypeOK

\* What is left to show of a step of the main thread: types, and the step in hand.
LEMMA StepTalks ==
  ASSUME SharedInv, Pending = {}, NEW m \in Message, Talks(m),
         m.op \in {"hello", "validate", "prepare", "release"},
         m.op = "prepare" => m.bench # None /\ HandedOver(m.bench)',
         \A b \in Benchmarks : HandedOver(b) => HandedOver(b)',
         main' \in {"down", "pause", "compute"} => calls' = {},
         main' \in {"startup", "offer", "check", "recheck"} => m = Hello,
         main' = "validate" => m = About("validate", row, row)',
         main' = "prepare" => m = About("prepare", row, row)',
         main' = "release" => m = About("release", row, saved)',
         main' # "shutdown",
         main' = "compute" =>
            /\ attached /\ available'["remote"] => prepared \in runtimes \cup {None}
            /\ SlotsConserved',
         OthersTyped',
         StepInHand'
  PROVE  SharedInv'
<1>1. /\ HelperInv' /\ SessionAsked' /\ HandoverFirst' /\ ReceivedSaved'
      /\ calls' \subseteq Call /\ session' \in BOOLEAN
      /\ \A c \in calls' : c.to = m /\ c.state # "ok"
      /\ \A c, d \in calls' : c = d
      /\ attached' /\ prepared' \notin runtimes' \cup {None} =>
             attached /\ prepared \notin runtimes \cup {None} /\ replies' = replies
  BY MainTalks
<1>2. TypeOK'
  BY <1>1 DEF HelperInv, OthersTyped
<1>3. MainCalls'
  BY <1>1, HelloIsAMessage DEF MainCalls, Hello, MessageTo
<1>4. SlotsConserved'
  BY DEF SlotsConserved
<1>5. PreparedIsReady'
  <2>1. PreparedIsReady
    BY DEF SharedInv
  <2> QED
    BY <1>1, <2>1 DEF PreparedIsReady
<1> QED
  BY <1>1, <1>2, <1>3, <1>4, <1>5 DEF SharedInv

\* A step outside the preparation and the computation.
LEMMA StepTaken ==
  ASSUME SharedInv, Pending = {}, NEW m \in Message, Talks(m),
         m.op \in {"hello", "validate"},
         \A b \in Benchmarks : HandedOver(b) => HandedOver(b)',
         main' \in {"startup", "offer", "check", "pause", "validate"},
         main' = "pause" => calls' = {},
         main' \in {"startup", "offer", "check"} => m = Hello,
         main' = "validate" => m = About("validate", row, row)',
         main' \in {"check", "validate"} => row' # None,
         tasks' = NoTasks,
         OthersTyped'
  PROVE  SharedInv'
<1>1. StepInHand'
  BY DEF StepInHand, NoTasks
<1> QED
  BY <1>1, StepTalks

LEMMA NoTasksYet == SharedInv /\ main \notin {"compute", "shutdown"} => tasks = NoTasks
  BY DEF SharedInv, StepInHand

LEMMA RowInHand ==
  SharedInv /\ main \in {"check", "validate", "recheck", "prepare", "compute", "shutdown", "release"}
      => row \in Benchmarks
  BY DEF SharedInv, StepInHand, TypeOK

LEMMA StageKept == UNCHANGED stage => \A b \in Benchmarks : HandedOver(b) => HandedOver(b)'
  BY DEF HandedOver

LEMMA Launches == SharedInv /\ Launch => SharedInv'
<1> SUFFICES ASSUME SharedInv, Launch PROVE SharedInv'
  OBVIOUS
<1>1. main = "down" /\ main' = "startup" /\ SayHello
      /\ UNCHANGED <<stage, outputs, row, saved, available, slots, tasks, over, reachable, faults>>
  BY DEF Launch, Durable, Fleet, World
<1>2. Pending = {} /\ tasks' = NoTasks
  BY <1>1, NothingPending, NoTasksYet
<1>3. OthersTyped'
  BY <1>1 DEF SharedInv, TypeOK, OthersTyped
<1> QED
  BY <1>1, <1>2, <1>3, HelloIsAMessage, StageKept, StepTaken DEF Talks

\* The steps that only end.
LEMMA StepsEnd ==
  ASSUME SharedInv, Started \/ NotOffered \/ NotValidated \/ NotReleased
  PROVE  SharedInv'
<1>1. /\ main \notin {"compute", "shutdown"} /\ (Answered \/ HelperError)
      /\ main' = "pause" /\ AskNothing
      /\ UNCHANGED <<stage, outputs, row, saved, available, slots, tasks, over, reachable, faults>>
  BY DEF Started, NotOffered, NotValidated, NotReleased, StepEnds, Durable, Fleet, World
<1>2. Pending = {} /\ tasks' = NoTasks /\ calls' = {}
  BY <1>1, NothingPending, NoTasksYet DEF AskNothing
<1>3. OthersTyped'
  BY <1>1 DEF SharedInv, TypeOK, OthersTyped
<1> QED
  BY <1>1, <1>2, <1>3, HelloIsAMessage, StageKept, StepTaken DEF Talks

LEMMA Offers ==
  ASSUME SharedInv, StepNew \/ Offered
  PROVE  SharedInv'
<1>1. CASE StepNew
  <2>1. main = "pause" /\ main' = "offer" /\ SayHello
        /\ UNCHANGED <<stage, outputs, row, saved, available, slots, tasks, over, reachable, faults>>
    BY <1>1 DEF StepNew, Durable, Fleet, World
  <2>2. Pending = {} /\ tasks' = NoTasks
    BY <2>1, NothingPending, NoTasksYet
  <2>3. OthersTyped'
    BY <2>1 DEF SharedInv, TypeOK, OthersTyped
  <2> QED
    BY <2>1, <2>2, <2>3, HelloIsAMessage, StageKept, StepTaken DEF Talks
<1>2. CASE Offered
  <2>1. main = "offer" /\ Answered /\ main' = "pause" /\ AskNothing
        /\ UNCHANGED <<outputs, saved, available, slots, tasks, over, reachable, faults>>
    BY <1>2 DEF Offered, StepEnds, Fleet, World
  <2>2. PICK b \in Benchmarks : /\ stage[b] = "new"
                                /\ stage' = [stage EXCEPT ![b] = "offered"] /\ row' = b
    BY <1>2 DEF Offered
  <2>3. Pending = {} /\ tasks' = NoTasks /\ calls' = {}
    BY <2>1, NothingPending, NoTasksYet DEF AskNothing
  <2>4. TypeOK
    BY DEF SharedInv
  <2>5. OthersTyped'
    BY <2>1, <2>2, <2>4 DEF TypeOK, OthersTyped
  <2>6. \A k \in Benchmarks : HandedOver(k) => HandedOver(k)'
    BY <2>2, <2>4 DEF HandedOver, TypeOK
  <2> QED
    BY <2>1, <2>3, <2>5, <2>6, HelloIsAMessage, StepTaken DEF Talks
<1> QED
  BY <1>1, <1>2

LEMMA Validates ==
  ASSUME SharedInv, StepBenchmark \/ Check
  PROVE  SharedInv'
<1>0. TypeOK
  BY DEF SharedInv
<1>1. CASE StepBenchmark
  <2>1. /\ main = "pause" /\ row # None /\ main' = "check" /\ SayHello
        /\ stage' = IF stage[row] = "offered" THEN [stage EXCEPT ![row] = "saved"] ELSE stage
        /\ UNCHANGED <<outputs, row, saved, available, slots, tasks, over, reachable, faults>>
    BY <1>1 DEF StepBenchmark, Fleet, World
  <2>2. Pending = {} /\ tasks' = NoTasks
    BY <2>1, NothingPending, NoTasksYet
  <2>3. OthersTyped'
    BY <1>0, <2>1 DEF TypeOK, OthersTyped
  <2>4. \A k \in Benchmarks : HandedOver(k) => HandedOver(k)'
    BY <1>0, <2>1 DEF HandedOver, TypeOK
  <2> QED
    BY <2>1, <2>2, <2>3, <2>4, HelloIsAMessage, StepTaken DEF Talks
<1>2. CASE Check
  <2>1. main = "check" /\ Answered /\ main' = "validate" /\ Ask(About("validate", row, row))
        /\ UNCHANGED <<stage, outputs, row, saved, available, slots, tasks, over, reachable, faults>>
    BY <1>2 DEF Check, Durable, Fleet, World
  <2>2. Pending = {} /\ tasks' = NoTasks /\ row \in Benchmarks
    BY <2>1, NothingPending, NoTasksYet, RowInHand
  <2>3. PICK m : m = About("validate", row, row)
    OBVIOUS
  <2>4. m \in Message /\ m.op = "validate" /\ m = About("validate", row, row)'
    BY <2>1, <2>2, <2>3, AboutIsAMessage DEF About, MessageTo
  <2>5. OthersTyped'
    BY <1>0, <2>1 DEF TypeOK, OthersTyped
  <2>6. row' # None
    BY <2>1, <2>2, NoneAssumption
  <2> QED
    BY <2>1, <2>2, <2>3, <2>4, <2>5, <2>6, StageKept, StepTaken DEF Talks
<1> QED
  BY <1>1, <1>2

LEMMA NoSlotTaken ==
  ASSUME tasks' = NoTasks, NEW i \in Backends
  PROVE  Cardinality(Holding(i)') = 0
<1>1. Holding(i)' = {}
  BY DEF NoTasks, Backends, Holding
<1> QED
  BY <1>1, FS_EmptySet

LEMMA Hands ==
  ASSUME SharedInv, Validated
  PROVE  SharedInv'
<1>0. TypeOK
  BY DEF SharedInv
<1>1. /\ main \in {"check", "validate"} /\ (Answered \/ HelperError)
      /\ stage' \in {stage, [stage EXCEPT ![row] = "owned"]}
      /\ UNCHANGED <<outputs, row, saved, tasks, over, reachable>>
  BY DEF Validated, World
<1>2. Pending = {} /\ tasks' = NoTasks /\ row \in Benchmarks /\ row # None
  BY <1>1, NothingPending, NoTasksYet, RowInHand, NoneAssumption
<1>3. \A k \in Benchmarks : HandedOver(k) => HandedOver(k)'
  BY <1>0, <1>1, <1>2 DEF HandedOver, TypeOK
<1>4. CASE main' = "recheck" /\ SayHello /\ Confirmed
           /\ (\E ok \in BOOLEAN : LocalPrepared(ok))
           /\ (faults' = faults \/ Fault("local"))
  <2>1. PICK ok \in BOOLEAN : LocalPrepared(ok)
    BY <1>4
  <2>2. ~available'["remote"] /\ \A i \in Backends : available'[i] => slots'[i] = Capacity(i)'
    BY <2>1 DEF LocalPrepared, Backends, Capacity
  <2>3. available' \in [Backends -> BOOLEAN]
        /\ slots' \in [Backends -> 0 .. LocalWorkers + RemoteWorkers]
    <3>1. LocalWorkers \in 0 .. LocalWorkers + RemoteWorkers /\ 0 \in 0 .. LocalWorkers + RemoteWorkers
      BY FleetAssumption, HelperWorkersAssumption
    <3> QED
      BY <2>1, <3>1 DEF LocalPrepared
  <2>4. faults' \in 0 .. MaxFaults
    BY <1>0, <1>4, FleetAssumption DEF Fault, TypeOK
  <2>5. OthersTyped'
    BY <1>0, <1>1, <1>2, <1>4, <2>3, <2>4 DEF TypeOK, OthersTyped
  <2>6. StepInHand'
    BY <1>1, <1>2, <1>4, <2>2 DEF StepInHand, Confirmed, NoTasks, Capacity
  <2> QED
    BY <1>2, <1>3, <1>4, <2>5, <2>6, HelloIsAMessage, StepTalks DEF Talks
<1>5. CASE StepEnds /\ UNCHANGED <<available, slots, faults>>
  <2>1. main' = "pause" /\ AskNothing /\ calls' = {}
    BY <1>5 DEF StepEnds, AskNothing
  <2>2. OthersTyped'
    BY <1>0, <1>1, <1>2, <1>5, <2>1 DEF TypeOK, OthersTyped
  <2> QED
    BY <1>2, <1>3, <2>1, <2>2, HelloIsAMessage, StepTaken DEF Talks
<1>6. TRUE \in BOOLEAN /\ FALSE \in BOOLEAN
  OBVIOUS
<1> QED
  BY <1>4, <1>5, <1>6 DEF Validated

LEMMA PreparesHelper ==
  ASSUME SharedInv, Recheck \/ RemotePrepared \/ RemoteOmitted
  PROVE  SharedInv'
<1>0. TypeOK /\ StepInHand
  BY DEF SharedInv
<1>1. /\ main \in {"recheck", "prepare"} /\ (Answered \/ HelperError)
      /\ UNCHANGED <<stage, outputs, row, tasks, over, reachable, faults>>
  BY DEF Recheck, RemotePrepared, RemoteOmitted, Durable, Fleet, World
<1>2. /\ Pending = {} /\ tasks' = NoTasks /\ row \in Benchmarks /\ row # None
      /\ stage[row] = "owned"
  BY <1>0, <1>1, NothingPending, NoTasksYet, RowInHand, NoneAssumption DEF StepInHand
<1>3. /\ ~available["remote"] /\ \A i \in Backends : available[i] => slots[i] = Capacity(i)
  BY <1>0, <1>1 DEF StepInHand
<1>4. CASE Recheck
  <2>1. main' = "prepare" /\ Ask(About("prepare", row, row)) /\ UNCHANGED <<saved, available, slots>>
    BY <1>4 DEF Recheck, Fleet
  <2>2. PICK m : m = About("prepare", row, row)
    OBVIOUS
  <2>3. /\ m \in Message /\ m.op = "prepare" /\ m.bench = row
        /\ m = About("prepare", row, row)'
    BY <1>1, <1>2, <2>2, AboutIsAMessage DEF About, MessageTo
  <2>4. OthersTyped'
    BY <1>0, <1>1, <2>1 DEF TypeOK, OthersTyped
  <2>5. StepInHand'
    BY <1>0, <1>1, <1>2, <1>3, <2>1 DEF StepInHand, Capacity
  <2>6. HandedOver(m.bench)'
    BY <1>1, <1>2, <2>3 DEF HandedOver
  <2> QED
    BY <1>1, <1>2, <2>1, <2>2, <2>3, <2>4, <2>5, <2>6, StageKept, StepTalks DEF Talks
<1>5. CASE RemotePrepared
  <2>1. /\ main = "prepare" /\ Answered /\ main' = "compute" /\ AskNothing /\ saved' = row
        /\ available' = [available EXCEPT !["remote"] = TRUE]
        /\ slots' = [slots EXCEPT !["remote"] = RemoteWorkers]
    BY <1>5 DEF RemotePrepared
  <2>2. RemoteWorkers \in 0 .. LocalWorkers + RemoteWorkers /\ "remote" \in Backends
    BY FleetAssumption, HelperWorkersAssumption DEF Backends
  <2>3. OthersTyped'
    BY <1>0, <1>1, <1>2, <2>1, <2>2 DEF TypeOK, OthersTyped
  <2>4. StepInHand'
    BY <1>0, <1>1, <1>2, <2>1 DEF StepInHand, NoTasks
  <2>5. \A i \in Backends : available'[i] => slots'[i] = Capacity(i) /\ slots'[i] \in Nat
    BY <1>0, <1>3, <2>1, <2>2, FleetAssumption DEF Capacity, TypeOK
  <2>6. SlotsConserved'
    BY <1>2, <2>5, NoSlotTaken DEF SlotsConserved, Capacity
  <2>7. attached => prepared \in runtimes \cup {None}
    <3>1. PICK c \in calls : c.state = "ok"
      BY <2>1 DEF Answered
    <3>2. c.to.op = "prepare"
      <4>1. c.to = About("prepare", row, row)
        BY <2>1 DEF SharedInv, MainCalls
      <4> QED
        BY <4>1 DEF About, MessageTo
    <3> QED
      BY <3>1, <3>2 DEF SharedInv, PreparedIsReady
  <2>8. calls' = {}
    BY <2>1 DEF AskNothing
  <2> QED
    BY <1>1, <1>2, <2>1, <2>3, <2>4, <2>6, <2>7, <2>8, HelloIsAMessage, StageKept, StepTalks DEF Talks
<1>6. CASE RemoteOmitted
  <2>1. /\ main' \in {"compute", "pause"} /\ AskNothing /\ calls' = {}
        /\ UNCHANGED <<saved, available, slots>>
    BY <1>6 DEF RemoteOmitted, AskNothing, Fleet
  <2>2. OthersTyped'
    BY <1>0, <1>1, <2>1 DEF TypeOK, OthersTyped
  <2>3. StepInHand'
    BY <1>0, <1>1, <1>2, <1>3, <2>1 DEF StepInHand, NoTasks
  <2>4. \A i \in Backends : available'[i] => slots'[i] = Capacity(i) /\ slots'[i] \in Nat
    BY <1>0, <1>3, <2>1 DEF TypeOK
  <2>5. SlotsConserved'
    BY <1>2, <2>4, NoSlotTaken DEF SlotsConserved, Capacity
  <2> QED
    BY <1>1, <1>2, <1>3, <2>1, <2>2, <2>3, <2>5, HelloIsAMessage, StageKept, StepTalks DEF Talks
<1> QED
  BY <1>4, <1>5, <1>6

LEMMA Concludes ==
  ASSUME SharedInv, StepConcluded \/ Released
  PROVE  SharedInv'
<1>0. TypeOK
  BY DEF SharedInv
<1>1. UNCHANGED <<outputs, available, slots, tasks, over, reachable, faults>>
  BY DEF StepConcluded, Released, Fleet, World
<1>2. CASE Finish(row) /\ StepEnds /\ saved' \in {saved, None} /\ row \in Benchmarks
           /\ (main = "pause" \/ (main = "release" /\ Answered))
  <2>1. /\ stage' = [stage EXCEPT ![row] = "finished"] /\ row' = None
        /\ main' = "pause" /\ AskNothing /\ calls' = {}
    BY <1>2 DEF Finish, StepEnds, AskNothing
  <2>2. Pending = {} /\ tasks' = NoTasks
    BY <1>1, <1>2, NothingPending, NoTasksYet
  <2>3. \A k \in Benchmarks : HandedOver(k) => HandedOver(k)'
    BY <1>0, <1>2, <2>1 DEF HandedOver, TypeOK
  <2>4. OthersTyped'
    BY <1>0, <1>1, <1>2, <2>1 DEF TypeOK, OthersTyped
  <2> QED
    BY <2>1, <2>2, <2>3, <2>4, HelloIsAMessage, StepTaken DEF Talks
<1>3. CASE main = "pause" /\ ~NothingToRelease /\ main' = "release" /\ row \in over
           /\ Ask(About("release", row, saved)) /\ UNCHANGED <<stage, row, saved>>
  <2>1. saved # None /\ saved \in Benchmarks /\ row \in Benchmarks /\ row # None
    BY <1>0, <1>3, NoneAssumption DEF NothingToRelease, TypeOK
  <2>2. Pending = {} /\ tasks' = NoTasks
    BY <1>1, <1>3, NothingPending, NoTasksYet
  <2>3. PICK m : m = About("release", row, saved)
    OBVIOUS
  <2>4. m \in Message /\ m.op = "release" /\ m = About("release", row, saved)'
    BY <1>3, <2>1, <2>3, AboutIsAMessage DEF About, MessageTo
  <2>5. OthersTyped'
    BY <1>0, <1>1, <1>3 DEF TypeOK, OthersTyped
  <2>6. StepInHand'
    BY <1>3, <2>1, <2>2 DEF StepInHand, NoTasks
  <2> QED
    BY <1>3, <2>2, <2>3, <2>4, <2>5, <2>6, StageKept, StepTalks DEF Talks
<1>4. CASE StepConcluded
  <2>1. main = "pause" /\ row \in over /\ row \in Benchmarks /\ saved' = saved
    BY <1>0, <1>4 DEF StepConcluded, TypeOK
  <2>2. CASE Finish(row) /\ StepEnds
    BY <1>2, <2>1, <2>2
  <2>3. CASE ~NothingToRelease /\ main' = "release" /\ Ask(About("release", row, saved))
             /\ UNCHANGED <<stage, row>>
    BY <1>3, <2>1, <2>3
  <2> QED
    BY <1>4, <2>2, <2>3 DEF StepConcluded
<1>5. CASE Released
  <2>1. main = "release" /\ Answered /\ saved' = None /\ Finish(row) /\ StepEnds
    BY <1>5 DEF Released
  <2> QED
    BY <1>2, <2>1, RowInHand
<1> QED
  BY <1>4, <1>5

-----------------------------------------------------------------------------
(* The executor and its threads.                                           *)

LEMMA BackendNames == \A i \in Backends : i \in {"local", "remote"}
  BY DEF Backends

\* A slot goes from the queue to a thread and back.
LEMMA TaskMoves ==
  ASSUME TypeOK, NEW n \in Nonces, NEW t, tasks' = [tasks EXCEPT ![n] = t], NEW i
  PROVE  /\ Cardinality(Holding(i)) \in Nat /\ Cardinality(Holding(i)') \in Nat
         /\ tasks[n] # i /\ t # i => Cardinality(Holding(i)') = Cardinality(Holding(i))
         /\ tasks[n] # i /\ t = i => Cardinality(Holding(i)') = Cardinality(Holding(i)) + 1
         /\ tasks[n] = i /\ t # i => Cardinality(Holding(i)') = Cardinality(Holding(i)) - 1
<1> DEFINE Old == Holding(i)
           New == Holding(i)'
<1>1. IsFiniteSet(Nonces)
  BY NumNoncesAssumption, FS_Interval DEF Nonces
<1>2. IsFiniteSet(Old) /\ IsFiniteSet(New)
  BY <1>1, FS_Subset DEF Holding
<1>3. Cardinality(Old) \in Nat /\ Cardinality(New) \in Nat
  BY <1>2, FS_CardinalityType
<1>4. tasks'[n] = t /\ \A k \in Nonces : k # n => tasks'[k] = tasks[k]
  BY DEF TypeOK
<1>5. CASE tasks[n] # i /\ t # i
  <2>1. New = Old
    BY <1>4, <1>5 DEF Holding
  <2> QED
    BY <1>3, <1>5, <2>1
<1>6. CASE tasks[n] # i /\ t = i
  <2>1. New = Old \cup {n} /\ n \notin Old
    BY <1>4, <1>6 DEF Holding
  <2>2. Cardinality(New) = Cardinality(Old) + 1
    BY <1>2, <2>1, FS_AddElement
  <2> QED
    BY <1>3, <1>6, <2>2
<1>7. CASE tasks[n] = i /\ t # i
  <2>1. New = Old \ {n} /\ n \in Old
    BY <1>4, <1>7 DEF Holding
  <2>2. Cardinality(New) = Cardinality(Old) - 1
    BY <1>2, <2>1, FS_RemoveElement
  <2> QED
    BY <1>3, <1>7, <2>2
<1>8. CASE tasks[n] = i /\ t = i
  BY <1>3, <1>8
<1> QED
  BY <1>3, <1>5, <1>6, <1>7, <1>8

\* A step of the executor that asks the helper nothing new.
LEMMA ComputesOn ==
  ASSUME SharedInv, HelperStays, UNCHANGED <<stage, row, session, saved>>,
         main \in {"compute", "shutdown"}, main' \in {"compute", "shutdown"},
         calls' \subseteq calls, Pending \subseteq calls',
         \A c \in calls' : \E n \in Nonces : tasks'[n] = "remote" /\ c.to = ComputeCall(n),
         available'["remote"] => available["remote"],
         TypeOK', StepInHand', SlotsConserved'
  PROVE  SharedInv'
<1>0. HelperInv /\ MainCalls /\ SessionAsked /\ PreparedIsReady /\ ReceivedSaved
  BY DEF SharedInv
<1>1. HelperInv' /\ UnderWay' = UnderWay /\ Requests' = Requests
  BY <1>0, HelperIdle
<1>2. /\ OutputKept /\ active' = active /\ running' = running /\ prepared' = prepared
      /\ attached' = attached /\ replies' = replies /\ runtimes' = runtimes /\ nonces' = nonces
  BY DEF HelperStays, helperVars, process, OutputKept, evidenceVars
<1>3. HandoverFirst'
  BY <1>1, <1>2, HelloIsAMessage, StageKept, HandoverKept
<1>4. MainCalls'
  <2>1. \A n : ComputeCall(n)' = ComputeCall(n)
    BY DEF ComputeCall, MessageTo
  <2> QED
    BY <1>0, <2>1 DEF MainCalls
<1>5. SessionAsked'
  <2>1. Pending \subseteq Pending'
    BY DEF Pending
  <2> QED
    BY <1>0, <1>1, <1>2, <2>1 DEF SessionAsked
<1>6. PreparedIsReady' /\ ReceivedSaved'
  BY <1>0, <1>2 DEF PreparedIsReady, ReceivedSaved
<1> QED
  BY <1>1, <1>3, <1>4, <1>5, <1>6 DEF SharedInv

LEMMA CallsOfThreads ==
  SharedInv /\ main \in {"compute", "shutdown"} =>
      /\ \A c \in calls : \E n \in Nonces : tasks[n] = "remote" /\ c.to = ComputeCall(n)
      /\ Pending \subseteq calls
  BY DEF SharedInv, MainCalls, Pending

LEMMA Submits ==
  ASSUME SharedInv, Submit
  PROVE  SharedInv'
<1>0. TypeOK /\ StepInHand /\ SlotsConserved
  BY DEF SharedInv
<1>1. /\ main = "compute" /\ HelperStays
      /\ UNCHANGED <<stage, outputs, row, main, session, calls, saved, available, slots, over, reachable, faults>>
  BY DEF Submit, Durable, World
<1>2. PICK n \in MissingOutputs(row) \ InFlight : tasks' = [tasks EXCEPT ![n] = "waiting"]
  BY DEF Submit
<1>3. n \in Nonces /\ outputs[row][n] = None /\ tasks[n] = "idle"
  BY <1>2 DEF MissingOutputs, InFlight
<1>4. tasks'[n] = "waiting" /\ \A k \in Nonces : k # n => tasks'[k] = tasks[k]
  BY <1>0, <1>2, <1>3 DEF TypeOK
<1>5. TypeOK'
  <2>1. HelperTypeOK'
    BY <1>1, HelperIdle DEF SharedInv, HelperInv
  <2> QED
    BY <1>0, <1>1, <1>2, <2>1 DEF TypeOK
<1>6. StepInHand'
  BY <1>0, <1>1, <1>3, <1>4 DEF StepInHand
<1>7. SlotsConserved'
  <2>1. \A i \in Backends : tasks[n] # i /\ "waiting" # i
    BY <1>3, BackendNames
  <2>2. \A i \in Backends : Cardinality(Holding(i)') = Cardinality(Holding(i))
    BY <1>0, <1>2, <1>3, <2>1, TaskMoves
  <2> QED
    BY <1>0, <1>1, <2>2 DEF SlotsConserved, Capacity
<1>8. \A c \in calls' : \E k \in Nonces : tasks'[k] = "remote" /\ c.to = ComputeCall(k)
  BY <1>1, <1>3, <1>4, CallsOfThreads
<1> QED
  BY <1>1, <1>5, <1>6, <1>7, <1>8, ComputesOn, CallsOfThreads

LEMMA Saves ==
  ASSUME SharedInv, SaveOutput
  PROVE  SharedInv'
<1>0. TypeOK /\ StepInHand /\ SlotsConserved
  BY DEF SharedInv
<1>1. /\ main = "compute" /\ HelperStays /\ row \in Benchmarks
      /\ UNCHANGED <<stage, row, main, session, calls, saved, available, slots, over, reachable, faults>>
  BY RowInHand DEF SaveOutput, World
<1>2. PICK n \in Nonces : /\ tasks[n] \in Leaves
                          /\ outputs' = [outputs EXCEPT ![row][n] = tasks[n]]
                          /\ tasks' = [tasks EXCEPT ![n] = "idle"]
  BY DEF SaveOutput
<1>3. tasks[n] \notin {"idle", "waiting", "local", "remote", "failed"}
  BY <1>2, TaskAssumption
<1>4. tasks'[n] = "idle" /\ (\A k \in Nonces : k # n => tasks'[k] = tasks[k])
      /\ \A k \in Nonces : k # n => outputs'[row][k] = outputs[row][k]
  BY <1>0, <1>1, <1>2 DEF TypeOK
<1>5. TypeOK'
  <2>1. HelperTypeOK'
    BY <1>1, HelperIdle DEF SharedInv, HelperInv
  <2> QED
    BY <1>0, <1>1, <1>2, <2>1 DEF TypeOK
<1>6. StepInHand'
  BY <1>0, <1>1, <1>4 DEF StepInHand
<1>7. SlotsConserved'
  <2>1. \A i \in Backends : Cardinality(Holding(i)') = Cardinality(Holding(i))
    BY <1>0, <1>2, <1>3, TaskMoves, BackendNames
  <2> QED
    BY <1>0, <1>1, <2>1 DEF SlotsConserved, Capacity
<1>8. \A c \in calls' : \E k \in Nonces : tasks'[k] = "remote" /\ c.to = ComputeCall(k)
  BY <1>1, <1>3, <1>4, CallsOfThreads
<1> QED
  BY <1>1, <1>5, <1>6, <1>7, <1>8, ComputesOn, CallsOfThreads

LEMMA FailsAndShutsDown ==
  ASSUME SharedInv, TaskFailed
  PROVE  SharedInv'
<1>0. TypeOK /\ StepInHand /\ SlotsConserved
  BY DEF SharedInv
<1>1. /\ main = "compute" /\ main' = "shutdown" /\ HelperStays
      /\ UNCHANGED <<stage, outputs, row, session, calls, saved, available, slots, tasks,
                     over, reachable, faults>>
  BY DEF TaskFailed, Durable, Fleet, World
<1>2. TypeOK'
  <2>1. HelperTypeOK'
    BY <1>1, HelperIdle DEF SharedInv, HelperInv
  <2> QED
    BY <1>0, <1>1, <2>1 DEF TypeOK
<1>3. StepInHand' /\ SlotsConserved'
  BY <1>0, <1>1 DEF StepInHand, SlotsConserved, Holding, Capacity
<1> QED
  BY <1>1, <1>2, <1>3, ComputesOn, CallsOfThreads

\* The executor ends with its batch or after a failure: no thread is left.
LEMMA ExecutorDone ==
  ASSUME SharedInv, Shutdown \/ Completed
  PROVE  tasks' = NoTasks /\ \A n \in Nonces : tasks[n] # "remote"
<1>0. TypeOK /\ StepInHand
  BY DEF SharedInv
<1>1. CASE Shutdown
  BY <1>1 DEF Shutdown
<1>2. CASE Completed
  <2>1. \A n \in Nonces : tasks[n] = "idle"
    BY <1>0, <1>2 DEF Completed, MissingOutputs, StepInHand
  <2>2. tasks = NoTasks
    BY <1>0, <2>1 DEF NoTasks, TypeOK
  <2> QED
    BY <1>2, <2>1, <2>2 DEF Completed, Fleet
<1> QED
  BY <1>1, <1>2

LEMMA ExecutorEnds ==
  ASSUME SharedInv, Shutdown \/ Completed
  PROVE  SharedInv'
<1>0. TypeOK /\ StepInHand
  BY DEF SharedInv
<1>1. /\ main \in {"compute", "shutdown"} /\ main' = "pause" /\ AskNothing /\ calls' = {}
      /\ UNCHANGED <<stage, outputs, row, saved, available, slots, over, reachable, faults>>
  BY DEF Shutdown, Completed, StepEnds, AskNothing, Durable, Fleet, World
<1>2. tasks' = NoTasks /\ \A n \in Nonces : tasks[n] # "remote"
  BY ExecutorDone
<1>3. Pending = {}
  BY <1>1, <1>2, CallsOfThreads DEF Pending
<1>4. OthersTyped'
  BY <1>0, <1>1, <1>2 DEF TypeOK, NoTasks, OthersTyped
<1> QED
  BY <1>1, <1>2, <1>3, <1>4, HelloIsAMessage, StageKept, StepTaken DEF Talks

\* Threads exist only while the executor does.
LEMMA ThreadsRun ==
  ASSUME SharedInv, NEW n \in Nonces, tasks[n] # "idle"
  PROVE  main \in {"compute", "shutdown"} /\ row \in Benchmarks /\ outputs[row][n] = None
<1>1. main \in {"compute", "shutdown"}
  BY DEF SharedInv, StepInHand, NoTasks
<1>2. outputs[row][n] = None
  BY <1>1 DEF SharedInv, StepInHand
<1> QED
  BY <1>1, <1>2, RowInHand

\* A thread's step, as far as it leaves the helper alone.
LEMMA ThreadMoves ==
  ASSUME SharedInv, NEW n \in Nonces, tasks[n] # "idle", NEW t, tasks' = [tasks EXCEPT ![n] = t],
         t \in {"waiting", "failed"} \cup Backends \cup Leaves,
         UNCHANGED <<stage, outputs, row, main, session, saved, over, reachable>>,
         available' \in [Backends -> BOOLEAN],
         slots' \in [Backends -> 0 .. LocalWorkers + RemoteWorkers],
         faults' \in 0 .. MaxFaults, calls' \subseteq Call, HelperTypeOK',
         available'["remote"] => available["remote"]
  PROVE  TypeOK' /\ StepInHand'
<1>0. TypeOK /\ StepInHand
  BY DEF SharedInv
<1>1. main \in {"compute", "shutdown"} /\ row \in Benchmarks /\ outputs[row][n] = None
  BY ThreadsRun
<1>2. t \in {"idle", "waiting", "local", "remote", "failed"} \cup Leaves
  BY BackendNames
<1>3. TypeOK'
  BY <1>0, <1>2 DEF TypeOK
<1>4. tasks'[n] = t /\ \A k \in Nonces : k # n => tasks'[k] = tasks[k]
  BY <1>0 DEF TypeOK
<1>5. t \in {"local", "remote"} => t \in Backends
  BY TaskAssumption
<1>6. StepInHand'
  BY <1>0, <1>1, <1>4, <1>5 DEF StepInHand
<1> QED
  BY <1>3, <1>6

LEMMA GivesUp ==
  ASSUME SharedInv, NEW n \in Nonces, NobodyLeft(n)
  PROVE  SharedInv'
<1>0. TypeOK
  BY DEF SharedInv
<1>1. /\ tasks[n] = "waiting" /\ tasks' = [tasks EXCEPT ![n] = "failed"] /\ HelperStays
      /\ \A i \in Backends : ~available[i]
      /\ UNCHANGED <<stage, outputs, row, main, session, calls, saved, available, slots,
                     over, reachable, faults>>
  BY DEF NobodyLeft, AllDisconnected, Durable, World
<1>2. main \in {"compute", "shutdown"}
  BY <1>1, ThreadsRun
<1>3. HelperTypeOK'
  BY <1>1, HelperIdle DEF SharedInv, HelperInv
<1>4. TypeOK' /\ StepInHand'
  <2>1. /\ available' \in [Backends -> BOOLEAN]
        /\ slots' \in [Backends -> 0 .. LocalWorkers + RemoteWorkers]
        /\ faults' \in 0 .. MaxFaults /\ calls' \subseteq Call
    BY <1>0, <1>1 DEF TypeOK
  <2> QED
    BY <1>1, <1>3, <2>1, ThreadMoves
<1>5. SlotsConserved'
  BY <1>1 DEF SlotsConserved
<1>6. \A c \in calls' : \E k \in Nonces : tasks'[k] = "remote" /\ c.to = ComputeCall(k)
  BY <1>0, <1>1, <1>2, CallsOfThreads DEF TypeOK
<1> QED
  BY <1>1, <1>2, <1>4, <1>5, <1>6, ComputesOn, CallsOfThreads

\* A thread ends and gives its slot back, if its backend is still available.
LEMMA SlotComesBack ==
  ASSUME SharedInv, NEW n \in Nonces, NEW i \in Backends, tasks[n] = i,
         NEW t, t \notin Backends, tasks' = [tasks EXCEPT ![n] = t],
         main' = main, available' = available,
         slots' = SlotReturned(i, available)
  PROVE  slots' \in [Backends -> 0 .. LocalWorkers + RemoteWorkers] /\ SlotsConserved'
<1>0. TypeOK /\ SlotsConserved /\ main \in {"compute", "shutdown"}
  <2>1. tasks[n] # "idle"
    BY BackendNames
  <2> QED
    BY <2>1, ThreadsRun DEF SharedInv
<1> DEFINE Old(k) == Cardinality(Holding(k))
           New(k) == Cardinality(Holding(k)')
<1>1. \A k \in Backends : /\ Old(k) \in Nat /\ New(k) \in Nat
                          /\ New(k) = IF k = i THEN Old(k) - 1 ELSE Old(k)
  BY <1>0, TaskMoves
<1>2. \A k \in Backends : available[k] => slots[k] + Old(k) = Capacity(k)
  BY <1>0 DEF SlotsConserved
<1> HIDE DEF Old, New
<1>3. \A k \in Backends : slots[k] \in Nat /\ Capacity(k) \in 0 .. LocalWorkers + RemoteWorkers
  BY <1>0, FleetAssumption, HelperWorkersAssumption DEF TypeOK, Capacity
<1>4. \A k \in Backends : slots'[k] = IF k = i /\ available[i] THEN slots[k] + 1 ELSE slots[k]
  BY <1>0 DEF SlotReturned, TypeOK
<1>5. slots' \in [Backends -> 0 .. LocalWorkers + RemoteWorkers]
  <2>1. available[i] => slots[i] + 1 \in 0 .. LocalWorkers + RemoteWorkers
    BY <1>1, <1>2, <1>3, FleetAssumption, HelperWorkersAssumption
  <2>2. CASE available[i]
    BY <1>0, <2>1, <2>2 DEF SlotReturned, TypeOK
  <2>3. CASE ~available[i]
    BY <1>0, <2>3 DEF SlotReturned, TypeOK
  <2> QED
    BY <2>2, <2>3
<1>6. \A k \in Backends : available[k] => slots'[k] + New(k) = Capacity(k)
  BY <1>1, <1>2, <1>3, <1>4
<1>7. SlotsConserved'
  BY <1>6 DEF SlotsConserved, New, Capacity
<1> QED
  BY <1>5, <1>7

LEMMA LocalThreadEnds ==
  ASSUME SharedInv, NEW n \in Nonces, LocalEnds(n)
  PROVE  SharedInv'
<1>0. TypeOK /\ StepInHand
  BY DEF SharedInv
<1>1. /\ tasks[n] = "local" /\ HelperStays /\ slots' = SlotReturned("local", available)
      /\ UNCHANGED <<stage, outputs, row, main, session, calls, saved, available, over, reachable>>
  BY DEF LocalEnds, Durable, World
<1>2. PICK t \in Leaves \cup {"failed"} : tasks' = [tasks EXCEPT ![n] = t]
  BY DEF LocalEnds
<1>3. main \in {"compute", "shutdown"} /\ "local" \in Backends
  BY <1>0, <1>1, ThreadsRun DEF StepInHand
<1>4. t \notin Backends
  BY <1>2, TaskAssumption, BackendNames
<1>5. slots' \in [Backends -> 0 .. LocalWorkers + RemoteWorkers] /\ SlotsConserved'
  BY <1>1, <1>2, <1>3, <1>4, SlotComesBack
<1>6. HelperTypeOK'
  BY <1>1, HelperIdle DEF SharedInv, HelperInv
<1>7. TypeOK' /\ StepInHand'
  <2>1. faults' \in 0 .. MaxFaults
    BY <1>0, FleetAssumption DEF LocalEnds, Fault, TypeOK
  <2>2. available' \in [Backends -> BOOLEAN] /\ calls' \subseteq Call
    BY <1>0, <1>1 DEF TypeOK
  <2> QED
    BY <1>1, <1>2, <1>5, <1>6, <2>1, <2>2, ThreadMoves
<1>8. \A c \in calls' : \E k \in Nonces : tasks'[k] = "remote" /\ c.to = ComputeCall(k)
  BY <1>0, <1>1, <1>2, <1>3, CallsOfThreads DEF TypeOK
<1> QED
  BY <1>1, <1>3, <1>5, <1>7, <1>8, ComputesOn, CallsOfThreads

LEMMA RemoteThreadEnds ==
  ASSUME SharedInv, NEW n \in Nonces, RemoteEnds(n)
  PROVE  SharedInv'
<1>0. TypeOK /\ StepInHand /\ MainCalls /\ ReceivedSaved /\ SlotsConserved
  BY DEF SharedInv
<1>1. /\ tasks[n] = "remote" /\ HelperStays
      /\ UNCHANGED <<stage, outputs, row, main, session, saved, over, reachable, faults>>
  BY DEF RemoteEnds, Durable, World
<1>2. PICK c \in calls :
         /\ c.to = ComputeCall(n) /\ c.state # "pending"
         /\ calls' = calls \ {c}
         /\ \/ /\ c.state = "ok"
               /\ tasks' = [tasks EXCEPT ![n] = c.leaf]
               /\ slots' = SlotReturned("remote", available)
               /\ UNCHANGED available
            \/ /\ c.state = "error"
               /\ tasks' = [tasks EXCEPT ![n] = "failed"]
               /\ available' = [available EXCEPT !["remote"] = FALSE]
               /\ UNCHANGED slots
            \/ /\ c.state = "unwritten"
               /\ tasks' = [tasks EXCEPT ![n] = "failed"]
               /\ slots' = SlotReturned("remote", available)
               /\ UNCHANGED available
  BY DEF RemoteEnds
<1>3. main \in {"compute", "shutdown"} /\ "remote" \in Backends
  BY <1>0, <1>1, ThreadsRun DEF StepInHand
<1>4. c.state = "ok" => c.leaf \in Leaves
  <2>1. c.to.op = "compute"
    BY <1>3, CallsByOperation
  <2> QED
    BY <1>0, <2>1 DEF ReceivedSaved, TypeOK, Call
<1>5. PICK t \in Leaves \cup {"failed"} : tasks' = [tasks EXCEPT ![n] = t]
  BY <1>2, <1>4
<1>6. t \notin Backends /\ t # "remote"
  BY <1>5, TaskAssumption, BackendNames
<1>7. /\ slots' \in [Backends -> 0 .. LocalWorkers + RemoteWorkers] /\ SlotsConserved'
      /\ available' \in [Backends -> BOOLEAN] /\ (available'["remote"] => available["remote"])
  <2>1. CASE available' = available /\ slots' = SlotReturned("remote", available)
    BY <1>0, <1>1, <1>3, <1>5, <1>6, <2>1, SlotComesBack DEF TypeOK
  <2>2. CASE available' = [available EXCEPT !["remote"] = FALSE] /\ slots' = slots
    <3>1. \A i \in Backends : available'[i] => available[i] /\ i # "remote"
      BY <1>0, <2>2 DEF TypeOK
    <3>2. \A i \in Backends : i # "remote" => tasks[n] # i /\ t # i
      BY <1>1, <1>6
    <3>3. \A i \in Backends : i # "remote" => Cardinality(Holding(i)') = Cardinality(Holding(i))
      BY <1>0, <1>5, <3>2, TaskMoves
    <3>4. SlotsConserved'
      BY <1>0, <1>3, <2>2, <3>1, <3>3 DEF SlotsConserved, Capacity
    <3> QED
      BY <1>0, <1>3, <2>2, <3>4 DEF TypeOK
  <2> QED
    BY <1>2, <2>1, <2>2
<1>8. HelperTypeOK'
  BY <1>1, HelperIdle DEF SharedInv, HelperInv
<1>9. TypeOK' /\ StepInHand'
  <2>1. faults' \in 0 .. MaxFaults /\ calls' \subseteq Call
    BY <1>0, <1>1, <1>2 DEF TypeOK
  <2> QED
    BY <1>1, <1>5, <1>7, <1>8, <2>1, ThreadMoves
<1>10. \A d \in calls' : \E k \in Nonces : tasks'[k] = "remote" /\ d.to = ComputeCall(k)
  <2> SUFFICES ASSUME NEW d \in calls, d # c
               PROVE  \E k \in Nonces : tasks'[k] = "remote" /\ d.to = ComputeCall(k)
    BY <1>2
  <2>1. PICK k \in Nonces : tasks[k] = "remote" /\ d.to = ComputeCall(k)
    BY <1>3, CallsOfThreads
  <2>2. k # n
    BY <1>0, <1>2, <2>1 DEF MainCalls
  <2>3. tasks'[k] = tasks[k]
    BY <1>0, <1>5, <2>2 DEF TypeOK
  <2> QED
    BY <2>1, <2>3
<1>11. calls' \subseteq calls /\ Pending \subseteq calls'
  BY <1>2 DEF Pending
<1> QED
  BY <1>1, <1>3, <1>7, <1>9, <1>10, <1>11, ComputesOn

LEMMA SlotTaken ==
  ASSUME SharedInv, NEW n \in Nonces, tasks[n] = "waiting", NEW i \in Backends, slots[i] > 0,
         slots' = [slots EXCEPT ![i] = @ - 1],
         tasks' = IF available[i] THEN [tasks EXCEPT ![n] = i] ELSE tasks,
         UNCHANGED <<stage, outputs, row, main, saved, available, session, over, reachable, faults>>,
         calls' \subseteq Call, HelperTypeOK'
  PROVE  /\ TypeOK' /\ StepInHand' /\ SlotsConserved'
         /\ \A k \in Nonces : tasks[k] = "remote" => tasks'[k] = "remote"
<1>0. TypeOK /\ SlotsConserved /\ main \in {"compute", "shutdown"}
  BY ThreadsRun DEF SharedInv
<1>1. PICK t \in {"waiting"} \cup Backends :
         tasks' = [tasks EXCEPT ![n] = t] /\ t = IF available[i] THEN i ELSE "waiting"
  <2>1. CASE available[i]
    BY <2>1
  <2>2. CASE ~available[i]
    <3>1. tasks' = [tasks EXCEPT ![n] = "waiting"]
      BY <1>0, <2>2 DEF TypeOK
    <3> QED
      BY <2>2, <3>1
  <2> QED
    BY <2>1, <2>2
<1>2. /\ \A k \in Backends : slots[k] \in Nat
      /\ \A k \in Backends : slots'[k] = IF k = i THEN slots[k] - 1 ELSE slots[k]
  BY <1>0 DEF TypeOK
<1>3. slots' \in [Backends -> 0 .. LocalWorkers + RemoteWorkers]
  <2>1. slots[i] - 1 \in 0 .. LocalWorkers + RemoteWorkers
    BY <1>0, FleetAssumption, HelperWorkersAssumption DEF TypeOK
  <2> QED
    BY <1>0, <2>1 DEF TypeOK
<1>4. TypeOK' /\ StepInHand'
  <2>1. available' \in [Backends -> BOOLEAN] /\ faults' \in 0 .. MaxFaults
    BY <1>0 DEF TypeOK
  <2> QED
    BY <1>1, <1>3, <2>1, ThreadMoves
<1>5. \A k \in Backends : available[k] =>
         /\ Cardinality(Holding(k)) \in Nat
         /\ Cardinality(Holding(k)') = IF k = i THEN Cardinality(Holding(k)) + 1
                                       ELSE Cardinality(Holding(k))
  <2>1. \A k \in Backends : tasks[n] # k
    BY BackendNames
  <2>2. \A k \in Backends : available[k] => (t = k <=> k = i)
    BY <1>1, BackendNames
  <2> SUFFICES ASSUME NEW k \in Backends, available[k]
               PROVE  /\ Cardinality(Holding(k)) \in Nat
                      /\ Cardinality(Holding(k)') = IF k = i THEN Cardinality(Holding(k)) + 1
                                                    ELSE Cardinality(Holding(k))
    OBVIOUS
  <2>3. tasks[n] # k /\ (t = k <=> k = i)
    BY <2>1, <2>2
  <2>4. /\ Cardinality(Holding(k)) \in Nat
        /\ tasks[n] # k /\ t # k => Cardinality(Holding(k)') = Cardinality(Holding(k))
        /\ tasks[n] # k /\ t = k => Cardinality(Holding(k)') = Cardinality(Holding(k)) + 1
    <3>1. TypeOK /\ tasks' = [tasks EXCEPT ![n] = t]
      BY <1>0, <1>1
    <3> QED
      BY <3>1, TaskMoves
  <2> QED
    BY <2>3, <2>4
<1>6. SlotsConserved'
  <2>1. \A k \in Backends : available[k] => slots[k] + Cardinality(Holding(k)) = Capacity(k)
    BY <1>0 DEF SlotsConserved
  <2>2. \A k \in Backends : available[k] => slots'[k] + Cardinality(Holding(k)') = Capacity(k)
    BY <1>2, <1>5, <2>1
  <2> QED
    BY <2>2 DEF SlotsConserved, Capacity
<1>7. \A k \in Nonces : tasks[k] = "remote" => tasks'[k] = "remote"
  BY <1>0, <1>1 DEF TypeOK
<1> QED
  BY <1>4, <1>6, <1>7

\* The thread of a nonce asks the helper, which is prepared for its benchmark.
LEMMA AsksHelper ==
  ASSUME SharedInv, NEW n \in Nonces, tasks[n] = "waiting", "remote" \in Backends,
         available["remote"], slots["remote"] > 0,
         slots' = [slots EXCEPT !["remote"] = @ - 1],
         tasks' = [tasks EXCEPT ![n] = "remote"],
         Deliver(ComputeCall(n)), calls' = calls \cup {Asked(ComputeCall(n))},
         UNCHANGED <<stage, outputs, row, main, saved, available, over, reachable, faults>>
  PROVE  SharedInv'
<1>0. /\ TypeOK /\ StepInHand /\ MainCalls /\ SessionAsked /\ HandoverFirst /\ PreparedIsReady
      /\ ReceivedSaved /\ HelperInv
  BY DEF SharedInv
<1>1. main \in {"compute", "shutdown"} /\ row \in Benchmarks /\ saved = row
  BY <1>0, ThreadsRun DEF StepInHand
<1>2. PICK m : m = ComputeCall(n)
  OBVIOUS
<1>3. m \in Message /\ m.op = "compute" /\ m.bench = row /\ m.nonce = n
  BY <1>1, <1>2, ComputeCallIsAMessage
<1>4. PICK new \in Call : /\ calls' = calls \cup {new} /\ new.to = m
                          /\ new.state \in {"pending", "error"}
                          /\ session => new.state = "pending"
  <2>1. Asked(m) \in Call /\ Asked(m).to = m /\ Asked(m).state = IF session THEN "pending" ELSE "error"
    BY <1>3 DEF Asked, Call
  <2> QED
    BY <1>2, <2>1
<1>5. \A c \in calls : c.to # m
  <2> SUFFICES ASSUME NEW c \in calls, c.to = m PROVE FALSE
    OBVIOUS
  <2>1. PICK k \in Nonces : tasks[k] = "remote" /\ c.to = ComputeCall(k)
    BY <1>1, CallsOfThreads
  <2>2. k = n
    BY <1>2, <2>1, NonceOfCall
  <2> QED
    BY <2>1, <2>2
<1>6. /\ OutputKept /\ UNCHANGED <<process, attached, replies, session>>
      /\ inbox' = IF attached THEN Append(inbox, m) ELSE inbox
  BY <1>2 DEF Deliver
<1>7. active' = active /\ running' = running /\ prepared' = prepared /\ runtimes' = runtimes
      /\ nonces' = nonces
  BY <1>6 DEF process, OutputKept, evidenceVars
<1>8. HelperInv' /\ Requests' \subseteq Requests \cup {m} /\ (attached => UnderWay' = UnderWay \cup {m})
  <2>1. CASE attached
    <3>1. m \notin UnderWay /\ \A k \in UnderWay : k.op # "prepare"
      <4>1. \A k \in UnderWay : \E c \in calls : c.to = k
        BY <1>0, <2>1 DEF SessionAsked, Pending
      <4> QED
        BY <1>1, <1>5, <4>1, CallsByOperation
    <3>2. \A k \in Requests : k.op # "prepare"
      BY <3>1 DEF UnderWay
    <3>3. prepared \in runtimes \cup {None}
      BY <1>0, <1>1, <2>1 DEF PreparedIsReady
    <3>4. m.bench # None /\ m.nonce # None
      BY <1>1, <1>3, NoneAssumption, NonceAssumption
    <3>5. HelperInv' /\ Requests' = Requests \cup {m} /\ UnderWay' = UnderWay \cup {m}
      BY <1>0, <1>3, <1>6, <2>1, <3>1, <3>2, <3>3, <3>4, LineArrives
    <3> QED
      BY <3>5
  <2>2. CASE ~attached
    <3>1. HelperStays
      BY <1>6, <2>2 DEF HelperStays, helperVars, OutputKept
    <3> QED
      BY <1>0, <2>2, <3>1, HelperIdle
  <2> QED
    BY <2>1, <2>2
<1>9. /\ TypeOK' /\ StepInHand' /\ SlotsConserved'
      /\ \A k \in Nonces : tasks[k] = "remote" => tasks'[k] = "remote"
  <2>1. HelperTypeOK' /\ calls' \subseteq Call /\ session' = session
    BY <1>0, <1>4, <1>6, <1>8 DEF HelperInv, TypeOK
  <2> QED
    BY <2>1, SlotTaken
<1>10. MainCalls'
  <2>1. \A k : ComputeCall(k)' = ComputeCall(k)
    BY DEF ComputeCall, MessageTo
  <2>2. tasks'[n] = "remote"
    BY <1>0 DEF TypeOK
  <2>3. \A c \in calls' : \E k \in Nonces : tasks'[k] = "remote" /\ c.to = ComputeCall(k)
    BY <1>1, <1>2, <1>4, <1>9, <2>2, CallsOfThreads
  <2>4. \A c, d \in calls' : c.to = d.to => c = d
    BY <1>0, <1>4, <1>5 DEF MainCalls
  <2> QED
    BY <1>1, <2>1, <2>3, <2>4 DEF MainCalls
<1>11. SessionAsked'
  <2>1. Pending \subseteq Pending' /\ (session => new \in Pending')
    BY <1>4 DEF Pending
  <2> QED
    BY <1>0, <1>4, <1>6, <1>8, <2>1 DEF SessionAsked
<1>12. HandoverFirst'
  BY <1>3, <1>6, <1>7, <1>8, StageKept, HandoverKept
<1>13. PreparedIsReady' /\ ReceivedSaved'
  BY <1>0, <1>4, <1>6, <1>7 DEF PreparedIsReady, ReceivedSaved
<1> QED
  BY <1>8, <1>9, <1>10, <1>11, <1>12, <1>13 DEF SharedInv

LEMMA Takes ==
  ASSUME SharedInv, NEW n \in Nonces, TakeSlot(n)
  PROVE  SharedInv'
<1>0. TypeOK
  BY DEF SharedInv
<1>1. /\ tasks[n] = "waiting"
      /\ UNCHANGED <<stage, outputs, row, main, saved, available, over, reachable, faults>>
  BY DEF TakeSlot, Durable, World
<1>2. PICK i \in Backends :
         /\ slots[i] > 0
         /\ slots' = [slots EXCEPT ![i] = @ - 1]
         /\ tasks' = IF available[i] THEN [tasks EXCEPT ![n] = i] ELSE tasks
         /\ IF i = "remote" /\ available[i]
            THEN Deliver(ComputeCall(n)) /\ calls' = calls \cup {Asked(ComputeCall(n))}
            ELSE HelperStays /\ UNCHANGED <<session, calls>>
  BY DEF TakeSlot
<1>3. CASE i = "remote" /\ available[i]
  BY <1>1, <1>2, <1>3, AsksHelper
<1>4. CASE ~(i = "remote" /\ available[i])
  <2>1. HelperStays /\ session' = session /\ calls' = calls
    BY <1>2, <1>4
  <2>2. main \in {"compute", "shutdown"}
    BY <1>1, ThreadsRun
  <2>3. HelperTypeOK' /\ calls' \subseteq Call
    BY <1>0, <2>1, HelperIdle DEF SharedInv, HelperInv, TypeOK
  <2>4. /\ TypeOK' /\ StepInHand' /\ SlotsConserved'
        /\ \A k \in Nonces : tasks[k] = "remote" => tasks'[k] = "remote"
    BY <1>1, <1>2, <2>1, <2>3, SlotTaken
  <2>5. \A c \in calls' : \E k \in Nonces : tasks'[k] = "remote" /\ c.to = ComputeCall(k)
    BY <2>1, <2>2, <2>4, CallsOfThreads
  <2> QED
    BY <1>1, <2>1, <2>2, <2>4, <2>5, ComputesOn, CallsOfThreads
<1> QED
  BY <1>3, <1>4

-----------------------------------------------------------------------------
(* The session, the pool and what goes wrong.                              *)

LEMMA Receives == SharedInv /\ Receive => SharedInv'
<1> SUFFICES ASSUME SharedInv, Receive PROVE SharedInv'
  OBVIOUS
<1>0. /\ TypeOK /\ StepInHand /\ MainCalls /\ SessionAsked /\ HandoverFirst /\ PreparedIsReady
      /\ ReceivedSaved /\ SlotsConserved /\ HelperInv
  BY DEF SharedInv
<1>1. /\ OutputKept /\ UNCHANGED <<process, attached, inbox>>
      /\ UNCHANGED <<stage, outputs, row, main, session, saved, available, slots, tasks,
                     over, reachable, faults>>
  BY DEF Receive, Durable, Fleet, World
<1>2. PICK r \in replies, c \in calls :
         /\ c.to = r.to /\ c.state = "pending"
         /\ replies' = replies \ {r}
         /\ calls' = (calls \ {c}) \cup
                {[to |-> r.to, state |-> IF r.ok THEN "ok" ELSE "error", leaf |-> r.leaf]}
  BY DEF Receive
<1>3. PICK new \in Call : /\ calls' = (calls \ {c}) \cup {new}
                          /\ new.to = r.to /\ new.leaf = r.leaf
                          /\ new.state = IF r.ok THEN "ok" ELSE "error"
  <2>1. r \in Reply
    BY <1>0 DEF HelperInv, HelperTypeOK
  <2>2. [to |-> r.to, state |-> IF r.ok THEN "ok" ELSE "error", leaf |-> r.leaf] \in Call
    BY <2>1 DEF Reply, Call
  <2> QED
    BY <1>2, <2>2
<1>4. HelperInv' /\ Requests' = Requests /\ UnderWay' = UnderWay \ {r.to}
  BY <1>0, <1>1, <1>2, ReplyReceived
<1>5. active' = active /\ running' = running /\ prepared' = prepared /\ runtimes' = runtimes
      /\ nonces' = nonces
  BY <1>1 DEF process, OutputKept, evidenceVars
<1>6. TypeOK'
  BY <1>0, <1>1, <1>3, <1>4 DEF TypeOK, HelperInv
<1>7. MainCalls' /\ StepInHand' /\ SlotsConserved'
  <2>1. \A k : ComputeCall(k)' = ComputeCall(k)
    BY <1>1 DEF ComputeCall, MessageTo
  <2>2. About("validate", row, row)' = About("validate", row, row)
        /\ About("prepare", row, row)' = About("prepare", row, row)
        /\ About("release", row, saved)' = About("release", row, saved)
    BY <1>1 DEF About, MessageTo
  <2>3. \A d \in calls' : \E e \in calls : d.to = e.to
    BY <1>2, <1>3
  <2>4. \A d, e \in calls' : d.to = e.to => d = e
    BY <1>0, <1>2, <1>3 DEF MainCalls
  <2>5. MainCalls'
    BY <1>0, <1>1, <2>1, <2>2, <2>3, <2>4 DEF MainCalls, Hello, MessageTo
  <2> QED
    BY <1>0, <1>1, <2>5 DEF StepInHand, SlotsConserved, Holding, Capacity
<1>8. SessionAsked'
  <2> SUFFICES ASSUME attached PROVE session /\ \A m \in UnderWay' : \E d \in Pending' : d.to = m
    BY <1>1 DEF SessionAsked
  <2>1. \A m \in UnderWay' : \E d \in Pending : d.to = m /\ d # c
    BY <1>0, <1>2, <1>4 DEF SessionAsked
  <2>2. \A d \in Pending : d # c => d \in Pending'
    BY <1>3 DEF Pending
  <2> QED
    BY <1>0, <2>1, <2>2 DEF SessionAsked
<1>9. HandoverFirst'
  BY <1>1, <1>4, <1>5, HelloIsAMessage, StageKept, HandoverKept
<1>10. PreparedIsReady'
  BY <1>0, <1>1, <1>2, <1>3, <1>5 DEF PreparedIsReady
<1>11. ReceivedSaved'
  BY <1>0, <1>3, <1>5 DEF ReceivedSaved, HelperInv, RepliesSaved
<1> QED
  BY <1>4, <1>6, <1>7, <1>8, <1>9, <1>10, <1>11 DEF SharedInv

\* The session ends: every pending call fails, or finds its line unwritten.
LEMMA CallsFail ==
  ASSUME SharedInv, NEW unwritten, unwritten \subseteq Pending,
         calls' = (calls \ Pending)
                \cup {[c EXCEPT !.state = "error"] : c \in Pending \ unwritten}
                \cup {[c EXCEPT !.state = "unwritten"] : c \in unwritten},
         UNCHANGED <<stage, outputs, row, main, saved, available, slots, tasks, nonces>>
  PROVE  calls' \subseteq Call /\ MainCalls' /\ StepInHand' /\ SlotsConserved' /\ ReceivedSaved'
<1>0. TypeOK /\ StepInHand /\ MainCalls /\ ReceivedSaved /\ SlotsConserved
  BY DEF SharedInv
<1> DEFINE Failed(d) == [d EXCEPT !.state = IF d \in unwritten THEN "unwritten" ELSE "error"]
<1>1. \A d \in Pending : d \in calls /\ Failed(d) \in Call /\ Failed(d).to = d.to /\ Failed(d).state # "ok"
  BY <1>0 DEF TypeOK, Call, Pending
<1>2. \A c \in calls' : c \in calls \ Pending \/ \E d \in Pending : c = Failed(d)
  OBVIOUS
<1> HIDE DEF Failed
<1>3. calls' \subseteq Call
  BY <1>0, <1>1, <1>2 DEF TypeOK
<1>4. \A c \in calls' : \E d \in calls : c.to = d.to
  BY <1>1, <1>2
<1>5. \A c, d \in calls' : c.to = d.to => c = d
  <2> SUFFICES ASSUME NEW c \in calls', NEW d \in calls', c.to = d.to PROVE c = d
    OBVIOUS
  <2>1. CASE c \in calls \ Pending /\ d \in calls \ Pending
    BY <1>0, <2>1 DEF MainCalls
  <2>2. CASE c \in calls \ Pending /\ \E e \in Pending : d = Failed(e)
    BY <1>0, <1>1, <2>2 DEF MainCalls
  <2>3. CASE d \in calls \ Pending /\ \E e \in Pending : c = Failed(e)
    BY <1>0, <1>1, <2>3 DEF MainCalls
  <2>4. CASE (\E e \in Pending : c = Failed(e)) /\ (\E e \in Pending : d = Failed(e))
    BY <1>0, <1>1, <2>4 DEF MainCalls
  <2> QED
    BY <1>2, <2>1, <2>2, <2>3, <2>4
<1>6. MainCalls'
  <2>1. \A k : ComputeCall(k)' = ComputeCall(k)
    BY DEF ComputeCall, MessageTo
  <2>2. About("validate", row, row)' = About("validate", row, row)
        /\ About("prepare", row, row)' = About("prepare", row, row)
        /\ About("release", row, saved)' = About("release", row, saved)
    BY DEF About, MessageTo
  <2> QED
    BY <1>0, <1>4, <1>5, <2>1, <2>2 DEF MainCalls, Hello, MessageTo
<1>7. StepInHand' /\ SlotsConserved'
  BY <1>0 DEF StepInHand, SlotsConserved, Holding, Capacity
<1>8. ReceivedSaved'
  BY <1>0, <1>1, <1>2 DEF ReceivedSaved
<1> QED
  BY <1>3, <1>6, <1>7, <1>8

LEMMA SessionStops == SharedInv /\ SessionEnds => SharedInv'
<1> SUFFICES ASSUME SharedInv, SessionEnds PROVE SharedInv'
  OBVIOUS
<1>0. TypeOK /\ HelperInv
  BY DEF SharedInv
<1>1. /\ session /\ ~attached /\ AllFail /\ HelperStays
      /\ UNCHANGED <<stage, outputs, row, main, saved, available, slots, tasks, over, reachable, faults>>
  BY DEF SessionEnds, Durable, Fleet, World
<1>2. /\ OutputKept /\ active' = active /\ running' = running /\ prepared' = prepared
      /\ attached' = attached /\ nonces' = nonces
  BY <1>1 DEF HelperStays, helperVars, process, OutputKept, evidenceVars
<1>3. calls' \subseteq Call /\ MainCalls' /\ StepInHand' /\ SlotsConserved' /\ ReceivedSaved'
  <2>1. PICK unwritten : unwritten = {}
    OBVIOUS
  <2>2. calls' = (calls \ Pending)
                \cup {[c EXCEPT !.state = "error"] : c \in Pending \ unwritten}
                \cup {[c EXCEPT !.state = "unwritten"] : c \in unwritten}
    BY <1>1, <2>1 DEF AllFail
  <2> QED
    BY <1>1, <1>2, <2>1, <2>2, CallsFail
<1>4. HelperInv' /\ Requests' = Requests
  BY <1>0, <1>1, HelperIdle
<1>5. HandoverFirst'
  BY <1>1, <1>2, <1>4, HelloIsAMessage, StageKept, HandoverKept
<1>6. SessionAsked' /\ PreparedIsReady'
  BY <1>1, <1>2 DEF SessionAsked, PreparedIsReady
<1>7. TypeOK'
  BY <1>0, <1>1, <1>3, <1>4 DEF TypeOK, HelperInv, AllFail
<1> QED
  BY <1>3, <1>4, <1>5, <1>6, <1>7 DEF SharedInv

LEMMA CallTimesOut == SharedInv /\ TimesOut => SharedInv'
<1> SUFFICES ASSUME SharedInv, TimesOut PROVE SharedInv'
  OBVIOUS
<1>0. TypeOK
  BY DEF SharedInv
<1>1. /\ session' = FALSE /\ Detached /\ OutputKept /\ Fault("timeout")
      /\ UNCHANGED process
      /\ UNCHANGED <<stage, outputs, row, main, saved, available, slots, tasks, over, reachable>>
  BY DEF TimesOut, Durable, Fleet, World
<1>2. PICK unwritten \in SUBSET Pending :
         /\ calls' = (calls \ Pending)
                \cup {[c EXCEPT !.state = "error"] : c \in Pending \ unwritten}
                \cup {[c EXCEPT !.state = "unwritten"] : c \in unwritten}
         /\ NotWritten({c.to : c \in unwritten})
  BY DEF TimesOut
<1>3. \E lost : NotWritten(lost)
  BY <1>2
<1>4. HelperInv' /\ SessionAsked' /\ HandoverFirst' /\ PreparedIsReady'
  BY <1>1, <1>3, StageKept, SessionBreaks
<1>5. nonces' = nonces /\ unwritten \subseteq Pending
  BY <1>1, <1>2 DEF OutputKept, evidenceVars
<1>6. calls' \subseteq Call /\ MainCalls' /\ StepInHand' /\ SlotsConserved' /\ ReceivedSaved'
  BY <1>1, <1>2, <1>5, CallsFail
<1>7. faults' \in 0 .. MaxFaults
  BY <1>0, <1>1, FleetAssumption DEF Fault, TypeOK
<1>8. TypeOK'
  BY <1>0, <1>1, <1>4, <1>6, <1>7 DEF TypeOK, HelperInv
<1> QED
  BY <1>4, <1>6, <1>8 DEF SharedInv

LEMMA LinkBreaks == SharedInv /\ CutLink => SharedInv'
<1> SUFFICES ASSUME SharedInv, CutLink PROVE SharedInv'
  OBVIOUS
<1>0. TypeOK /\ MainCalls /\ StepInHand /\ SlotsConserved /\ ReceivedSaved
  BY DEF SharedInv
<1>1. /\ Detached /\ OutputKept /\ UNCHANGED <<process, inbox>>
      /\ UNCHANGED <<stage, outputs, row, main, session, calls, saved, available, slots, tasks, over>>
      /\ (Fault("cut") /\ UNCHANGED reachable) \/ (Fault("gone") /\ reachable' = FALSE)
  BY DEF CutLink, masterVars
<1>2. HelperInv' /\ SessionAsked' /\ HandoverFirst' /\ PreparedIsReady'
  BY <1>1, StageKept, SessionBreaks
<1>3. faults' \in 0 .. MaxFaults
  BY <1>0, <1>1, FleetAssumption DEF Fault, TypeOK
<1>4. TypeOK'
  BY <1>0, <1>1, <1>2, <1>3 DEF TypeOK, HelperInv
<1>5. MainCalls'
  <2>1. \A k : ComputeCall(k)' = ComputeCall(k)
    BY <1>1 DEF ComputeCall, MessageTo
  <2> QED
    BY <1>0, <1>1, <2>1 DEF MainCalls, About, Hello, MessageTo
<1>6. StepInHand' /\ SlotsConserved' /\ ReceivedSaved'
  BY <1>0, <1>1 DEF StepInHand, SlotsConserved, Holding, Capacity, ReceivedSaved, OutputKept, evidenceVars
<1> QED
  BY <1>2, <1>4, <1>5, <1>6 DEF SharedInv

\* The master's process ends: nothing but its tables is left.
LEMMA MasterEnds ==
  ASSUME SharedInv, Crash \/ StartupFails
  PROVE  SharedInv'
<1>0. TypeOK
  BY DEF SharedInv
<1>1. /\ main' = "down" /\ session' = FALSE /\ calls' = {}
      /\ Detached /\ OutputKept /\ UNCHANGED <<process, inbox>>
      /\ UNCHANGED <<stage, outputs, row, over, reachable>>
  BY DEF Crash, StartupFails, Durable, World
<1>2. tasks' = NoTasks /\ saved' \in Benchmarks \cup {None}
      /\ available' \in [Backends -> BOOLEAN]
      /\ slots' \in [Backends -> 0 .. LocalWorkers + RemoteWorkers] /\ faults' \in 0 .. MaxFaults
  <2>1. CASE Crash
    <3>1. 0 \in 0 .. LocalWorkers + RemoteWorkers
      BY FleetAssumption, HelperWorkersAssumption
    <3> QED
      BY <1>0, <2>1, <3>1, FleetAssumption DEF Crash, Fault, NoneReady, NoSlots, TypeOK
  <2>2. CASE StartupFails
    <3>1. tasks = NoTasks
      BY <2>2, NoTasksYet DEF StartupFails
    <3> QED
      BY <1>0, <2>2, <3>1 DEF StartupFails, Fleet, TypeOK
  <2> QED
    BY <2>1, <2>2
<1>3. HelperInv' /\ SessionAsked' /\ HandoverFirst' /\ PreparedIsReady'
  BY <1>1, StageKept, SessionBreaks
<1>4. MainCalls' /\ SlotsConserved' /\ ReceivedSaved'
  BY <1>1 DEF MainCalls, SlotsConserved, ReceivedSaved
<1>5. StepInHand'
  BY <1>1, <1>2 DEF StepInHand, NoTasks
<1>6. TypeOK'
  BY <1>0, <1>1, <1>2, <1>3 DEF TypeOK, HelperInv, NoTasks
<1> QED
  BY <1>3, <1>4, <1>5, <1>6 DEF SharedInv

LEMMA FleetStutters == SharedInv /\ UNCHANGED vars => SharedInv'
<1> SUFFICES ASSUME SharedInv, UNCHANGED vars PROVE SharedInv'
  OBVIOUS
<1>1. HelperStays /\ UNCHANGED <<masterVars, World>> /\ faults' \in 0 .. MaxFaults
  BY DEF vars, HelperStays, World, SharedInv, TypeOK
<1>2. HelperInv' /\ UnderWay' = UnderWay /\ Requests' = Requests
  BY <1>1, HelperIdle DEF SharedInv
<1>3. Effect
  BY <1>1, <1>2 DEF Effect, HelperStays, helperVars, process, evidenceVars
<1> QED
  BY <1>1, <1>2, <1>3, HelperMoves

LEMMA PoolEnds == SharedInv /\ PoolConcludes => SharedInv'
<1> SUFFICES ASSUME SharedInv, PoolConcludes PROVE SharedInv'
  OBVIOUS
<1>0. /\ TypeOK /\ MainCalls /\ StepInHand /\ SlotsConserved /\ SessionAsked /\ HandoverFirst
      /\ PreparedIsReady /\ ReceivedSaved /\ HelperInv
  BY DEF SharedInv
<1>1. /\ row # None /\ over' = over \cup {row} /\ HelperStays
      /\ UNCHANGED <<stage, outputs, row, main, session, calls, saved, available, slots, tasks,
                     reachable, faults>>
  BY DEF PoolConcludes, masterVars
<1>2. HelperInv' /\ UnderWay' = UnderWay /\ Requests' = Requests
  BY <1>0, <1>1, HelperIdle
<1>3. /\ OutputKept /\ active' = active /\ running' = running /\ prepared' = prepared
      /\ attached' = attached /\ replies' = replies /\ runtimes' = runtimes /\ nonces' = nonces
  BY <1>1 DEF HelperStays, helperVars, process, OutputKept, evidenceVars
<1>4. TypeOK'
  BY <1>0, <1>1, <1>2 DEF TypeOK, HelperInv
<1>5. MainCalls'
  <2>1. \A k : ComputeCall(k)' = ComputeCall(k)
    BY <1>1 DEF ComputeCall, MessageTo
  <2> QED
    BY <1>0, <1>1, <2>1 DEF MainCalls, About, Hello, MessageTo
<1>6. StepInHand' /\ SlotsConserved' /\ ReceivedSaved'
  BY <1>0, <1>1, <1>3 DEF StepInHand, SlotsConserved, Holding, Capacity, ReceivedSaved
<1>7. SessionAsked' /\ PreparedIsReady'
  BY <1>0, <1>1, <1>2, <1>3 DEF SessionAsked, PreparedIsReady, Pending
<1>8. HandoverFirst'
  BY <1>1, <1>2, <1>3, HelloIsAMessage, StageKept, HandoverKept
<1> QED
  BY <1>2, <1>4, <1>5, <1>6, <1>7, <1>8 DEF SharedInv

LEMMA HelperFaults ==
  ASSUME SharedInv, HelperFault
  PROVE  SharedInv'
<1>1. /\ UNCHANGED <<masterVars, World>>
      /\ \/ Killed \/ Signalled \/ \E m \in running : Computed(m, None)
         \/ TakePrepareFails \/ TakeReleaseFails \/ ExitFails
  BY DEF HelperFault
<1>2. faults' \in 0 .. MaxFaults
  <2>1. faults < MaxFaults /\ faults' = faults + 1 /\ faults \in 0 .. MaxFaults
    BY DEF HelperFault, Fault, SharedInv, TypeOK
  <2> QED
    BY <2>1, FleetAssumption
<1>3. HelperInv' /\ Effect
  BY <1>1, HelperSteps DEF SharedInv
<1> QED
  BY <1>1, <1>2, <1>3, HelperMoves

LEMMA HelperActions ==
  ASSUME SharedInv,
         HelperActs(ServeStep) \/ HelperActs(Reading) \/ HelperActs(\E m \in running : Computing(m))
  PROVE  SharedInv'
<1>1. /\ UNCHANGED <<masterVars, World, faults>>
      /\ ServeStep \/ Reading \/ \E m \in running : Computing(m)
  BY DEF HelperActs
<1>2. faults' \in 0 .. MaxFaults
  BY <1>1 DEF SharedInv, TypeOK
<1>3. HelperInv' /\ Effect
  BY <1>1, HelperSteps DEF SharedInv
<1> QED
  BY <1>1, <1>2, <1>3, HelperMoves

LEMMA SharedNext == SharedInv /\ [Next]_vars => SharedInv'
<1> SUFFICES ASSUME SharedInv, [Next]_vars PROVE SharedInv'
  OBVIOUS
<1>1. CASE Launch
  BY <1>1, Launches
<1>2. CASE MainStep
  <2>1. CASE Started \/ NotOffered \/ NotValidated \/ NotReleased
    BY <2>1, StepsEnd
  <2>2. CASE StartupFails
    BY <2>2, MasterEnds
  <2>3. CASE Idle
    BY <2>3, FleetStutters DEF Idle
  <2>4. CASE StepNew \/ Offered
    BY <2>4, Offers
  <2>5. CASE StepBenchmark \/ Check
    BY <2>5, Validates
  <2>6. CASE Validated
    BY <2>6, Hands
  <2>7. CASE Recheck \/ RemotePrepared \/ RemoteOmitted
    BY <2>7, PreparesHelper
  <2>8. CASE Submit
    BY <2>8, Submits
  <2>9. CASE SaveOutput
    BY <2>9, Saves
  <2>10. CASE TaskFailed
    BY <2>10, FailsAndShutsDown
  <2>11. CASE Shutdown \/ Completed
    BY <2>11, ExecutorEnds
  <2>12. CASE StepConcluded \/ Released
    BY <2>12, Concludes
  <2> QED
    BY <1>2, <2>1, <2>2, <2>3, <2>4, <2>5, <2>6, <2>7, <2>8, <2>9, <2>10, <2>11, <2>12 DEF MainStep
<1>3. CASE \E n \in Nonces : ThreadStep(n)
  <2>1. PICK n \in Nonces : ThreadStep(n)
    BY <1>3
  <2> QED
    BY <2>1, Takes, GivesUp, LocalThreadEnds, RemoteThreadEnds DEF ThreadStep
<1>4. CASE Receive
  BY <1>4, Receives
<1>5. CASE SessionEnds
  BY <1>5, SessionStops
<1>6. CASE TimesOut
  BY <1>6, CallTimesOut
<1>7. CASE HelperActs(ServeStep) \/ HelperActs(Reading) \/ HelperActs(\E m \in running : Computing(m))
  BY <1>7, HelperActions
<1>8. CASE PoolConcludes
  BY <1>8, PoolEnds
<1>9. CASE CutLink
  BY <1>9, LinkBreaks
<1>10. CASE Crash
  BY <1>10, MasterEnds
<1>11. CASE HelperFault
  BY <1>11, HelperFaults
<1>12. CASE UNCHANGED vars
  BY <1>12, FleetStutters
<1> QED
  BY <1>1, <1>2, <1>3, <1>4, <1>5, <1>6, <1>7, <1>8, <1>9, <1>10, <1>11, <1>12 DEF Next

-----------------------------------------------------------------------------
(* The account of the calls.                                               *)

\* The helper's process is left alone, whatever becomes of its session.
LEMMA ProcessLeft ==
  ASSUME NothingIdle, UNCHANGED process, attached' => attached
  PROVE  NothingIdle'
  BY DEF NothingIdle, process, Of

\* A call that finds a session reaches the helper, if the session has one.
LEMMA Delivered ==
  ASSUME HelperInv, NothingIdle, NEW m \in Message, Deliver(m)
  PROVE  /\ NothingIdle' /\ UNCHANGED <<attached, closing, helper, session>>
         /\ UnderWay \subseteq UnderWay'
         /\ attached => m \in UnderWay'
<1>1. /\ inbox' = IF attached THEN Append(inbox, m) ELSE inbox
      /\ UNCHANGED <<process, attached, replies, session>>
  BY DEF Deliver
<1>2. inbox \in Seq(Message)
  BY DEF HelperInv, HelperTypeOK
<1>3. /\ \A j \in DOMAIN inbox : j \in DOMAIN inbox' /\ inbox'[j] = inbox[j]
      /\ attached => \E j \in DOMAIN inbox' : inbox'[j] = m
  BY <1>1, <1>2, AppendOf
<1>4. Unread \subseteq Unread' /\ (attached => m \in Unread')
  BY <1>3 DEF Unread
<1>5. Of("request")' = Of("request") /\ active' = active /\ AnsweredTo' = AnsweredTo
  BY <1>1 DEF process, Of, AnsweredTo
<1>6. NothingIdle'
  BY <1>1, ProcessLeft
<1> QED
  BY <1>1, <1>4, <1>5, <1>6 DEF UnderWay, Requests, process

\* Outside the executor all calls are one.
LEMMA OneCall ==
  ASSUME SharedInv, main \notin {"compute", "shutdown"}
  PROVE  \A c, d \in calls : c = d
<1>1. MainCalls /\ TypeOK
  BY DEF SharedInv
<1>2. \A c, d \in calls : c.to = d.to
  BY <1>1 DEF MainCalls, TypeOK
<1> QED
  BY <1>1, <1>2 DEF MainCalls

LEMMA AskedCall ==
  ASSUME NEW m
  PROVE  /\ Asked(m).to = m /\ Asked(m).state \in {"pending", "error"}
         /\ Asked(m).state = "pending" => session
  BY DEF Asked

\* The main thread calls, and waits only if it does.
LEMMA MainAccount ==
  ASSUME SharedInv, CallAccount, NEW m \in Message, Pending = {}, tasks' = NoTasks,
         (m = Hello /\ SayHello) \/ Ask(m) \/ (AskNothing /\ main' \notin Awaiting)
  PROVE  CallAccount'
<1>0. HelperInv /\ SessionAsked /\ NothingIdle
  BY DEF SharedInv, CallAccount, PendingIsUnderWay
<1>1. \A n \in Nonces : tasks'[n] # "remote"
  BY DEF NoTasks
<1>2. CASE AskNothing /\ main' \notin Awaiting
  <2>1. calls' = {} /\ UNCHANGED process /\ attached' = attached
    BY <1>2 DEF AskNothing, HelperStays, helperVars
  <2>2. NothingIdle'
    BY <1>0, <2>1, ProcessLeft
  <2>3. Pending' = {}
    BY <2>1 DEF Pending
  <2> QED
    BY <1>1, <1>2, <2>2, <2>3 DEF CallAccount, WaitersHaveCalls, PendingIsUnderWay, Awaiting
<1>3. CASE Ask(m)
  <2>1. calls' = {Asked(m)} /\ Deliver(m)
    BY <1>3 DEF Ask
  <2>2. /\ NothingIdle' /\ attached' = attached /\ session' = session
        /\ attached => m \in UnderWay'
    BY <1>0, <2>1, Delivered
  <2>3. \A c \in calls' : c = Asked(m)
    BY <2>1
  <2>4. WaitersHaveCalls'
    BY <1>1, <2>1, AskedCall DEF WaitersHaveCalls
  <2>5. \A c \in Pending' : session' /\ c.to = m
    BY <2>2, <2>3, AskedCall DEF Pending
  <2> QED
    BY <2>2, <2>4, <2>5 DEF CallAccount, PendingIsUnderWay
<1>4. CASE m = Hello /\ SayHello /\ ~Ask(Hello)
  <2>1. PICK new : new = [to |-> Hello, state |-> "pending", leaf |-> None]
    OBVIOUS
  <2>2. /\ ~session /\ session' = TRUE /\ calls' = {new} /\ new.to = m /\ new.state = "pending"
        /\ IF helper = "off" /\ reachable
           THEN Launched /\ inbox' = <<Hello>>
           ELSE UNCHANGED <<process, attached>>
    BY <1>4, <2>1 DEF SayHello
  <2>3. ~attached
    BY <1>0, <2>2 DEF SessionAsked
  <2>4. WaitersHaveCalls'
    BY <1>1, <2>2 DEF WaitersHaveCalls
  <2>5. \A c \in Pending' : c.to = m
    BY <2>2 DEF Pending
  <2>6. CASE Launched /\ inbox' = <<Hello>>
    <3>1. m \in Unread'
      BY <1>4, <2>6 DEF Unread
    <3>2. NothingIdle'
      BY <2>6 DEF Launched, NothingIdle
    <3> QED
      BY <2>2, <2>4, <2>5, <3>1, <3>2 DEF CallAccount, PendingIsUnderWay, UnderWay, Requests
  <2>7. CASE UNCHANGED <<process, attached>>
    <3>1. NothingIdle'
      BY <1>0, <2>7, ProcessLeft
    <3> QED
      BY <2>2, <2>3, <2>4, <2>7, <3>1 DEF CallAccount, PendingIsUnderWay
  <2> QED
    BY <2>2, <2>6, <2>7
<1> QED
  BY <1>2, <1>3, <1>4

\* The steps of the main thread that talk, from one call to the next.
Speaks ==
    \E m \in Message :
       /\ Pending = {} /\ tasks' = NoTasks
       /\ (m = Hello /\ SayHello) \/ Ask(m) \/ (AskNothing /\ main' \notin Awaiting)

LEMMA MainSteps ==
  ASSUME SharedInv, Launch \/ MainStep
  PROVE  StartupFails \/ Idle \/ Submit \/ SaveOutput \/ TaskFailed \/ Speaks
<1>1. ASSUME main \notin {"compute", "shutdown"}, UNCHANGED tasks,
             main \in {"down", "pause"} \/ Answered \/ HelperError,
             SayHello \/ (AskNothing /\ main' \notin Awaiting)
                \/ (\E op \in {"validate", "prepare"} : row \in Benchmarks /\ Ask(About(op, row, row)))
                \/ (row \in Benchmarks /\ saved \in Benchmarks /\ Ask(About("release", row, saved)))
      PROVE  Speaks
  <2>1. Pending = {} /\ tasks' = NoTasks
    BY <1>1, NothingPending, NoTasksYet
  <2>2. CASE SayHello \/ (AskNothing /\ main' \notin Awaiting)
    BY <2>1, <2>2, HelloIsAMessage DEF Speaks
  <2>3. CASE \E op \in {"validate", "prepare"} : row \in Benchmarks /\ Ask(About(op, row, row))
    BY <2>1, <2>3, AboutIsAMessage DEF Speaks
  <2>4. CASE row \in Benchmarks /\ saved \in Benchmarks /\ Ask(About("release", row, saved))
    BY <2>1, <2>4, AboutIsAMessage DEF Speaks
  <2> QED
    BY <1>1, <2>2, <2>3, <2>4
<1>2. "pause" \notin Awaiting /\ "compute" \notin Awaiting
  BY DEF Awaiting
<1>3. CASE Launch \/ StepNew \/ StepBenchmark
  BY <1>1, <1>3 DEF Launch, StepNew, StepBenchmark, Fleet
<1>4. CASE Started \/ Offered \/ NotOffered \/ NotValidated \/ NotReleased \/ Released
  <2>1. /\ main \notin {"compute", "shutdown"} /\ UNCHANGED tasks /\ (Answered \/ HelperError)
        /\ AskNothing /\ main' = "pause"
    BY <1>4 DEF Started, Offered, NotOffered, NotValidated, NotReleased, Released, StepEnds, Fleet
  <2> QED
    BY <1>1, <1>2, <2>1
<1>5. CASE Check
  <2>1. main = "check" /\ Answered /\ UNCHANGED tasks /\ Ask(About("validate", row, row))
    BY <1>5 DEF Check, Fleet
  <2> QED
    BY <1>1, <2>1, RowInHand
<1>6. CASE Recheck
  <2>1. main = "recheck" /\ Answered /\ UNCHANGED tasks /\ Ask(About("prepare", row, row))
    BY <1>6 DEF Recheck, Fleet
  <2> QED
    BY <1>1, <2>1, RowInHand
<1>7. CASE Validated
  <2>1. /\ main \in {"check", "validate"} /\ (Answered \/ HelperError) /\ UNCHANGED tasks
        /\ SayHello \/ (AskNothing /\ main' = "pause")
    BY <1>7 DEF Validated, StepEnds
  <2> QED
    BY <1>1, <1>2, <2>1
<1>8. CASE RemotePrepared \/ RemoteOmitted
  <2>1. /\ main \in {"recheck", "prepare"} /\ (Answered \/ HelperError) /\ UNCHANGED tasks
        /\ AskNothing /\ main' \in {"pause", "compute"}
    BY <1>8 DEF RemotePrepared, RemoteOmitted, Fleet
  <2> QED
    BY <1>1, <1>2, <2>1
<1>9. CASE StepConcluded
  <2>1. main = "pause" /\ row \in over /\ UNCHANGED tasks
    BY <1>9 DEF StepConcluded, Fleet
  <2>2. row \in Benchmarks /\ (saved # None => saved \in Benchmarks)
    BY <2>1 DEF SharedInv, TypeOK
  <2>3. \/ AskNothing /\ main' = "pause"
        \/ saved # None /\ Ask(About("release", row, saved))
    BY <1>9 DEF StepConcluded, StepEnds, NothingToRelease
  <2> QED
    BY <1>1, <1>2, <2>1, <2>2, <2>3
<1>10. CASE Shutdown \/ Completed
  <2>1. main \in {"compute", "shutdown"} /\ main' = "pause" /\ AskNothing
    BY <1>10 DEF Shutdown, Completed, StepEnds
  <2>2. tasks' = NoTasks /\ \A n \in Nonces : tasks[n] # "remote"
    BY <1>10, ExecutorDone
  <2>3. Pending = {}
    BY <2>1, <2>2, CallsOfThreads DEF Pending
  <2> QED
    BY <1>2, <2>1, <2>2, <2>3, HelloIsAMessage DEF Speaks
<1> QED
  BY <1>3, <1>4, <1>5, <1>6, <1>7, <1>8, <1>9, <1>10 DEF MainStep

\* A step that leaves the helper alone and takes no call that is waited for.
LEMMA QuietAccount ==
  ASSUME SharedInv, CallAccount, HelperStays, UNCHANGED session,
         Pending' \subseteq Pending,
         main' \in Awaiting => main \in Awaiting /\ UNCHANGED calls,
         \A n \in Nonces : tasks'[n] = "remote" =>
             \E c \in calls' : c.to = ComputeCall(n)'
  PROVE  CallAccount'
<1>0. NothingIdle /\ WaitersHaveCalls /\ PendingIsUnderWay /\ HelperInv
  BY DEF SharedInv, CallAccount, PendingIsUnderWay
<1>1. /\ UNCHANGED <<attached, closing, helper>> /\ UnderWay' = UnderWay /\ NothingIdle'
  BY <1>0, HelperIdle, ProcessLeft DEF HelperStays, helperVars, process
<1>2. PendingIsUnderWay'
  BY <1>0, <1>1 DEF PendingIsUnderWay
<1>3. WaitersHaveCalls'
  BY <1>0 DEF WaitersHaveCalls
<1> QED
  BY <1>2, <1>3 DEF CallAccount

LEMMA ComputeCallKept == UNCHANGED <<row, saved>> => \A n : ComputeCall(n)' = ComputeCall(n)
  BY DEF ComputeCall, MessageTo

\* The executor's thread of the step, and the local backend.
LEMMA TasksAccount ==
  ASSUME SharedInv, CallAccount,
         \/ Idle \/ Submit \/ SaveOutput \/ TaskFailed \/ PoolConcludes \/ UNCHANGED vars
         \/ \E n \in Nonces : NobodyLeft(n) \/ LocalEnds(n)
  PROVE  CallAccount'
<1>0. TypeOK /\ WaitersHaveCalls
  BY DEF SharedInv, CallAccount
<1>1. HelperStays /\ UNCHANGED <<session, calls, row, saved>>
  BY DEF Idle, Submit, SaveOutput, TaskFailed, PoolConcludes, NobodyLeft, LocalEnds,
         HelperStays, vars, masterVars, Durable
<1>2. main' \in Awaiting => main \in Awaiting
  BY DEF Idle, Submit, SaveOutput, TaskFailed, PoolConcludes, NobodyLeft, LocalEnds,
         Awaiting, vars, masterVars
<1>3. \A n \in Nonces : tasks'[n] = "remote" => tasks[n] = "remote"
  <2>1. CASE tasks' = tasks
    BY <2>1
  <2>2. CASE \E n \in Nonces, t \in {"waiting", "idle", "failed"} \cup Leaves :
                tasks' = [tasks EXCEPT ![n] = t]
    BY <1>0, <2>2, TaskAssumption DEF TypeOK
  <2>3. CASE Submit
    BY <2>2, <2>3 DEF Submit, MissingOutputs
  <2>4. CASE SaveOutput \/ \E n \in Nonces : NobodyLeft(n) \/ LocalEnds(n)
    BY <2>2, <2>4 DEF SaveOutput, NobodyLeft, LocalEnds
  <2> QED
    BY <2>1, <2>3, <2>4 DEF Idle, TaskFailed, PoolConcludes, vars, masterVars, Fleet
<1>4. \A n \in Nonces : tasks'[n] = "remote" => \E c \in calls' : c.to = ComputeCall(n)'
  BY <1>0, <1>1, <1>3, ComputeCallKept DEF WaitersHaveCalls
<1>5. Pending' \subseteq Pending
  BY <1>1 DEF Pending
<1> QED
  BY <1>1, <1>2, <1>4, <1>5, QuietAccount

LEMMA RemoteAccount ==
  ASSUME SharedInv, CallAccount, NEW n \in Nonces, RemoteEnds(n)
  PROVE  CallAccount'
<1>0. TypeOK /\ WaitersHaveCalls /\ ReceivedSaved
  BY DEF SharedInv, CallAccount
<1>1. /\ tasks[n] = "remote" /\ HelperStays /\ UNCHANGED <<row, saved, session, main>>
  BY DEF RemoteEnds, Durable
<1>2. PICK c \in calls : /\ c.to = ComputeCall(n) /\ c.state # "pending" /\ calls' = calls \ {c}
                         /\ \/ c.state = "ok" /\ tasks' = [tasks EXCEPT ![n] = c.leaf]
                            \/ tasks' = [tasks EXCEPT ![n] = "failed"]
  BY DEF RemoteEnds
<1>3. main \in {"compute", "shutdown"}
  BY <1>1, ThreadsRun
<1>4. c.state = "ok" => c.leaf \in Leaves
  <2>1. c.to.op = "compute"
    BY <1>3, CallsByOperation
  <2> QED
    BY <1>0, <2>1 DEF ReceivedSaved, TypeOK, Call
<1>5. tasks'[n] # "remote" /\ \A k \in Nonces : k # n => tasks'[k] = tasks[k]
  BY <1>0, <1>2, <1>4, TaskAssumption DEF TypeOK
<1>6. \A k \in Nonces : tasks'[k] = "remote" => \E d \in calls' : d.to = ComputeCall(k)'
  <2> SUFFICES ASSUME NEW k \in Nonces, tasks'[k] = "remote"
               PROVE  \E d \in calls' : d.to = ComputeCall(k)
    BY <1>1, ComputeCallKept
  <2>1. k # n /\ tasks[k] = "remote"
    BY <1>5
  <2>2. PICK d \in calls : d.to = ComputeCall(k)
    BY <1>0, <2>1 DEF WaitersHaveCalls
  <2>3. d # c
    BY <1>2, <2>1, <2>2, NonceOfCall
  <2> QED
    BY <1>2, <2>2, <2>3
<1>7. Pending' \subseteq Pending /\ main' \notin Awaiting
  BY <1>1, <1>2, <1>3 DEF Pending, Awaiting
<1> QED
  BY <1>1, <1>6, <1>7, QuietAccount

LEMMA SlotAccount ==
  ASSUME SharedInv, CallAccount, NEW n \in Nonces, TakeSlot(n)
  PROVE  CallAccount'
<1>0. TypeOK /\ WaitersHaveCalls /\ HelperInv /\ StepInHand /\ PendingIsUnderWay /\ NothingIdle
  BY DEF SharedInv, CallAccount, PendingIsUnderWay
<1>1. tasks[n] = "waiting" /\ UNCHANGED <<row, saved, main>>
  BY DEF TakeSlot, Durable
<1>2. main \in {"compute", "shutdown"} /\ row \in Benchmarks /\ main' \notin Awaiting
  BY <1>1, ThreadsRun DEF Awaiting
<1>3. PICK i \in Backends :
         /\ tasks' = IF available[i] THEN [tasks EXCEPT ![n] = i] ELSE tasks
         /\ IF i = "remote" /\ available[i]
            THEN Deliver(ComputeCall(n)) /\ calls' = calls \cup {Asked(ComputeCall(n))}
            ELSE HelperStays /\ UNCHANGED <<session, calls>>
  BY DEF TakeSlot
<1>4. CASE i = "remote" /\ available[i]
  <2>1. saved = row
    BY <1>0, <1>2, <1>4 DEF StepInHand
  <2>2. PICK m : m = ComputeCall(n)
    OBVIOUS
  <2>3. m \in Message /\ Deliver(m) /\ calls' = calls \cup {Asked(m)} /\ m = ComputeCall(n)'
    BY <1>1, <1>2, <1>3, <1>4, <2>1, <2>2, ComputeCallIsAMessage, ComputeCallKept
  <2>4. /\ NothingIdle' /\ UNCHANGED <<attached, closing, helper, session>>
        /\ UnderWay \subseteq UnderWay'
        /\ attached => m \in UnderWay'
    BY <1>0, <2>3, Delivered
  <2>5. \A c \in Pending' : c \in Pending \/ (session /\ c.to = m)
    BY <2>3, AskedCall DEF Pending
  <2>6. PendingIsUnderWay'
    BY <1>0, <2>4, <2>5 DEF PendingIsUnderWay
  <2>7. \A k \in Nonces : k # n => tasks'[k] = tasks[k]
    BY <1>0, <1>3 DEF TypeOK
  <2>8. WaitersHaveCalls'
    BY <1>0, <1>1, <1>2, <2>3, <2>7, AskedCall, ComputeCallKept DEF WaitersHaveCalls
  <2> QED
    BY <2>6, <2>8 DEF CallAccount
<1>5. CASE ~(i = "remote" /\ available[i])
  <2>1. HelperStays /\ UNCHANGED <<session, calls>> /\ Pending' = Pending
    BY <1>3, <1>5 DEF Pending
  <2>2. \A k \in Nonces : tasks'[k] = "remote" => tasks[k] = "remote"
    BY <1>0, <1>3, <1>5 DEF TypeOK
  <2>3. \A k \in Nonces : tasks'[k] = "remote" => \E c \in calls' : c.to = ComputeCall(k)'
    BY <1>0, <1>1, <2>1, <2>2, ComputeCallKept DEF WaitersHaveCalls
  <2> QED
    BY <1>2, <2>1, <2>3, QuietAccount
<1> QED
  BY <1>4, <1>5

\* A response resolves the call of its request and no other.
LEMMA ReceiveAccount == SharedInv /\ CallAccount /\ Receive => CallAccount'
<1> SUFFICES ASSUME SharedInv, CallAccount, Receive PROVE CallAccount'
  OBVIOUS
<1>0. WaitersHaveCalls /\ HelperInv /\ MainCalls /\ PendingIsUnderWay /\ NothingIdle
  BY DEF SharedInv, CallAccount, PendingIsUnderWay
<1>1. /\ OutputKept /\ UNCHANGED <<process, attached, inbox, row, main, session, saved, tasks>>
  BY DEF Receive, Durable, Fleet
<1>2. PICK r \in replies, c \in calls :
         /\ c.to = r.to /\ c.state = "pending"
         /\ replies' = replies \ {r}
         /\ calls' = (calls \ {c}) \cup
                {[to |-> r.to, state |-> IF r.ok THEN "ok" ELSE "error", leaf |-> r.leaf]}
  BY DEF Receive
<1>3. PICK new : /\ calls' = (calls \ {c}) \cup {new}
                 /\ new.to = r.to /\ new.state \in {"ok", "error"}
  <2>1. PICK new : new = [to |-> r.to, state |-> IF r.ok THEN "ok" ELSE "error", leaf |-> r.leaf]
    OBVIOUS
  <2> QED
    BY <1>2, <2>1
<1>4. UnderWay' = UnderWay \ {r.to} /\ NothingIdle' /\ UNCHANGED <<closing, helper>>
  BY <1>0, <1>1, <1>2, ReplyReceived, ProcessLeft DEF process
<1>5. \A d \in Pending' : d \in Pending /\ d.to # r.to
  BY <1>0, <1>2, <1>3 DEF Pending, MainCalls
<1>6. PendingIsUnderWay'
  BY <1>0, <1>1, <1>4, <1>5 DEF PendingIsUnderWay
<1>7. \A d \in calls : \E e \in calls' : e.to = d.to /\ (d.state # "unwritten" => e.state # "unwritten")
  BY <1>2, <1>3
<1>8. WaitersHaveCalls'
  BY <1>0, <1>1, <1>7, ComputeCallKept DEF WaitersHaveCalls
<1> QED
  BY <1>6, <1>8 DEF CallAccount

\* The session ends, with the calls in it: the last call is not left unwritten.
LEMMA EndAccount ==
  ASSUME SharedInv, CallAccount, SessionEnds \/ TimesOut
  PROVE  CallAccount'
<1>0. WaitersHaveCalls /\ HelperInv /\ TypeOK /\ PendingIsUnderWay /\ NothingIdle
  BY DEF SharedInv, CallAccount, PendingIsUnderWay
<1>1. /\ UNCHANGED <<process, row, main, saved, tasks>> /\ session' = FALSE
      /\ attached' => attached
  BY DEF SessionEnds, TimesOut, AllFail, HelperStays, helperVars, Detached, Durable, Fleet
<1>2. PICK unwritten \in SUBSET Pending :
         /\ calls' = (calls \ Pending)
                \cup {[c EXCEPT !.state = "error"] : c \in Pending \ unwritten}
                \cup {[c EXCEPT !.state = "unwritten"] : c \in unwritten}
         /\ unwritten = {} \/ \E late \in Pending : late \notin unwritten
  <2>1. CASE SessionEnds
    <3>1. PICK unwritten \in SUBSET Pending : unwritten = {}
      OBVIOUS
    <3>2. calls' = (calls \ Pending) \cup {[c EXCEPT !.state = "error"] : c \in Pending}
      BY <2>1 DEF SessionEnds, AllFail
    <3> QED
      BY <3>1, <3>2
  <2>2. CASE TimesOut
    BY <2>2 DEF TimesOut
  <2> QED
    BY <2>1, <2>2
<1>3. \A d \in calls \ unwritten : \E e \in calls' :
         e.to = d.to /\ (d.state # "unwritten" => e.state # "unwritten")
  <2> SUFFICES ASSUME NEW d \in calls \ unwritten
               PROVE  \E e \in calls' : e.to = d.to /\ (d.state # "unwritten" => e.state # "unwritten")
    OBVIOUS
  <2>1. CASE d \in Pending
    <3>1. PICK e : e = [d EXCEPT !.state = "error"]
      OBVIOUS
    <3>2. e.to = d.to /\ e.state = "error"
      BY <1>0, <3>1 DEF TypeOK, Call
    <3> QED
      BY <1>2, <2>1, <3>1, <3>2
  <2>2. CASE d \notin Pending
    BY <1>2, <2>2
  <2> QED
    BY <2>1, <2>2
<1>4. \A d \in unwritten : \E e \in calls' : e.to = d.to
  <2> SUFFICES ASSUME NEW d \in unwritten PROVE \E e \in calls' : e.to = d.to
    OBVIOUS
  <2>1. PICK e : e = [d EXCEPT !.state = "unwritten"]
    OBVIOUS
  <2>2. d \in Call
    BY <1>0 DEF TypeOK, Pending
  <2>3. e.to = d.to
    BY <2>1, <2>2 DEF Call
  <2> QED
    BY <1>2, <2>1, <2>3
<1>5. \A c \in calls' : c.state # "pending"
  <2>1. \A d \in Pending : [d EXCEPT !.state = "error"].state = "error"
                           /\ [d EXCEPT !.state = "unwritten"].state = "unwritten"
    BY <1>0 DEF TypeOK, Call, Pending
  <2>2. \A d \in calls \ Pending : d.state # "pending"
    BY DEF Pending
  <2> QED
    BY <1>2, <2>1, <2>2
<1>6. PendingIsUnderWay'
  <2>1. Pending' = {}
    BY <1>5 DEF Pending
  <2>2. NothingIdle'
    BY <1>0, <1>1, ProcessLeft
  <2> QED
    BY <2>1, <2>2 DEF PendingIsUnderWay
<1>7. main' \in Awaiting => \E c \in calls' : c.state # "unwritten"
  <2> SUFFICES ASSUME main \in Awaiting PROVE \E c \in calls' : c.state # "unwritten"
    BY <1>1
  <2>1. \A c, d \in calls : c = d
    BY OneCall DEF Awaiting
  <2>2. unwritten = {}
    BY <1>2, <2>1 DEF Pending
  <2> QED
    BY <1>0, <1>3, <2>2 DEF WaitersHaveCalls
<1>8. \A n \in Nonces : tasks'[n] = "remote" => \E c \in calls' : c.to = ComputeCall(n)'
  BY <1>0, <1>1, <1>3, <1>4, ComputeCallKept DEF WaitersHaveCalls
<1> QED
  BY <1>6, <1>7, <1>8 DEF CallAccount, WaitersHaveCalls

\* The connection breaks, or the master's process ends.
LEMMA CutAccount ==
  ASSUME SharedInv, CallAccount, CutLink \/ Crash \/ StartupFails
  PROVE  CallAccount'
<1>0. WaitersHaveCalls /\ PendingIsUnderWay /\ NothingIdle
  BY DEF CallAccount, PendingIsUnderWay
<1>1. attached' = FALSE /\ UNCHANGED process
  BY DEF CutLink, Crash, StartupFails, Detached
<1>2. NothingIdle'
  BY <1>0, <1>1, ProcessLeft
<1>3. CASE CutLink
  <2>1. UNCHANGED <<main, calls, session, row, saved, tasks>>
    BY <1>3 DEF CutLink, masterVars
  <2> QED
    BY <1>0, <1>1, <1>2, <2>1, ComputeCallKept
    DEF CallAccount, WaitersHaveCalls, PendingIsUnderWay, Pending
<1>4. CASE Crash \/ StartupFails
  <2>1. main' = "down" /\ calls' = {}
    BY <1>4 DEF Crash, StartupFails
  <2>2. tasks' = NoTasks
    BY <1>4, NoTasksYet DEF Crash, StartupFails, Fleet
  <2> QED
    BY <1>1, <1>2, <2>1, <2>2
    DEF CallAccount, WaitersHaveCalls, PendingIsUnderWay, Pending, NoTasks, Awaiting
<1> QED
  BY <1>3, <1>4

\* The helper moves: what it holds of the session it goes on holding.
LEMMA HelperAccount ==
  ASSUME SharedInv, CallAccount,
         \/ HelperActs(ServeStep) \/ HelperActs(Reading) \/ HelperActs(\E m \in running : Computing(m))
         \/ HelperFault
  PROVE  CallAccount'
<1>0. WaitersHaveCalls /\ PendingIsUnderWay /\ NothingIdle /\ HelperInv
  BY DEF SharedInv, CallAccount, PendingIsUnderWay
<1>1. UNCHANGED <<main, calls, session, row, saved, tasks>>
  BY DEF HelperActs, HelperFault, masterVars
<1>2. \/ ServeStep \/ Reading \/ \E m \in running : Computing(m)
      \/ Killed \/ Signalled \/ \E m \in running : Computed(m, None)
      \/ TakePrepareFails \/ TakeReleaseFails \/ ExitFails
  BY DEF HelperActs, HelperFault
<1>3. NothingIdle' /\ Remembers
  BY <1>0, <1>2, HelperRemembers
<1>4. WaitersHaveCalls'
  BY <1>0, <1>1, ComputeCallKept DEF WaitersHaveCalls
<1>5. PendingIsUnderWay'
  BY <1>0, <1>1, <1>3 DEF PendingIsUnderWay, Remembers, Pending
<1> QED
  BY <1>4, <1>5 DEF CallAccount

LEMMA AccountInit == Init => CallAccount
  BY DEF Init, HelperInit, CallAccount, WaitersHaveCalls, PendingIsUnderWay, NothingIdle,
         Awaiting, NoTasks, Pending

LEMMA AccountNext == SharedInv /\ CallAccount /\ [Next]_vars => CallAccount'
<1> SUFFICES ASSUME SharedInv, CallAccount, [Next]_vars PROVE CallAccount'
  OBVIOUS
<1>1. CASE Launch \/ MainStep
  <2>1. CASE Speaks
    BY <2>1, MainAccount DEF Speaks
  <2> QED
    BY <1>1, <2>1, MainSteps, TasksAccount, CutAccount
<1>2. CASE \E n \in Nonces : ThreadStep(n)
  BY <1>2, SlotAccount, TasksAccount, RemoteAccount DEF ThreadStep
<1> QED
  BY <1>1, <1>2, TasksAccount, ReceiveAccount, EndAccount, CutAccount, HelperAccount DEF Next

-----------------------------------------------------------------------------
(* The theorems.                                                           *)

LEMMA SharedAlways == Spec => []SharedInv
  BY SharedInit, SharedNext, PTL DEF Spec

\* Types, places of every request, slots, handover and saved outputs hold in
\* every state, whatever fails and however often, and so does the account of
\* who waits for what (helper.py:107-200, fleet.py:93-168,
\* ssh_transport.py:100-170).
THEOREM FleetAlways == Spec => []FleetInv
<1>1. SharedInv /\ CallAccount <=> FleetInv
  BY DEF FleetInv
<1> QED
  BY <1>1, SharedInit, SharedNext, AccountInit, AccountNext, PTL DEF Spec

\* A helper prepares, computes and saves only for a benchmark whose handover the
\* master has confirmed (fleet.py:112-114, helper.py:63-79): the master asks for
\* nothing else, and no line of an earlier session is read in a later one.
THEOREM HelperWorksAfterHandover == Spec => []HelperWorksForHandedOver
<1>1. SharedInv => HelperWorksForHandedOver
  BY DEF SharedInv, HandoverFirst
<1> QED
  BY <1>1, SharedAlways, PTL

\* What the helper sent and what the master received of a nonce is what the
\* helper has saved (helper.py:89-93, 158-160, 173-175).
THEOREM SentIsSaved == Spec => []AnsweredIsSaved
<1>1. SharedInv => AnsweredIsSaved
  BY DEF SharedInv, HelperInv, RepliesSaved, ReceivedSaved, AnsweredIsSaved
<1> QED
  BY <1>1, SharedAlways, PTL

\* A computation of the helper has its container until it ends, also when the
\* session breaks or Docker fails (helper.py:189, 197-198).
THEOREM ComputationHasRuntime == Spec => []RuntimeOutlivesComputation
<1>1. SharedInv => RuntimeOutlivesComputation
  BY DEF SharedInv, HelperInv, RuntimeKept, RuntimeOutlivesComputation
<1> QED
  BY <1>1, SharedAlways, PTL

\* The slots of an available backend are in its queue or with a thread, for any
\* number of workers and nonces (fleet.py:134-158).
THEOREM SlotsAlwaysConserved == Spec => []SlotsConserved
<1>1. SharedInv => SlotsConserved
  BY DEF SharedInv
<1> QED
  BY <1>1, SharedAlways, PTL

\* Who moves the helper's process: a new session, itself, or what happens to it.
LEMMA WhoMovesHelper ==
  ASSUME [Next]_vars
  PROVE  \/ UNCHANGED <<evidenceVars, runtimes, process>>
         \/ helper = "off" /\ Launched /\ OutputKept
         \/ ServeStep \/ Reading \/ Signalled \/ \E m, leaf : Computed(m, leaf)
         \/ "kill" \in Faults /\ Killed
         \/ "docker" \in Faults /\ (TakePrepareFails \/ TakeReleaseFails)
         \/ "close" \in Faults /\ ExitFails
<1> SUFFICES ASSUME ~UNCHANGED <<evidenceVars, runtimes, process>>, ~(helper = "off" /\ Launched /\ OutputKept)
             PROVE  \/ ServeStep \/ Reading \/ Signalled \/ \E m, leaf : Computed(m, leaf)
                    \/ "kill" \in Faults /\ Killed
                    \/ "docker" \in Faults /\ (TakePrepareFails \/ TakeReleaseFails)
                    \/ "close" \in Faults /\ ExitFails
  OBVIOUS
<1>1. ~HelperStays /\ ~(OutputKept /\ UNCHANGED process) /\ ~UNCHANGED vars
  BY DEF HelperStays, helperVars, OutputKept, vars
<1>2. \A m : ~Ask(m) /\ ~Deliver(m)
  BY <1>1 DEF Ask, Deliver
<1>3. ~SayHello /\ ~AskNothing /\ ~StepEnds
  BY <1>1, <1>2 DEF SayHello, AskNothing, StepEnds
<1>4. ~Launch /\ ~Receive /\ ~SessionEnds /\ ~TimesOut /\ ~PoolConcludes /\ ~CutLink /\ ~Crash
  BY <1>1, <1>3 DEF Launch, Receive, SessionEnds, TimesOut, PoolConcludes, CutLink, Crash
<1>5. \A n \in Nonces : ~ThreadStep(n)
  BY <1>1, <1>2 DEF ThreadStep, TakeSlot, NobodyLeft, LocalEnds, RemoteEnds
<1>6. ~MainStep
  <2>1. ~(Started \/ StartupFails \/ Idle \/ StepNew \/ Offered \/ NotOffered)
    BY <1>1, <1>3 DEF Started, StartupFails, Idle, StepNew, Offered, NotOffered
  <2>2. ~(StepBenchmark \/ Check \/ Validated \/ NotValidated \/ Recheck \/ RemotePrepared \/ RemoteOmitted)
    BY <1>2, <1>3
    DEF StepBenchmark, Check, Validated, NotValidated, Recheck, RemotePrepared, RemoteOmitted
  <2>3. ~(Submit \/ SaveOutput \/ TaskFailed \/ Shutdown \/ Completed)
    BY <1>1, <1>3 DEF Submit, SaveOutput, TaskFailed, Shutdown, Completed
  <2>4. ~(StepConcluded \/ Released \/ NotReleased)
    BY <1>2, <1>3 DEF StepConcluded, Released, NotReleased
  <2> QED
    BY <2>1, <2>2, <2>3, <2>4 DEF MainStep
<1>7. CASE HelperActs(ServeStep) \/ HelperActs(Reading) \/ HelperActs(\E m \in running : Computing(m))
  BY <1>7 DEF HelperActs, Computing
<1>8. CASE HelperFault
  BY <1>8 DEF HelperFault, Fault
<1> QED
  BY <1>1, <1>4, <1>5, <1>6, <1>7, <1>8 DEF Next

LEMMA AttachedExit ==
  ASSUME SharedInv, [Next]_vars, attached, helper # "off", helper' = "off"
  PROVE  SavedBeforeExit'
<1>0. /\ helper \in {"serving", "leaving"} /\ Of("complete") \subseteq active
      /\ (helper = "leaving" => active = {})
  BY DEF SharedInv, HelperInv, HelperTypeOK, OnePlace, ProcessAndSession
<1>1. Exit \/ ExitFails \/ Killed
  <2>1. ~UNCHANGED <<evidenceVars, runtimes, process>>
    BY DEF process
  <2>2. ServeStep => Exit
    BY <1>0
    DEF ServeStep, TakeEnd, TakeComplete, DropRequest, TakeInquiry, TakePrepare, TakeCompute,
        TakeRelease, Leave, Answer, NoAnswer
  <2>3. ~Reading /\ ~Signalled /\ \A m, leaf : ~Computed(m, leaf)
    BY DEF Reading, ReadRequest, ReadEnd, Signalled, Computed
  <2>4. ~TakePrepareFails /\ ~TakeReleaseFails
    BY DEF TakePrepareFails, TakeReleaseFails, Answer
  <2> QED
    BY <2>1, <2>2, <2>3, <2>4, WhoMovesHelper
<1>2. CASE Exit \/ ExitFails
  <2>1. helper = "leaving" /\ events' = events
    BY <1>2 DEF Exit, ExitFails
  <2>2. \A j \in DOMAIN events : events[j].kind # "complete"
    BY <1>0, <2>1 DEF Of
  <2> QED
    BY <2>1, <2>2 DEF SavedBeforeExit, Unsaved
<1>3. CASE Killed
  <2>1. DOMAIN events' = {}
    BY <1>3 DEF Killed
  <2> QED
    BY <2>1 DEF SavedBeforeExit
<1> QED
  BY <1>1, <1>2, <1>3

\* A helper that ends by itself while it has its master leaves no computed output
\* unsaved (helper.py:141-164, 196-200).
THEOREM NothingLostWhileAttached == Spec => SavedWhileAttached
<1>1. SharedInv /\ [Next]_vars => [attached /\ helper # "off" /\ helper' = "off" => SavedBeforeExit']_vars
  BY AttachedExit
<1> QED
  BY <1>1, SharedAlways, PTL DEF Spec, SavedWhileAttached

-----------------------------------------------------------------------------
(* Containers, unless the helper is killed or Docker refuses.              *)

\* Every runtime is the one its process prepared.
OnlyPrepared == runtimes \subseteq {prepared}

LEMMA RuntimeFollows ==
  ASSUME SharedInv, [Next]_vars, Faults \cap {"kill", "docker", "close"} = {}, OnlyPrepared
  PROVE  OnlyPrepared'
<1>0. /\ runtimes \subseteq Benchmarks /\ (helper = "off" => prepared = None)
      /\ None \notin Benchmarks
  BY NoneAssumption DEF SharedInv, HelperInv, HelperTypeOK, ProcessAndSession
<1>1. CASE UNCHANGED <<runtimes, prepared>>
  BY <1>1 DEF OnlyPrepared
<1>2. CASE Launched /\ OutputKept /\ helper = "off"
  BY <1>0, <1>2 DEF Launched, OutputKept, OnlyPrepared
<1>3. CASE Exit
  BY <1>3 DEF Exit, Cleaned, OnlyPrepared
<1>4. CASE TakePrepare
  <2>1. \/ \E b : prepared \in {None, b} /\ runtimes' = runtimes \cup {b} /\ prepared' = b
        \/ UNCHANGED <<runtimes, prepared>>
    BY <1>4 DEF TakePrepare
  <2> QED
    BY <1>0, <2>1 DEF OnlyPrepared
<1>5. CASE TakeRelease
  <2>1. \/ runtimes' = runtimes \ {prepared} /\ prepared' = None
        \/ UNCHANGED <<runtimes, prepared>>
    BY <1>5 DEF TakeRelease
  <2> QED
    BY <2>1 DEF OnlyPrepared
<1>6. \/ UNCHANGED <<runtimes, prepared>>
      \/ Launched /\ OutputKept /\ helper = "off"
      \/ Exit \/ TakePrepare \/ TakeRelease
  <2>1. ServeStep => \/ UNCHANGED <<runtimes, prepared>>
                     \/ Exit \/ TakePrepare \/ TakeRelease
    BY DEF ServeStep, TakeEnd, TakeComplete, DropRequest, TakeInquiry, TakeCompute, Leave, OutputKept
  <2>2. Reading \/ Signalled \/ (\E m, leaf : Computed(m, leaf)) => UNCHANGED <<runtimes, prepared>>
    BY DEF Reading, ReadRequest, ReadEnd, Signalled, Computed, OutputKept
  <2>3. UNCHANGED <<runtimes, process>> => UNCHANGED <<runtimes, prepared>>
    BY DEF process
  <2>4. "kill" \notin Faults /\ "docker" \notin Faults /\ "close" \notin Faults
    OBVIOUS
  <2> QED
    BY <2>1, <2>2, <2>3, <2>4, WhoMovesHelper
<1> QED
  BY <1>1, <1>2, <1>3, <1>4, <1>5, <1>6

\* A helper process that has ended left no container behind, whatever broke
\* connections, timeouts, signals, failed nonces and master crashes there were;
\* a kill and a refusing Docker are excluded, which leave one (helper.py:101-105,
\* 196-198).
THEOREM NothingLeftBehind ==
  ASSUME Faults \cap {"kill", "docker", "close"} = {}
  PROVE  Spec => []NoRuntimeWithoutProcess
<1>1. Init => OnlyPrepared
  BY DEF Init, HelperInit, OnlyPrepared
<1>2. SharedInv /\ OnlyPrepared /\ [Next]_vars => OnlyPrepared'
  BY RuntimeFollows
<1>3. SharedInv /\ OnlyPrepared => NoRuntimeWithoutProcess
  <2> SUFFICES ASSUME SharedInv, OnlyPrepared, helper = "off" PROVE runtimes = {}
    BY DEF NoRuntimeWithoutProcess
  <2>1. prepared = None /\ runtimes \subseteq Benchmarks
    BY DEF SharedInv, HelperInv, HelperTypeOK, ProcessAndSession
  <2> QED
    BY <2>1, NoneAssumption DEF OnlyPrepared
<1> QED
  BY <1>1, <1>2, <1>3, SharedAlways, PTL DEF Spec

-----------------------------------------------------------------------------
(* Nobody waits in vain.                                                   *)

\* A thread without a slot: the queue and the holders account for every slot of
\* an available backend, and there is at least one.
LEMMA WaiterHasBackend ==
  ASSUME SharedInv, NEW n \in Nonces, tasks[n] = "waiting", ~AllDisconnected
  PROVE  \E i \in Backends : slots[i] > 0 \/ (available[i] /\ Holding(i) # {})
<1>0. TypeOK /\ SlotsConserved /\ main \in {"compute", "shutdown"}
  BY ThreadsRun DEF SharedInv
<1>1. \A i \in Backends : slots[i] \in Nat /\ Capacity(i) \in Nat \ {0}
  BY <1>0, FleetAssumption, HelperWorkersAssumption DEF TypeOK, Capacity, Backends
<1>2. CASE \E i \in Backends : slots[i] # 0
  BY <1>1, <1>2
<1>3. CASE \A i \in Backends : slots[i] = 0
  <2>1. PICK i \in Backends : available[i]
    BY <1>3 DEF AllDisconnected
  <2>2. 0 + Cardinality(Holding(i)) = Capacity(i)
    BY <1>0, <1>3, <2>1 DEF SlotsConserved
  <2>3. Holding(i) # {}
    BY <1>1, <2>2, FS_EmptySet
  <2> QED
    BY <2>1, <2>3
<1> QED
  BY <1>2, <1>3

\* A pending call, by where the account says that it is.
LEMMA PendingIsInHand ==
  ASSUME SharedInv, CallAccount, NEW c \in calls, c.state = "pending"
  PROVE  InHand(c)
<1>1. HelperInv /\ PendingIsUnderWay /\ NothingIdle /\ c \in Pending
  BY DEF SharedInv, CallAccount, PendingIsUnderWay, Pending
<1>2. session
  BY <1>1 DEF PendingIsUnderWay
<1>3. attached => helper \in {"serving", "leaving"} /\ reading
  BY <1>1 DEF HelperInv, HelperTypeOK, ProcessAndSession, NothingIdle
<1>4. attached /\ ~closing /\ helper = "serving" => c.to \in UnderWay
  BY <1>1 DEF PendingIsUnderWay
<1>5. active \subseteq running \cup Of("complete")
  BY <1>1 DEF NothingIdle
<1> QED
  BY <1>2, <1>3, <1>4, <1>5 DEF InHand, UnderWay, Requests

\* No thread of the master waits for something that nobody will bring: a call has
\* its answer, or the helper or the end of the session is at work on it, and a
\* thread without a slot has one to come or learns that no backend is left,
\* whatever breaks (fleet.py:127-158, ssh_transport.py:104-118, 128-146,
\* helper.py:141-200).
THEOREM NobodyWaits == Spec => []NobodyWaitsInVain
<1>1. SharedInv /\ CallAccount => NobodyWaitsInVain
  <2> SUFFICES ASSUME SharedInv, CallAccount PROVE NobodyWaitsInVain
    OBVIOUS
  <2>1. TypeOK /\ WaitersHaveCalls
    BY DEF SharedInv, CallAccount
  <2>2. main \in Awaiting => \E c \in calls : c.state \in {"ok", "error"} \/ InHand(c)
    <3>1. \A c \in calls : c.state \in {"pending", "ok", "error", "unwritten"}
      BY <2>1 DEF TypeOK, Call
    <3> QED
      BY <2>1, <3>1, PendingIsInHand DEF WaitersHaveCalls
  <2>3. \A n \in Nonces : tasks[n] = "remote" =>
           \E c \in calls : c.to = ComputeCall(n) /\ (c.state = "pending" => InHand(c))
    BY <2>1, PendingIsInHand DEF WaitersHaveCalls
  <2> QED
    BY <2>2, <2>3, WaiterHasBackend DEF NobodyWaitsInVain
<1> QED
  BY <1>1, FleetAlways, PTL DEF FleetInv

-----------------------------------------------------------------------------
(* The two stores.                                                         *)

\* Who writes the helper's tables.
LEMMA WhoWritesTables ==
  ASSUME [Next]_vars
  PROVE  UNCHANGED evidenceVars \/ TakeComplete \/ TakePrepare \/ TakePrepareFails
<1>1. ServeStep => UNCHANGED evidenceVars \/ TakeComplete \/ TakePrepare
  BY DEF ServeStep, TakeEnd, DropRequest, TakeInquiry, TakeCompute, TakeRelease, Leave, Exit, OutputKept
<1>2. Reading \/ Signalled \/ (\E m, leaf : Computed(m, leaf)) \/ Killed \/ TakeReleaseFails
         \/ ExitFails \/ OutputKept
      => UNCHANGED evidenceVars
  BY DEF Reading, ReadRequest, ReadEnd, Signalled, Computed, Killed, TakeReleaseFails, ExitFails,
         OutputKept
<1> QED
  BY <1>1, <1>2, WhoMovesHelper

\* The helper's tables only grow, and only by its own steps.
LEMMA TablesGrow ==
  ASSUME SharedInv, [Next]_vars
  PROVE  \A b \in Benchmarks :
           /\ assignments[b].payload # None => assignments'[b].payload = assignments[b].payload
           /\ assignments[b].acknowledged => assignments'[b].acknowledged
           /\ \A n \in Nonces : nonces[b][n] # None => nonces'[b][n] = nonces[b][n]
<1>0. HelperInv /\ assignments \in [Benchmarks -> AssignmentRow]
  BY DEF SharedInv, HelperInv, HelperTypeOK, StoreTypeOK
<1>1. CASE UNCHANGED evidenceVars
  BY <1>1 DEF evidenceVars
<1>2. CASE TakeComplete
  <2>1. assignments' = assignments
    BY <1>2 DEF TakeComplete
  <2>2. Effect
    BY <1>0, <1>2, HelperSteps DEF ServeStep
  <2> QED
    BY <2>1, <2>2 DEF Effect
<1>3. CASE TakePrepare \/ TakePrepareFails
  <2>1. PICK m : m = Head(events).of
    OBVIOUS
  <2>2. /\ nonces' = nonces
        /\ \/ assignments' = assignments
           \/ /\ assignments[m.bench].payload \in {None, m.digest}
              /\ assignments' = [assignments EXCEPT ![m.bench].payload = m.digest,
                                                    ![m.bench].acknowledged = TRUE]
    BY <1>3, <2>1 DEF TakePrepare, TakePrepareFails
  <2>3. CASE /\ assignments[m.bench].payload \in {None, m.digest}
             /\ assignments' = [assignments EXCEPT ![m.bench].payload = m.digest,
                                                   ![m.bench].acknowledged = TRUE]
    <3>1. \A line \in AssignmentRow :
             /\ [[line EXCEPT !.payload = m.digest] EXCEPT !.acknowledged = TRUE].payload = m.digest
             /\ [[line EXCEPT !.payload = m.digest] EXCEPT !.acknowledged = TRUE].acknowledged
      BY DEF AssignmentRow
    <3>2. \A b \in Benchmarks :
             assignments'[b] = IF b = m.bench
                               THEN [[assignments[b] EXCEPT !.payload = m.digest] EXCEPT !.acknowledged = TRUE]
                               ELSE assignments[b]
      BY <1>0, <2>3
    <3> SUFFICES ASSUME NEW b \in Benchmarks
                 PROVE  /\ assignments[b].payload # None => assignments'[b].payload = assignments[b].payload
                        /\ assignments[b].acknowledged => assignments'[b].acknowledged
      BY <2>2
    <3>3. CASE b # m.bench
      BY <3>2, <3>3
    <3>4. CASE b = m.bench
      <4>1. PICK line \in AssignmentRow : line = assignments[b]
        BY <1>0
      <4>2. assignments'[b] = [[line EXCEPT !.payload = m.digest] EXCEPT !.acknowledged = TRUE]
        BY <3>2, <3>4, <4>1
      <4>3. assignments'[b].payload = m.digest /\ assignments'[b].acknowledged
        BY <3>1, <4>2
      <4> QED
        BY <2>3, <3>4, <4>3
    <3> QED
      BY <3>3, <3>4
  <2> QED
    BY <2>2, <2>3
<1>4. UNCHANGED evidenceVars \/ TakeComplete \/ TakePrepare \/ TakePrepareFails
  BY WhoWritesTables
<1> QED
  BY <1>1, <1>2, <1>3, <1>4

\* Who writes outputs at the master.
LEMMA WhoSavesOutput == [Next]_vars => UNCHANGED outputs \/ SaveOutput
<1> SUFFICES ASSUME [Next]_vars, ~SaveOutput PROVE UNCHANGED outputs
  OBVIOUS
<1> USE DEF Durable
<1>1. CASE Launch \/ MainStep
  <2>1. CASE Launch \/ Started \/ StartupFails \/ Idle \/ StepNew \/ Offered \/ NotOffered
    BY <2>1 DEF Launch, Started, StartupFails, Idle, StepNew, Offered, NotOffered, vars, masterVars
  <2>2. CASE StepBenchmark \/ Check \/ Validated \/ NotValidated \/ Recheck \/ RemotePrepared \/ RemoteOmitted
    BY <2>2 DEF StepBenchmark, Check, Validated, NotValidated, Recheck, RemotePrepared, RemoteOmitted
  <2>3. CASE Submit \/ TaskFailed \/ Shutdown \/ Completed \/ StepConcluded \/ Released \/ NotReleased
    BY <2>3 DEF Submit, TaskFailed, Shutdown, Completed, StepConcluded, Released, NotReleased
  <2> QED
    BY <1>1, <2>1, <2>2, <2>3 DEF MainStep
<1>2. CASE \E n \in Nonces : ThreadStep(n)
  BY <1>2 DEF ThreadStep, TakeSlot, NobodyLeft, LocalEnds, RemoteEnds
<1>3. CASE Receive \/ SessionEnds \/ TimesOut \/ PoolConcludes \/ CutLink \/ Crash
  BY <1>3 DEF Receive, SessionEnds, TimesOut, PoolConcludes, CutLink, Crash, masterVars
<1>4. CASE \/ HelperActs(ServeStep) \/ HelperActs(Reading)
           \/ HelperActs(\E m \in running : Computing(m)) \/ HelperFault
  BY <1>4 DEF HelperActs, HelperFault, masterVars
<1>5. CASE UNCHANGED vars
  BY <1>5 DEF vars, masterVars
<1> QED
  BY <1>1, <1>2, <1>3, <1>4, <1>5 DEF Next

LEMMA OutputsGrow ==
  ASSUME SharedInv, [Next]_vars, NEW b \in Benchmarks, NEW n \in Nonces, outputs[b][n] # None
  PROVE  outputs'[b][n] = outputs[b][n]
<1>1. CASE UNCHANGED outputs
  BY <1>1
<1>2. CASE SaveOutput
  <2>1. PICK k \in Nonces : tasks[k] \in Leaves /\ outputs' = [outputs EXCEPT ![row][k] = tasks[k]]
    BY <1>2 DEF SaveOutput
  <2>2. tasks[k] # "idle"
    BY <2>1, TaskAssumption
  <2>3. outputs[row][k] = None
    BY <2>2, ThreadsRun
  <2>4. outputs \in [Benchmarks -> [Nonces -> Leaves \cup {None}]]
    BY DEF SharedInv, TypeOK
  <2> QED
    BY <2>1, <2>3, <2>4
<1> QED
  BY <1>1, <1>2, WhoSavesOutput

\* No crash, retry or second session changes or drops an output or an assignment
\* that one of the two stores has (state.py:105-164, fleet.py:150-153,
\* helper.py:89-93).
THEOREM StoresGrow == Spec => StoresOnlyGrow
<1>1. SharedInv /\ [Next]_vars =>
        [\A b \in Benchmarks :
           /\ assignments[b].payload # None => assignments'[b].payload = assignments[b].payload
           /\ assignments[b].acknowledged => assignments'[b].acknowledged
           /\ \A n \in Nonces : /\ nonces[b][n] # None => nonces'[b][n] = nonces[b][n]
                                /\ outputs[b][n] # None => outputs'[b][n] = outputs[b][n]]_vars
  BY TablesGrow, OutputsGrow
<1> QED
  BY <1>1, SharedAlways, PTL DEF Spec, StoresOnlyGrow

\* Where a task's result comes from.
LEMMA ResultsCome ==
  ASSUME SharedInv, [Next]_vars, LocalWorkers = 0, NEW n \in Nonces, tasks'[n] \in Leaves
  PROVE  /\ row' = row
         /\ tasks'[n] = tasks[n] \/ (tasks[n] = "remote" /\ tasks'[n] = nonces[row][n])
<1>0. /\ TypeOK /\ StepInHand /\ ReceivedSaved
      /\ \A t \in {"idle", "waiting", "local", "remote", "failed"} : t \notin Leaves
  BY TaskAssumption DEF SharedInv
<1>1. tasks' # NoTasks
  BY <1>0 DEF NoTasks
<1>2. CASE Launch \/ MainStep
  <2>1. ~Speaks
    BY <1>1 DEF Speaks
  <2>2. ~StartupFails
    BY <1>1, NoTasksYet DEF StartupFails, Fleet
  <2>3. CASE Idle \/ TaskFailed
    BY <2>3 DEF Idle, TaskFailed, vars, masterVars, Durable, Fleet
  <2>4. CASE Submit \/ SaveOutput
    <3>1. PICK k \in Nonces, t \in {"waiting", "idle"} : tasks' = [tasks EXCEPT ![k] = t] /\ row' = row
      BY <2>4 DEF Submit, SaveOutput, Durable, MissingOutputs
    <3> QED
      BY <1>0, <3>1 DEF TypeOK
  <2> QED
    BY <1>2, <2>1, <2>2, <2>3, <2>4, MainSteps
<1>3. CASE \E k \in Nonces : ThreadStep(k)
  <2>1. PICK k \in Nonces : ThreadStep(k)
    BY <1>3
  <2>2. row' = row
    BY <2>1 DEF ThreadStep, TakeSlot, NobodyLeft, LocalEnds, RemoteEnds, Durable
  <2>3. ~LocalEnds(k)
    BY <1>0 DEF LocalEnds, StepInHand, Backends
  <2>4. CASE TakeSlot(k) \/ NobodyLeft(k)
    <3>1. tasks' = tasks \/ \E t \in {"failed", "local", "remote"} : tasks' = [tasks EXCEPT ![k] = t]
      BY <2>4, BackendNames DEF TakeSlot, NobodyLeft
    <3> QED
      BY <1>0, <2>2, <3>1 DEF TypeOK
  <2>5. CASE RemoteEnds(k)
    <3>0. tasks[k] = "remote"
      BY <2>5 DEF RemoteEnds
    <3>1. PICK c \in calls : /\ c.to = ComputeCall(k)
                             /\ \/ c.state = "ok" /\ tasks' = [tasks EXCEPT ![k] = c.leaf]
                                \/ tasks' = [tasks EXCEPT ![k] = "failed"]
      BY <2>5 DEF RemoteEnds
    <3>2. c.to.op = "compute" /\ c.to.bench = row /\ c.to.nonce = k
      BY <3>1 DEF ComputeCall, MessageTo
    <3>3. c.state = "ok" => nonces[row][k] = c.leaf
      BY <1>0, <3>2 DEF ReceivedSaved
    <3> QED
      BY <1>0, <2>2, <3>0, <3>1, <3>3 DEF TypeOK
  <2> QED
    BY <2>1, <2>3, <2>4, <2>5 DEF ThreadStep
<1>4. CASE \/ Receive \/ SessionEnds \/ TimesOut \/ PoolConcludes \/ CutLink \/ HelperFault \/ UNCHANGED vars
           \/ HelperActs(ServeStep) \/ HelperActs(Reading) \/ HelperActs(\E m \in running : Computing(m))
  BY <1>4 DEF Receive, SessionEnds, TimesOut, PoolConcludes, CutLink, HelperFault, HelperActs,
              vars, masterVars, Durable, Fleet
<1>5. ~Crash
  BY <1>1 DEF Crash
<1> QED
  BY <1>2, <1>3, <1>4, <1>5 DEF Next

LEMMA HelperKeepsIt ==
  ASSUME SharedInv, HelperHasIt, [Next]_vars, LocalWorkers = 0
  PROVE  HelperHasIt'
<1>0. TypeOK /\ \A b \in Benchmarks, n \in Nonces : nonces[b][n] # None => nonces'[b][n] = nonces[b][n]
  BY TablesGrow DEF SharedInv
<1>1. ASSUME NEW n \in Nonces, tasks[n] \in Leaves
      PROVE  row \in Benchmarks /\ nonces[row][n] = tasks[n] /\ nonces'[row][n] = tasks[n]
  <2>1. tasks[n] # "idle" /\ tasks[n] # None
    BY <1>1, TaskAssumption, NoneAssumption
  <2>2. row \in Benchmarks
    BY <2>1, ThreadsRun
  <2> QED
    BY <1>0, <1>1, <2>1, <2>2 DEF HelperHasIt
<1>2. ASSUME NEW n \in Nonces, tasks'[n] \in Leaves
      PROVE  nonces'[row'][n] = tasks'[n]
  <2>1. row' = row /\ (tasks'[n] = tasks[n] \/ (tasks[n] = "remote" /\ tasks'[n] = nonces[row][n]))
    BY <1>2, ResultsCome
  <2>2. CASE tasks'[n] = tasks[n]
    BY <1>1, <1>2, <2>1, <2>2
  <2>3. CASE tasks[n] = "remote" /\ tasks'[n] = nonces[row][n]
    <3>1. tasks[n] # "idle" /\ nonces[row][n] # None
      BY <1>2, <2>3, NoneAssumption
    <3>2. row \in Benchmarks
      BY <3>1, ThreadsRun
    <3> QED
      BY <1>0, <2>1, <2>3, <3>1, <3>2
  <2> QED
    BY <2>1, <2>2, <2>3
<1>3. ASSUME NEW b \in Benchmarks, NEW n \in Nonces
      PROVE  outputs'[b][n] \in {None, nonces'[b][n]}
  <2>1. outputs[b][n] \in {None, nonces[b][n]}
    BY DEF HelperHasIt
  <2>2. CASE UNCHANGED outputs
    BY <1>0, <2>1, <2>2
  <2>3. CASE SaveOutput
    <3>1. PICK k \in Nonces : tasks[k] \in Leaves /\ outputs' = [outputs EXCEPT ![row][k] = tasks[k]]
      BY <2>3 DEF SaveOutput
    <3>2. row \in Benchmarks /\ nonces'[row][k] = tasks[k]
      BY <1>1, <3>1
    <3>3. outputs \in [Benchmarks -> [Nonces -> Leaves \cup {None}]]
      BY <1>0 DEF TypeOK
    <3> QED
      BY <1>0, <2>1, <3>1, <3>2, <3>3
  <2> QED
    BY <2>2, <2>3, WhoSavesOutput
<1> QED
  BY <1>2, <1>3 DEF HelperHasIt

\* A master without workers of its own never has an output that its helper does
\* not have, nor a different one (fleet.py:134-158, helper.py:89-93, 158-160).
THEOREM CoordinatorMatchesHelper ==
  ASSUME LocalWorkers = 0
  PROVE  Spec => []HelperHasIt
<1>1. Init => HelperHasIt
  BY TaskAssumption DEF Init, HelperHasIt, Blank, NoTasks
<1> QED
  BY <1>1, HelperKeepsIt, SharedAlways, PTL DEF Spec

-----------------------------------------------------------------------------
(* The two stores of SharedBenchmark.                                      *)

\* Who moves a benchmark, or the main thread to where it decides about one.
LEMMA WhoMovesBenchmarks ==
  ASSUME [Next]_vars
  PROVE  /\ \/ UNCHANGED <<stage, row, over>>
            \/ Offered \/ StepBenchmark \/ Validated \/ StepConcluded \/ Released \/ PoolConcludes
         /\ main' \in {"offer", "release"} =>
                StepNew \/ StepConcluded \/ (main' = main /\ UNCHANGED row)
<1> USE DEF Durable, World, masterVars
<1>1. CASE Launch \/ Started \/ StartupFails \/ Idle \/ StepNew \/ NotOffered \/ Check \/ NotValidated
  BY <1>1 DEF Launch, Started, StartupFails, Idle, StepNew, NotOffered, Check, NotValidated, StepEnds, vars
<1>2. CASE Recheck \/ RemotePrepared \/ RemoteOmitted \/ Submit \/ SaveOutput \/ TaskFailed
  BY <1>2 DEF Recheck, RemotePrepared, RemoteOmitted, Submit, SaveOutput, TaskFailed
<1>3. CASE Shutdown \/ Completed \/ NotReleased \/ Offered \/ StepBenchmark \/ Released
  BY <1>3 DEF Shutdown, Completed, NotReleased, StepEnds, Offered, StepBenchmark, Released
<1>4. CASE Validated \/ StepConcluded
  BY <1>4 DEF Validated, StepEnds
<1>5. CASE \E n \in Nonces : ThreadStep(n)
  BY <1>5 DEF ThreadStep, TakeSlot, NobodyLeft, LocalEnds, RemoteEnds
<1>6. CASE Receive \/ SessionEnds \/ TimesOut \/ PoolConcludes \/ CutLink \/ Crash \/ UNCHANGED vars
  BY <1>6 DEF Receive, SessionEnds, TimesOut, PoolConcludes, CutLink, Crash, vars
<1>7. CASE \/ HelperActs(ServeStep) \/ HelperActs(Reading)
           \/ HelperActs(\E m \in running : Computing(m)) \/ HelperFault
  BY <1>7 DEF HelperActs, HelperFault
<1> QED
  BY <1>1, <1>2, <1>3, <1>4, <1>5, <1>6, <1>7 DEF Next, MainStep

LEMMA RowNext ==
  ASSUME SharedInv, RowIsOpen, [Next]_vars
  PROVE  RowIsOpen'
<1>0. TypeOK
  BY DEF SharedInv
<1>1. \A b \in Benchmarks : stage'[b] \in {"offered", "saved", "owned"} <=> row' = b
  <2>1. CASE UNCHANGED <<stage, row, over>>
    BY <2>1 DEF RowIsOpen
  <2>2. CASE Offered
    <3>1. /\ row = None
          /\ \E b \in Benchmarks : stage' = [stage EXCEPT ![b] = "offered"] /\ row' = b
      BY <2>2 DEF Offered, RowIsOpen
    <3> QED
      BY <1>0, <3>1, NoneAssumption DEF RowIsOpen, TypeOK
  <2>3. CASE StepBenchmark
    <3>1. /\ row \in Benchmarks /\ row' = row
          /\ stage' = stage \/ stage' = [stage EXCEPT ![row] = "saved"]
      BY <1>0, <2>3 DEF StepBenchmark, TypeOK
    <3> QED
      BY <1>0, <3>1 DEF RowIsOpen, TypeOK
  <2>4. CASE Validated
    <3>1. /\ row \in Benchmarks /\ row' = row
          /\ stage' = stage \/ stage' = [stage EXCEPT ![row] = "owned"]
      BY <2>4, RowInHand DEF Validated
    <3> QED
      BY <1>0, <3>1 DEF RowIsOpen, TypeOK
  <2>5. CASE StepConcluded \/ Released
    <3>1. row \in Benchmarks
      BY <1>0, <2>5, RowInHand DEF StepConcluded, Released, TypeOK
    <3>2. UNCHANGED <<stage, row>> \/ Finish(row)
      BY <2>5 DEF StepConcluded, Released
    <3>3. CASE Finish(row)
      <4>1. stage' = [stage EXCEPT ![row] = "finished"] /\ row' = None
        BY <3>3 DEF Finish
      <4> QED
        BY <1>0, <3>1, <4>1, NoneAssumption DEF RowIsOpen, TypeOK
    <3> QED
      BY <3>2, <3>3 DEF RowIsOpen
  <2>6. CASE PoolConcludes
    BY <2>6 DEF PoolConcludes, masterVars, RowIsOpen
  <2> QED
    BY <2>1, <2>2, <2>3, <2>4, <2>5, <2>6, WhoMovesBenchmarks
<1>2. over \subseteq over'
  <2>1. Offered \/ StepBenchmark \/ Validated \/ StepConcluded \/ Released => over' = over
    BY DEF Offered, StepBenchmark, Validated, StepConcluded, Released, World
  <2> QED
    BY <2>1, WhoMovesBenchmarks DEF PoolConcludes
<1>3. CASE main' \in {"offer", "release"}
  <2>1. CASE StepNew
    BY <1>1, <2>1 DEF StepNew, RowIsOpen, Durable
  <2>2. CASE StepConcluded
    BY <1>1, <1>2, <1>3, <2>2 DEF StepConcluded, StepEnds, RowIsOpen
  <2>3. CASE main' = main /\ UNCHANGED row
    BY <1>1, <1>2, <2>3 DEF RowIsOpen
  <2> QED
    BY <1>3, <2>1, <2>2, <2>3, WhoMovesBenchmarks
<1> QED
  BY <1>1, <1>3 DEF RowIsOpen

\* A line that is sent is the only request that can be new.
LEMMA LineSent ==
  ASSUME HelperInv, NEW m, Deliver(m)
  PROVE  Requests' \subseteq Requests \cup {m}
<1>1. inbox \in Seq(Message) /\ inbox' = IF attached THEN Append(inbox, m) ELSE inbox
  BY DEF HelperInv, HelperTypeOK, Deliver
<1>2. Unread' \subseteq Unread \cup {m}
  <2>1. CASE attached
    <3>1. \A j \in DOMAIN inbox' : (j \in DOMAIN inbox /\ inbox'[j] = inbox[j]) \/ inbox'[j] = m
      BY <1>1, <2>1
    <3> QED
      BY <3>1 DEF Unread
  <2> QED
    BY <1>1, <2>1 DEF Unread
<1>3. Of("request")' = Of("request")
  BY DEF Deliver, process, Of
<1> QED
  BY <1>2, <1>3 DEF Requests

\* The helper is asked to prepare at one place of the code only.
LEMMA WhoAsksToPrepare ==
  ASSUME SharedInv, [Next]_vars, NEW k \in Requests', k.op = "prepare"
  PROVE  k \in Requests \/ k = About("prepare", row, row)
<1>0. HelperInv
  BY DEF SharedInv
<1>1. ASSUME NEW m, Deliver(m), m.op # "prepare" \/ m = About("prepare", row, row)
      PROVE  k \in Requests \/ k = About("prepare", row, row)
  BY <1>0, <1>1, LineSent
<1>2. CASE UNCHANGED <<inbox, process>>
  <2>1. Unread' = Unread /\ Of("request")' = Of("request")
    BY <1>2 DEF Unread, Of, process
  <2> QED
    BY <2>1 DEF Requests
<1>3. CASE SayHello
  <2>1. Hello.op # "prepare"
    BY HelloIsAMessage
  <2>2. CASE Ask(Hello)
    BY <1>1, <2>1, <2>2 DEF Ask
  <2>3. CASE Launched /\ inbox' = <<Hello>>
    <3>1. DOMAIN inbox' = {1} /\ inbox'[1] = Hello
      BY <2>3
    <3>2. Unread' = {Hello}
      BY <3>1 DEF Unread
    <3>3. Of("request")' = {}
      BY <2>3, NothingQueued DEF Launched
    <3> QED
      BY <2>1, <3>2, <3>3 DEF Requests
  <2> QED
    BY <1>2, <1>3, <2>2, <2>3 DEF SayHello
<1>4. CASE AskNothing \/ StepEnds \/ HelperStays
  BY <1>2, <1>4 DEF AskNothing, StepEnds, HelperStays, helperVars
<1>5. CASE Launch \/ MainStep
  <2>1. CASE Launch \/ StepNew \/ StepBenchmark
    BY <1>3, <2>1 DEF Launch, StepNew, StepBenchmark
  <2>2. CASE Started \/ Offered \/ NotOffered \/ NotValidated \/ NotReleased \/ Released \/ Shutdown \/ Completed
    BY <1>4, <2>2 DEF Started, Offered, NotOffered, NotValidated, NotReleased, Released, Shutdown, Completed
  <2>3. CASE Validated \/ RemotePrepared \/ RemoteOmitted
    BY <1>3, <1>4, <2>3 DEF Validated, RemotePrepared, RemoteOmitted
  <2>4. CASE Submit \/ SaveOutput \/ TaskFailed \/ Idle
    BY <1>2, <1>4, <2>4 DEF Submit, SaveOutput, TaskFailed, Idle, vars, helperVars
  <2>5. CASE Check \/ Recheck
    <3>1. About("validate", row, row).op = "validate"
      BY DEF About, MessageTo
    <3> QED
      BY <1>1, <2>5, <3>1 DEF Check, Recheck, Ask
  <2>6. CASE StepConcluded
    <3>1. About("release", row, saved).op = "release"
      BY DEF About, MessageTo
    <3> QED
      BY <1>1, <1>4, <2>6, <3>1 DEF StepConcluded, Ask
  <2>7. CASE StartupFails
    BY <1>2, <2>7 DEF StartupFails
  <2> QED
    BY <1>5, <2>1, <2>2, <2>3, <2>4, <2>5, <2>6, <2>7 DEF MainStep
<1>6. CASE \E n \in Nonces : ThreadStep(n)
  <2>1. PICK n \in Nonces : ThreadStep(n)
    BY <1>6
  <2>2. ComputeCall(n).op = "compute"
    BY DEF ComputeCall, MessageTo
  <2> QED
    BY <1>1, <1>4, <2>1, <2>2 DEF ThreadStep, TakeSlot, NobodyLeft, LocalEnds, RemoteEnds
<1>7. CASE Receive \/ SessionEnds \/ CutLink \/ Crash \/ PoolConcludes \/ UNCHANGED vars
  BY <1>2, <1>4, <1>7 DEF Receive, SessionEnds, CutLink, Crash, PoolConcludes, vars, helperVars
<1>8. CASE TimesOut
  <2>1. Detached /\ OutputKept /\ UNCHANGED process /\ \E lost : NotWritten(lost)
    BY <1>8 DEF TimesOut
  <2> QED
    BY <1>0, <2>1, SessionCut
<1>9. CASE \/ HelperActs(ServeStep) \/ HelperActs(Reading)
           \/ HelperActs(\E m \in running : Computing(m)) \/ HelperFault
  <2>1. \/ ServeStep \/ Reading \/ \E m \in running : Computing(m)
        \/ Killed \/ Signalled \/ \E m \in running : Computed(m, None)
        \/ TakePrepareFails \/ TakeReleaseFails \/ ExitFails
    BY <1>9 DEF HelperActs, HelperFault
  <2> QED
    BY <1>0, <2>1, HelperSteps DEF Effect
<1> QED
  BY <1>5, <1>6, <1>7, <1>8, <1>9 DEF Next

\* What the helper's tables become in a step: as they were, or by one of its two writes.
LEMMA WhatHelperWrites ==
  ASSUME SharedInv, PayloadIsOurs, [Next]_vars
  PROVE  \/ UNCHANGED evidenceVars
         \/ /\ nonces' = nonces
            /\ \E b \in Benchmarks :
                 /\ HandedOver(b)
                 /\ assignments'[b].payload = PayloadOf[b] /\ assignments'[b].acknowledged
                 /\ \A a \in Benchmarks \ {b} : assignments'[a] = assignments[a]
         \/ /\ assignments' = assignments
            /\ \E b \in Benchmarks, n \in Nonces, leaf \in Leaves :
                 /\ assignments[b].acknowledged /\ nonces[b][n] \in {None, leaf}
                 /\ nonces' = [nonces EXCEPT ![b][n] = leaf]
<1>0. HelperInv /\ assignments \in [Benchmarks -> AssignmentRow] /\ HandoverFirst
  BY DEF SharedInv, HelperInv, HelperTypeOK, StoreTypeOK
<1>1. CASE TakeComplete
  <2>0. /\ events # <<>> /\ events \in Seq(Event) /\ Head(events).kind = "complete"
        /\ Of("complete") \subseteq active
    BY <1>0, <1>1 DEF TakeComplete, Serving, HelperInv, HelperTypeOK, OnePlace
  <2>1. PICK e : e = Head(events)
    OBVIOUS
  <2>2. e \in Event /\ 1 \in DOMAIN events /\ events[1] = e /\ e.kind = "complete"
    BY <2>0, <2>1
  <2>3. e.of \in active /\ e.leaf \in Leaves \cup {None}
    BY <2>0, <2>2 DEF Of, Event
  <2>4. e.of.bench \in Benchmarks /\ e.of.nonce \in Nonces
    BY <1>0, <2>3 DEF HelperInv, HelperTypeOK, Addressed, Message
  <2>5. /\ assignments' = assignments
        /\ nonces' = nonces \/ (e.leaf # None /\ SaveNonce(e.of.bench, e.of.nonce, e.leaf))
    BY <1>1, <2>1 DEF TakeComplete, SaveCompletion
  <2> QED
    BY <2>3, <2>4, <2>5 DEF SaveNonce, evidenceVars
<1>2. CASE TakePrepare \/ TakePrepareFails
  <2>0. Request("prepare")
    BY <1>2 DEF TakePrepare, TakePrepareFails
  <2>1. PICK m : m = Head(events).of
    OBVIOUS
  <2>2. m \in Requests /\ m \in Message /\ m.op = "prepare"
    BY <1>0, <2>0, <2>1, RequestTaken
  <2>3. m.bench \in Benchmarks /\ m.digest = PayloadOf[m.bench] /\ HandedOver(m.bench)
    BY <1>0, <2>2 DEF HelperInv, Addressed, Message, PayloadIsOurs, HandoverFirst
  <2>4. PICK b \in Benchmarks : b = m.bench
    BY <2>3
  <2>5. /\ nonces' = nonces
        /\ \/ assignments' = assignments
           \/ assignments' = [assignments EXCEPT ![b].payload = m.digest, ![b].acknowledged = TRUE]
    BY <1>2, <2>1, <2>4 DEF TakePrepare, TakePrepareFails
  <2>6. CASE assignments' = [assignments EXCEPT ![b].payload = m.digest, ![b].acknowledged = TRUE]
    <3>1. \A line \in AssignmentRow :
             /\ [[line EXCEPT !.payload = m.digest] EXCEPT !.acknowledged = TRUE].payload = m.digest
             /\ [[line EXCEPT !.payload = m.digest] EXCEPT !.acknowledged = TRUE].acknowledged
      BY DEF AssignmentRow
    <3>2. \A a \in Benchmarks :
             assignments'[a] = IF a = b
                               THEN [[assignments[b] EXCEPT !.payload = m.digest] EXCEPT !.acknowledged = TRUE]
                               ELSE assignments[a]
      BY <1>0, <2>6
    <3>3. PICK line \in AssignmentRow : line = assignments[b]
      BY <1>0
    <3>4. assignments'[b] = [[line EXCEPT !.payload = m.digest] EXCEPT !.acknowledged = TRUE]
      BY <3>2, <3>3
    <3>5. assignments'[b].payload = m.digest /\ assignments'[b].acknowledged
      BY <3>1, <3>4
    <3> QED
      BY <2>3, <2>4, <2>5, <3>2, <3>5
  <2> QED
    BY <2>5, <2>6 DEF evidenceVars
<1>3. UNCHANGED evidenceVars \/ TakeComplete \/ TakePrepare \/ TakePrepareFails
  BY WhoWritesTables
<1> QED
  BY <1>1, <1>2, <1>3

LEMMA PayloadNext ==
  ASSUME SharedInv, PayloadIsOurs, [Next]_vars
  PROVE  PayloadIsOurs'
<1>1. \A k \in Requests' : k.op = "prepare" => k.digest = PayloadOf[k.bench]
  <2>1. About("prepare", row, row).digest = PayloadOf[About("prepare", row, row).bench]
    BY DEF About, MessageTo
  <2> QED
    BY <2>1, WhoAsksToPrepare DEF PayloadIsOurs
<1>2. \A b \in Benchmarks : assignments'[b].acknowledged => assignments'[b].payload = PayloadOf[b]
  BY WhatHelperWrites DEF evidenceVars, PayloadIsOurs
<1> QED
  BY <1>1, <1>2 DEF PayloadIsOurs

\* The invariant behind the refinement.
SharedStores ==
    /\ SharedInv /\ RowIsOpen /\ PayloadIsOurs
    /\ LocalWorkers = 0 => HelperHasIt

LEMMA SharedStoresAlways == Spec => []SharedStores
<1>1. Init => SharedStores
  <2>1. Init => RowIsOpen
    BY NoneAssumption DEF Init, RowIsOpen
  <2>2. Init => PayloadIsOurs
    BY DEF Init, HelperInit, StoreInit, NoRow, PayloadIsOurs, Requests, Unread, Of
  <2>3. Init => HelperHasIt
    BY TaskAssumption DEF Init, HelperHasIt, Blank, NoTasks
  <2> QED
    BY <2>1, <2>2, <2>3, SharedInit DEF SharedStores
<1>2. SharedStores /\ [Next]_vars => SharedStores'
  <2> SUFFICES ASSUME SharedStores, [Next]_vars PROVE SharedStores'
    OBVIOUS
  <2>1. SharedInv' /\ RowIsOpen' /\ PayloadIsOurs'
    BY SharedNext, RowNext, PayloadNext DEF SharedStores
  <2>2. LocalWorkers = 0 => HelperHasIt'
    BY HelperKeepsIt DEF SharedStores
  <2> QED
    BY <2>1, <2>2 DEF SharedStores
<1> QED
  BY <1>1, <1>2, PTL DEF Spec

\* The abstract phase follows the row of the assignments table.
LEMMA PhaseFollows ==
  ASSUME TypeOK
  PROVE  /\ \A b \in Benchmarks :
              /\ Phase[b] = PhaseOf(b)
              /\ stage[b] = "new" => Phase[b] = "new"
              /\ stage[b] \in {"offered", "saved"} => Phase[b] = "taken"
              /\ stage[b] = "owned" => Phase[b] = "owned"
              /\ stage[b] = "finished" => Phase[b] = "closed"
         /\ UNCHANGED stage => UNCHANGED Phase
         /\ \A b \in Benchmarks :
              /\ stage' = [stage EXCEPT ![b] = "offered"] => Phase' = [Phase EXCEPT ![b] = "taken"]
              /\ stage' = [stage EXCEPT ![b] = "saved"] => Phase' = [Phase EXCEPT ![b] = "taken"]
              /\ stage' = [stage EXCEPT ![b] = "owned"] => Phase' = [Phase EXCEPT ![b] = "owned"]
              /\ stage' = [stage EXCEPT ![b] = "finished"] => Phase' = [Phase EXCEPT ![b] = "closed"]
<1>1. stage \in [Benchmarks -> {"new", "offered", "saved", "owned", "finished"}]
  BY DEF TypeOK
<1>2. ASSUME NEW b \in Benchmarks, NEW s, NEW p, stage' = [stage EXCEPT ![b] = s],
             (s \in {"offered", "saved"} /\ p = "taken") \/ (s = "owned" /\ p = "owned")
                \/ (s = "finished" /\ p = "closed")
      PROVE  Phase' = [Phase EXCEPT ![b] = p]
  BY <1>1, <1>2 DEF Phase, PhaseOf
<1> QED
  BY <1>1, <1>2 DEF Phase, PhaseOf

\* The master's steps that commit something to its own database.
LEMMA TablesLeft ==
  ASSUME Offered \/ StepBenchmark \/ Validated \/ StepConcluded \/ Released \/ PoolConcludes \/ SaveOutput
  PROVE  /\ UNCHANGED evidenceVars /\ (UNCHANGED outputs \/ SaveOutput)
         /\ UNCHANGED over \/ PoolConcludes
<1>1. SayHello \/ AskNothing \/ StepEnds \/ HelperStays \/ (\E m : Ask(m)) => UNCHANGED evidenceVars
  BY DEF SayHello, AskNothing, StepEnds, HelperStays, helperVars, Ask, Deliver, OutputKept, evidenceVars
<1> QED
  BY <1>1 DEF Offered, StepBenchmark, Validated, StepConcluded, Released, PoolConcludes, SaveOutput,
              masterVars, World

\* A step that leaves the helper's tables alone.
LEMMA MasterCommits ==
  ASSUME SharedStores, [Next]_vars, UNCHANGED evidenceVars
  PROVE  [Shared!Next]_(Shared!sharedVars)
<1>0. TypeOK /\ StepInHand /\ RowIsOpen
  BY DEF SharedStores, SharedInv
<1>1. UNCHANGED <<Given, nonces>>
  BY DEF Given, evidenceVars
<1>2. CASE UNCHANGED <<stage, row, over, outputs>>
  BY <1>0, <1>1, <1>2, PhaseFollows DEF Shared!sharedVars
<1>3. CASE Offered
  <2>1. PICK b \in Benchmarks : stage[b] = "new" /\ stage' = [stage EXCEPT ![b] = "offered"]
    BY <1>3 DEF Offered
  <2>2. \A a \in Benchmarks : stage[a] \in {"new", "finished"}
    BY <1>0, <1>3, NoneAssumption DEF Offered, RowIsOpen, TypeOK
  <2>3. Shared!Open = {}
    BY <1>0, <2>2, PhaseFollows DEF Shared!Open
  <2>4. UNCHANGED <<outputs, over>>
    BY <1>3 DEF Offered, World
  <2>5. Shared!Take(b)
    BY <1>0, <1>1, <2>1, <2>3, <2>4, PhaseFollows DEF Shared!Take
  <2> QED
    BY <2>5 DEF Shared!Next
<1>4. CASE StepBenchmark
  <2>1. row \in Benchmarks /\ UNCHANGED <<outputs, over>>
    BY <1>0, <1>4 DEF StepBenchmark, World, TypeOK
  <2>2. UNCHANGED stage \/ (stage[row] = "offered" /\ stage' = [stage EXCEPT ![row] = "saved"])
    BY <1>4 DEF StepBenchmark
  <2>3. UNCHANGED Phase
    BY <1>0, <2>1, <2>2, PhaseFollows DEF Phase
  <2> QED
    BY <1>1, <2>1, <2>3 DEF Shared!sharedVars
<1>5. CASE Validated
  <2>1. row \in Benchmarks /\ UNCHANGED <<outputs, over>>
    BY <1>5, RowInHand DEF Validated, World, SharedStores
  <2>2. stage[row] \in {"offered", "saved", "owned"}
    BY <1>0, <2>1 DEF RowIsOpen
  <2>3. UNCHANGED stage \/ stage' = [stage EXCEPT ![row] = "owned"]
    BY <1>5 DEF Validated
  <2>4. CASE UNCHANGED stage \/ stage[row] = "owned"
    <3>1. UNCHANGED stage
      BY <1>0, <2>1, <2>3, <2>4 DEF TypeOK
    <3> QED
      BY <1>0, <1>1, <2>1, <3>1, PhaseFollows DEF Shared!sharedVars
  <2>5. CASE stage' = [stage EXCEPT ![row] = "owned"] /\ stage[row] # "owned"
    <3>1. Shared!HandOver(row)
      BY <1>0, <1>1, <2>1, <2>2, <2>5, PhaseFollows DEF Shared!HandOver
    <3> QED
      BY <2>1, <3>1 DEF Shared!Next
  <2> QED
    BY <2>3, <2>4, <2>5
<1>6. CASE StepConcluded \/ Released
  <2>1. row \in Benchmarks /\ row \in over /\ UNCHANGED <<outputs, over>>
    BY <1>0, <1>6, RowInHand DEF StepConcluded, Released, World, RowIsOpen, SharedStores, TypeOK
  <2>2. UNCHANGED stage \/ stage' = [stage EXCEPT ![row] = "finished"]
    BY <1>6 DEF StepConcluded, Released, Finish
  <2>3. CASE UNCHANGED stage
    BY <1>0, <1>1, <2>1, <2>3, PhaseFollows DEF Shared!sharedVars
  <2>4. CASE stage' = [stage EXCEPT ![row] = "finished"]
    <3>1. stage[row] \in {"offered", "saved", "owned"}
      BY <1>0, <2>1 DEF RowIsOpen
    <3>2. row \in Shared!Open
      BY <1>0, <2>1, <3>1, PhaseFollows DEF Shared!Open
    <3>3. Shared!Close(row)
      BY <1>0, <1>1, <2>1, <2>4, <3>2, PhaseFollows DEF Shared!Close
    <3> QED
      BY <2>1, <3>3 DEF Shared!Next
  <2> QED
    BY <2>2, <2>3, <2>4
<1>7. CASE PoolConcludes
  <2>1. /\ row \in Benchmarks /\ over' = over \cup {row} /\ UNCHANGED <<stage, outputs>>
    BY <1>0, <1>7 DEF PoolConcludes, masterVars, TypeOK
  <2>2. stage[row] \in {"offered", "saved", "owned"}
    BY <1>0, <2>1 DEF RowIsOpen
  <2>3. row \in Shared!Open
    BY <1>0, <2>1, <2>2, PhaseFollows DEF Shared!Open
  <2>4. Shared!Conclude(row)
    BY <1>0, <1>1, <2>1, <2>3, PhaseFollows DEF Shared!Conclude
  <2> QED
    BY <2>1, <2>4 DEF Shared!Next
<1>8. CASE SaveOutput
  <2>1. PICK n \in Nonces : tasks[n] \in Leaves /\ outputs' = [outputs EXCEPT ![row][n] = tasks[n]]
    BY <1>8 DEF SaveOutput
  <2>2. tasks[n] # "idle"
    BY <2>1, TaskAssumption
  <2>3. row \in Benchmarks /\ outputs[row][n] = None
    BY <2>2, ThreadsRun DEF SharedStores
  <2>4. stage[row] = "owned" /\ UNCHANGED <<stage, over>>
    BY <1>0, <1>8 DEF SaveOutput, StepInHand, World
  <2>5. tasks[n] = nonces[row][n] \/ LocalWorkers > 0
    BY <2>1, FleetAssumption DEF SharedStores, HelperHasIt
  <2>6. Shared!Keep(row, n, tasks[n])
    BY <1>0, <1>1, <2>1, <2>3, <2>4, <2>5, PhaseFollows DEF Shared!Keep
  <2> QED
    BY <2>1, <2>3, <2>6 DEF Shared!Next
<1>9. CASE UNCHANGED <<stage, row, over>> /\ ~SaveOutput
  BY <1>2, <1>9, WhoSavesOutput
<1> QED
  BY <1>3, <1>4, <1>5, <1>6, <1>7, <1>8, <1>9, WhoMovesBenchmarks

\* A step in which the helper writes.
LEMMA HelperCommits ==
  ASSUME SharedStores, [Next]_vars, ~UNCHANGED evidenceVars
  PROVE  [Shared!Next]_(Shared!sharedVars)
<1>0. TypeOK /\ HandoverFirst /\ PayloadIsOurs /\ nonces \in [Benchmarks -> [Nonces -> Leaves \cup {None}]]
  BY DEF SharedStores, SharedInv, HelperInv, HelperTypeOK, StoreTypeOK
<1>1. UNCHANGED <<stage, row, over, outputs, Phase>>
  <2>1. UNCHANGED <<stage, row, over, outputs>>
    BY TablesLeft, WhoMovesBenchmarks, WhoSavesOutput
  <2> QED
    BY <1>0, <2>1, PhaseFollows
<1>2. \A b \in Benchmarks : PayloadOf[b] # None
  BY PayloadOfAssumption, NoneAssumption
<1>3. ASSUME nonces' = nonces,
             NEW b \in Benchmarks, HandedOver(b),
             assignments'[b].payload = PayloadOf[b], assignments'[b].acknowledged,
             \A a \in Benchmarks \ {b} : assignments'[a] = assignments[a]
      PROVE  [Shared!Next]_(Shared!sharedVars)
  <2>1. Given' = [Given EXCEPT ![b] = PayloadOf[b]]
    BY <1>3 DEF Given
  <2>2. CASE assignments[b].acknowledged
    <3>1. Given[b] = PayloadOf[b]
      BY <1>0, <2>2 DEF Given, PayloadIsOurs
    <3>2. Given' = Given
      BY <2>1, <3>1 DEF Given
    <3> QED
      BY <1>1, <1>3, <3>2 DEF Shared!sharedVars
  <2>3. CASE ~assignments[b].acknowledged
    <3>1. Given[b] = None
      BY <2>3 DEF Given
    <3>2. Phase[b] \in {"owned", "closed"}
      BY <1>0, <1>3, PhaseFollows DEF HandedOver
    <3>3. Shared!Give(b)
      BY <1>1, <1>3, <2>1, <3>1, <3>2 DEF Shared!Give
    <3> QED
      BY <3>3 DEF Shared!Next
  <2> QED
    BY <2>2, <2>3
<1>4. ASSUME assignments' = assignments,
             NEW b \in Benchmarks, NEW n \in Nonces, NEW leaf \in Leaves,
             assignments[b].acknowledged, nonces[b][n] \in {None, leaf},
             nonces' = [nonces EXCEPT ![b][n] = leaf]
      PROVE  [Shared!Next]_(Shared!sharedVars)
  <2>1. Given' = Given /\ Given[b] # None
    BY <1>0, <1>2, <1>4 DEF Given, PayloadIsOurs
  <2>2. CASE nonces[b][n] = None
    <3>1. Shared!ComputeThere(b, n, leaf)
      BY <1>1, <1>4, <2>1, <2>2 DEF Shared!ComputeThere
    <3> QED
      BY <3>1 DEF Shared!Next
  <2>3. CASE nonces[b][n] = leaf
    <3>1. nonces' = nonces
      BY <1>0, <1>4, <2>3
    <3> QED
      BY <1>1, <2>1, <3>1 DEF Shared!sharedVars
  <2> QED
    BY <1>4, <2>2, <2>3
<1>5. SharedInv /\ PayloadIsOurs
  BY DEF SharedStores
<1> QED
  BY <1>3, <1>4, <1>5, WhatHelperWrites

\* Broken sessions, crashes, kills, timeouts and Docker's failures change nothing
\* of what the two databases are: the helper has the payload that was handed over
\* and no other, each store keeps its first output, a coordinator has its
\* helper's, and one benchmark is open at a time until the pool is done with it
\* (fleet.py:94-158, helper.py:63-93, runner.py:37-148).
THEOREM SharedRefinement == Spec => ImplementsSharedBenchmark
<1>1. Init => Shared!Init
  BY DEF Init, HelperInit, StoreInit, NoRow, Blank, Shared!Init, Shared!Empty, Phase, PhaseOf, Given
<1>2. SharedStores /\ [Next]_vars => [Shared!Next]_(Shared!sharedVars)
  BY MasterCommits, HelperCommits
<1> QED
  BY <1>1, <1>2, SharedStoresAlways, PTL DEF Spec, ImplementsSharedBenchmark, Shared!Spec
=============================================================================
