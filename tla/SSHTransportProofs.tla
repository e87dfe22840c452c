------------------------- MODULE SSHTransportProofs -------------------------
(***************************************************************************)
(* Theorems about module SSHTransport for every number of threads,         *)
(* sessions and calls.                                                     *)
(***************************************************************************)
EXTENDS SSHTransportRefines, TLAPS

LEMMA ActorsDiffer ==
  /\ Main \notin Threads /\ Callers = Threads \cup {Main}
  /\ Callers \cap Sessions = {} /\ Actors = Callers \cup Sessions
  /\ MaxSessions \in Nat /\ MaxCalls \in Nat
BY ThreadAssumption, BoundAssumption, ReaderAssumption DEF Callers, Sessions, Actors

LEMMA SessionInvInit == Init => SessionInv
<1> SUFFICES ASSUME Init PROVE SessionInv
  OBVIOUS
<1>1. TypeOK
  <2>1. process \in 0 .. started /\ started \in 0 .. MaxSessions /\ made \in 0 .. MaxCalls
    BY ActorsDiffer DEF Init
  <2>2. within \in [Calls -> 0 .. started] /\ \A c \in 1 .. made : within[c] # 0
    BY DEF Init
  <2>3. call \in [Callers -> 0 .. made] /\ held \in [Callers -> 0 .. started]
        /\ popped \in [Sessions -> 0 .. made]
    BY DEF Init
  <2>4. failing \in [Actors -> SUBSET (1 .. made)] /\ lines \in [Sessions -> SUBSET (1 .. made)]
    BY DEF Init
  <2> QED
    BY <2>1, <2>2, <2>3, <2>4 DEF Init, TypeOK, Points
<1>2. OneAtATime
  BY ActorsDiffer DEF Init, OneAtATime
<1>3. CallsInHand
  BY DEF Init, CallsInHand, Closing, Cleared
<1>4. SessionsEnd
  BY DEF Init, SessionsEnd
<1>5. FuturesHeld
  BY ActorsDiffer DEF Init, FuturesHeld
<1>6. ResolvedOnce
  BY ActorsDiffer DEF Init, ResolvedOnce, Taken
<1>7. OldSessionIsOver
  BY DEF Init, OldSessionIsOver
<1> QED
  BY <1>1, <1>2, <1>3, <1>4, <1>5, <1>6, <1>7 DEF SessionInv

\* The functions of the callers, by themselves.
LEMMA CallersPlaced ==
  TypeOK => pc \in [Callers -> Points] /\ call \in [Callers -> Nat] /\ held \in [Callers -> Nat]
<1> SUFFICES ASSUME TypeOK PROVE pc \in [Callers -> Points] /\ call \in [Callers -> Nat]
                                 /\ held \in [Callers -> Nat]
  OBVIOUS
<1>1. pc \in [Callers -> Points]
  BY DEF TypeOK
<1>2. made \in Nat /\ started \in Nat
  BY ActorsDiffer DEF TypeOK
<1>3. call \in [Callers -> Nat]
  BY <1>2 DEF TypeOK
<1>4. held \in [Callers -> Nat]
  BY <1>2 DEF TypeOK
<1> QED
  BY <1>1, <1>3, <1>4

-----------------------------------------------------------------------------
(* What becomes of the futures.                                            *)

\* A step that leaves the futures alone, and who holds them.
LEMMA FuturesLeft ==
  ASSUME ResolvedOnce, FuturesHeld, UNCHANGED <<pending, future, failing, popped>>
  PROVE  /\ ResolvedOnce'
         /\ (\A s \in Sessions : (reader'[s] = "resolve" <=> reader[s] = "resolve")
                /\ (reader[s] = "failed_resolve" => reader'[s] = "failed_resolve"))
            => FuturesHeld'
<1>1. ResolvedOnce'
  BY DEF ResolvedOnce, Taken
<1> QED
  BY <1>1 DEF FuturesHeld

\* _fail() takes the pending futures from everybody else.
LEMMA PendingTaken ==
  ASSUME ResolvedOnce, FuturesHeld, NEW a \in Actors, TakePending(a),
         failing \in [Actors -> SUBSET (1 .. made)],
         UNCHANGED <<future, popped>>,
         a \in Sessions => popped[a] = 0
  PROVE  /\ ResolvedOnce' /\ pending' = {} /\ failure' = TRUE
         /\ failing'[a] = pending
         /\ \A b \in Actors \ {a} : failing'[b] = failing[b]
<1>1. /\ pending' = {} /\ failure' = TRUE /\ failing'[a] = pending
      /\ \A b \in Actors \ {a} : failing'[b] = failing[b]
  BY DEF TakePending
<1>2. Taken(a)' = pending
  BY <1>1 DEF Taken
<1>3. \A b \in Actors \ {a} : Taken(b)' = Taken(b)
  BY <1>1 DEF Taken
<1>4. \A c \in pending : future[c] = "open" /\ \A b \in Actors : c \notin Taken(b)
  BY DEF ResolvedOnce, FuturesHeld
<1>5. \A b \in Actors \ {a} : \A c \in Taken(b)' :
         /\ future'[c] = "open" /\ c \notin pending'
         /\ \A other \in Actors \ {b} : c \notin Taken(other)'
  BY <1>1, <1>2, <1>3, <1>4 DEF ResolvedOnce
<1>6. \A c \in Taken(a)' :
         /\ future'[c] = "open" /\ c \notin pending'
         /\ \A other \in Actors \ {a} : c \notin Taken(other)'
  BY <1>1, <1>2, <1>3, <1>4
<1> QED
  BY <1>1, <1>5, <1>6 DEF ResolvedOnce

\* A thread resolves one of the futures it took.
LEMMA OneResolved ==
  ASSUME ResolvedOnce, FuturesHeld, NEW a \in Actors, ResolveOne(a),
         failing \in [Actors -> SUBSET (1 .. made)],
         future \in [Calls -> {"none", "open", "ok", "error"}],
         UNCHANGED <<pending, popped>>,
         a \in Sessions => popped[a] = 0
  PROVE  /\ ResolvedOnce'
         /\ future' \in [Calls -> {"none", "open", "ok", "error"}]
         /\ failing' \in [Actors -> SUBSET (1 .. made)]
         /\ \A c \in pending : future'[c] = future[c]
         /\ failing[a] # {}
         /\ \A b \in Actors \ {a} : failing'[b] = failing[b]
<1> PICK c \in failing[a] :
        /\ failing' = [failing EXCEPT ![a] = @ \ {c}]
        /\ future' = IF future[c] = "open" THEN [future EXCEPT ![c] = "error"] ELSE future
  BY DEF ResolveOne
<1>1. failing'[a] = failing[a] \ {c} /\ \A b \in Actors \ {a} : failing'[b] = failing[b]
  OBVIOUS
<1>2. c \in Taken(a)
  BY DEF Taken
<1>3. Taken(a)' = Taken(a) \ {c}
  BY <1>1 DEF Taken
<1>4. \A b \in Actors \ {a} : Taken(b)' = Taken(b)
  BY <1>1 DEF Taken
<1>5. \A d : d # c => future'[d] = future[d]
  OBVIOUS
<1>6. c \notin pending /\ \A b \in Actors \ {a} : c \notin Taken(b)
  BY <1>2 DEF ResolvedOnce
<1>7. \A b \in Actors : \A d \in Taken(b)' : d # c /\ d \in Taken(b)
  BY <1>3, <1>4, <1>6
<1>8. ResolvedOnce'
  <2> SUFFICES ASSUME NEW b \in Actors, NEW d \in Taken(b)'
               PROVE  /\ future'[d] = "open" /\ d \notin pending'
                      /\ \A other \in Actors \ {b} : d \notin Taken(other)'
    BY DEF ResolvedOnce
  <2> QED
    BY <1>5, <1>7 DEF ResolvedOnce
<1>9. future' \in [Calls -> {"none", "open", "ok", "error"}]
  OBVIOUS
<1>10. failing' \in [Actors -> SUBSET (1 .. made)]
  OBVIOUS
<1>11. \A d \in pending : future'[d] = future[d]
  BY <1>5, <1>6
<1> QED
  BY <1>1, <1>8, <1>9, <1>10, <1>11

-----------------------------------------------------------------------------
(* call().                                                                 *)

\* A call enters, or its future has been resolved.
LEMMA EnterAndReturn ==
  ASSUME SessionInv, NEW t \in Callers, EnterCall(t) \/ Returned(t)
  PROVE  SessionInv'
<1> USE DEF Goto, Back
<1>0. TypeOK /\ OneAtATime /\ CallsInHand /\ SessionsEnd /\ FuturesHeld
      /\ ResolvedOnce /\ OldSessionIsOver
  BY DEF SessionInv
<1>1. UNCHANGED <<object, wire, book, future, failing, reader, popped>>
  BY DEF EnterCall, Returned
<1>2. /\ pc' = [pc EXCEPT ![t] = pc'[t]] /\ pc'[t] \in {"register", "idle"}
      /\ pc[t] \in {"idle", "wait"} /\ pc \in [Callers -> Points]
      /\ pc'[t] = "register" => call'[t] = call[t] /\ process # 0
      /\ pc'[t] = "idle" => call'[t] = 0
      /\ \A u \in Callers \ {t} : call'[u] = call[u] /\ held'[u] = held[u]
  <2>1. process \in up => process # 0
    BY <1>0 DEF TypeOK
  <2>2. CASE EnterCall(t)
    BY <1>0, <2>1, <2>2, CallersPlaced DEF EnterCall, MayCall, alive
  <2>3. CASE Returned(t)
    BY <1>0, <2>3, CallersPlaced DEF Returned
  <2> QED
    BY <2>2, <2>3
<1>3. TypeOK'
  BY <1>0, <1>1 DEF EnterCall, Returned, TypeOK, Points, object, wire, book
<1>4. OneAtATime'
  BY <1>0, ActorsDiffer DEF EnterCall, Returned, MayCall, Quiet, OneAtATime, TypeOK
<1>5. CallsInHand'
  BY <1>0, <1>1, <1>2 DEF CallsInHand, Closing, Cleared, object, book
<1>6. SessionsEnd'
  BY <1>0, <1>1, <1>2, ActorsDiffer DEF SessionsEnd, Cleared, object
<1>7. FuturesHeld' /\ ResolvedOnce'
  BY <1>0, <1>1, FuturesLeft DEF object
<1>8. OldSessionIsOver'
  BY <1>0, <1>1 DEF OldSessionIsOver, object, book
<1> QED
  BY <1>3, <1>4, <1>5, <1>6, <1>7, <1>8 DEF SessionInv

LEMMA Registers ==
  ASSUME SessionInv, NEW t \in Callers, Register(t)
  PROVE  SessionInv'
<1> USE DEF Goto, Back
<1>0. TypeOK /\ OneAtATime /\ CallsInHand /\ SessionsEnd /\ FuturesHeld
      /\ ResolvedOnce /\ OldSessionIsOver
  BY DEF SessionInv
<1>1. UNCHANGED <<process, failure, wire, started, failing, reader, popped>>
  BY DEF Register
<1>2. /\ pc[t] = "register" /\ pc'[t] \in {"write", "idle"}
      /\ pc' = [pc EXCEPT ![t] = pc'[t]] /\ pc \in [Callers -> Points]
      /\ \A u \in Callers \ {t} : call'[u] = call[u] /\ held'[u] = held[u]
      /\ pc'[t] = "idle" => call'[t] = 0
  BY <1>0, CallersPlaced DEF Register
<1>3. OneAtATime'
  BY <1>0, <1>2, ActorsDiffer DEF OneAtATime
<1>4. CASE pc'[t] = "idle"
  <2>1. UNCHANGED <<made, future, within, pending>>
    BY <1>2, <1>4 DEF Register
  <2>2. TypeOK'
    BY <1>0, <1>1, <2>1, <1>4 DEF Register, TypeOK, Points, wire
  <2>3. CallsInHand'
    BY <1>0, <1>1, <1>2, <1>4 DEF CallsInHand, Closing, Cleared
  <2>4. SessionsEnd'
    BY <1>0, <1>1, <1>2, <2>1, ActorsDiffer DEF SessionsEnd, Cleared
  <2>5. FuturesHeld' /\ ResolvedOnce'
    BY <1>0, <1>1, <2>1, FuturesLeft
  <2>6. OldSessionIsOver'
    BY <1>0, <1>1, <2>1 DEF OldSessionIsOver
  <2> QED
    BY <1>3, <2>2, <2>3, <2>4, <2>5, <2>6 DEF SessionInv
<1>5. CASE pc'[t] = "write"
  <2>1. /\ ~failure /\ made < MaxCalls /\ made' = made + 1
        /\ future' = [future EXCEPT ![made + 1] = "open"]
        /\ within' = [within EXCEPT ![made + 1] = process]
        /\ pending' = pending \cup {made + 1}
        /\ call' = [call EXCEPT ![t] = made + 1]
        /\ pc' = [pc EXCEPT ![t] = "write"]
        /\ UNCHANGED held
    BY <1>0, <1>2, <1>5, CallersPlaced DEF Register, NotFailed
  <2>2. made + 1 \in Calls /\ made \in Nat /\ 0 .. made \subseteq 0 .. made' /\ 1 .. made \subseteq 1 .. made'
        /\ made + 1 \notin 1 .. made /\ 1 .. made' = (1 .. made) \cup {made + 1}
    BY <1>0, <2>1, ActorsDiffer DEF TypeOK, Calls
  <2>3. process # 0
    BY <1>0, <1>2, <2>1 DEF CallsInHand
  <2>4. TypeOK'
    <3>1. process' \in 0 .. started' /\ started' \in 0 .. MaxSessions /\ failure' \in BOOLEAN
          /\ up' \subseteq 1 .. started'
      BY <1>0, <1>1 DEF TypeOK, wire
    <3>2. pending' \subseteq 1 .. made' /\ made' \in 0 .. MaxCalls
      <4>1. pending \subseteq 1 .. made
        BY <1>0 DEF TypeOK
      <4>2. made' \in 0 .. MaxCalls
        BY <1>0, <2>1, <2>2, ActorsDiffer DEF TypeOK
      <4> QED
        BY <2>1, <2>2, <4>1, <4>2
    <3>3. future' \in [Calls -> {"none", "open", "ok", "error"}]
      BY <1>0, <2>1 DEF TypeOK
    <3>4. within' \in [Calls -> 0 .. started'] /\ \A c \in 1 .. made' : within'[c] # 0
      BY <1>0, <1>1, <2>1, <2>2, <2>3 DEF TypeOK
    <3>5. pc' \in [Callers -> Points]
      BY <1>0, <2>1 DEF TypeOK, Points
    <3>6. call' \in [Callers -> 0 .. made'] /\ held' \in [Callers -> 0 .. started']
      BY <1>0, <1>1, <2>1, <2>2 DEF TypeOK
    <3>7. failing' \in [Actors -> SUBSET (1 .. made')]
      BY <1>0, <1>1, <2>2 DEF TypeOK
    <3>8. reader' \in [Sessions -> {"none", "reading", "resolve", "raised", "failed",
                               "failed_resolve", "done"}]
      BY <1>0, <1>1 DEF TypeOK
    <3>9. popped' \in [Sessions -> 0 .. made'] /\ lines' \in [Sessions -> SUBSET (1 .. made')]
      BY <1>0, <1>1, <2>2 DEF TypeOK, wire
    <3> QED
      BY <3>1, <3>2, <3>3, <3>4, <3>5, <3>6, <3>7, <3>8, <3>9 DEF TypeOK
  <2>5. CallsInHand'
    BY <1>0, <1>1, <1>2, <2>1, <2>2 DEF CallsInHand, Closing, Cleared, TypeOK
  <2>6. SessionsEnd'
    BY <1>0, <1>1, <1>2, <2>1, <2>3, ActorsDiffer DEF SessionsEnd, Cleared
  <2>7. \A a \in Actors : Taken(a)' = Taken(a) /\ Taken(a) \subseteq 1 .. made
    BY <1>0, <1>1 DEF TypeOK, Taken
  <2>8. \A c \in 1 .. made : future'[c] = future[c] /\ within'[c] = within[c]
    BY <2>1, <2>2
  <2>9. future'[made + 1] = "open" /\ within'[made + 1] = process
    BY <1>0, <2>1, <2>2 DEF TypeOK
  <2>10. FuturesHeld'
    BY <1>0, <1>1, <2>1, <2>8, <2>9 DEF FuturesHeld, TypeOK
  <2>11. ResolvedOnce'
    BY <1>0, <2>1, <2>2, <2>7, <2>8 DEF ResolvedOnce
  <2>12. OldSessionIsOver'
    BY <1>0, <1>1, <2>1, <2>8, <2>9 DEF OldSessionIsOver, TypeOK
  <2> QED
    BY <1>3, <2>4, <2>5, <2>6, <2>10, <2>11, <2>12 DEF SessionInv
<1> QED
  BY <1>2, <1>4, <1>5

\* The line is written, or the call fails the session: it cannot, or its time is over.
LEMMA WritesAndTimesOut ==
  ASSUME SessionInv, NEW t \in Callers, Write(t) \/ TimeOut(t) \/ CloseFails(t)
  PROVE  SessionInv'
<1> USE DEF Goto, Back
<1>0. TypeOK /\ OneAtATime /\ CallsInHand /\ SessionsEnd /\ FuturesHeld
      /\ ResolvedOnce /\ OldSessionIsOver
  BY DEF SessionInv
<1>1. UNCHANGED <<process, up, book, future, reader, popped>>
  BY DEF Write, TimeOut, CloseFails, wire
<1>2. /\ pc' = [pc EXCEPT ![t] = pc'[t]] /\ pc \in [Callers -> Points]
      /\ \/ pc[t] = "write" /\ pc'[t] \in {"wait", "idle", "send_resolve"}
         \/ pc[t] = "wait" /\ pc'[t] = "late_resolve" /\ TakePending(t)
         \/ pc[t] = "close_failed" /\ pc'[t] = "close_resolve" /\ TakePending(t)
      /\ pc'[t] = "send_resolve" => TakePending(t)
      /\ pc'[t] # "idle" => call' = call /\ held' = held
      /\ \A u \in Callers \ {t} : call'[u] = call[u] /\ held'[u] = held[u]
      /\ pc'[t] = "idle" => call'[t] = 0
  <2>1. CASE Write(t)
    BY <1>0, <2>1, CallersPlaced DEF Write
  <2>2. CASE TimeOut(t)
    BY <1>0, <2>2, CallersPlaced DEF TimeOut
  <2>3. CASE CloseFails(t)
    BY <1>0, <2>3, CallersPlaced DEF CloseFails
  <2> QED
    BY <2>1, <2>2, <2>3
<1>3. TakePending(t) \/ UNCHANGED <<failure, pending, failing>>
  BY DEF Write, TimeOut, CloseFails
<1>4. (failure' = failure /\ pending' = pending) \/ (failure' = TRUE /\ pending' = {})
  <2>1. CASE TakePending(t)
    BY <2>1 DEF TakePending
  <2>2. CASE UNCHANGED <<failure, pending, failing>>
    BY <2>2
  <2> QED
    BY <1>3, <2>1, <2>2
<1>5. OneAtATime'
  BY <1>0, <1>2, ActorsDiffer DEF OneAtATime
<1>6. CallsInHand'
  BY <1>0, <1>1, <1>2, <1>3 DEF CallsInHand, Closing, Cleared, book, TakePending
<1>7. SessionsEnd'
  <2>1. pc'[t] = "close_resolve" => held'[t] = held[t]
    BY <1>2
  <2>2. \A u \in Callers : pc[u] \in Cleared \cup {"clear"} => held'[u] = held[u]
    BY <1>2, <2>1 DEF Cleared
  <2>3. \A u \in Callers : /\ pc'[u] \in Cleared <=> pc[u] \in Cleared
                           /\ pc'[u] = "clear" <=> pc[u] = "clear"
                           /\ pc'[u] = "open" <=> pc[u] = "open"
    BY <1>2 DEF Cleared
  <2>4. process' # 0 => \A u \in Callers : /\ pc'[u] \notin Cleared \cup {"open"}
                                           /\ pc'[u] = "clear" => held'[u] = process'
    BY <1>0, <1>1, <2>2, <2>3 DEF SessionsEnd
  <2>5. \A s \in Sessions \ {process} :
           \/ reader'[s] \in {"none", "done"}
           \/ \E u \in Callers : pc'[u] \in Cleared /\ held'[u] = s
    BY <1>0, <1>1, <2>2, <2>3 DEF SessionsEnd
  <2>6. pending' # {} => ~failure' /\ (process # 0 \/ pc'[Main] = "close_failed")
    <3>1. CASE pc[t] = "write" /\ UNCHANGED <<failure, pending>>
      BY <1>0, <1>2, <3>1, ActorsDiffer DEF SessionsEnd
    <3> QED
      BY <1>2, <1>3, <3>1 DEF TakePending
  <2> QED
    BY <1>1, <2>4, <2>5, <2>6 DEF SessionsEnd
<1>8. t \in Actors /\ t \notin Sessions
  BY ActorsDiffer
<1>9. ResolvedOnce'
  BY <1>0, <1>1, <1>3, <1>8, PendingTaken, FuturesLeft DEF TypeOK
<1>10. FuturesHeld'
  <2>1. CASE TakePending(t)
    <3>1. \A s \in Sessions : failing'[s] = failing[s]
      BY <1>8, <2>1, ActorsDiffer DEF TakePending
    <3> QED
      BY <1>0, <1>1, <2>1, <3>1 DEF FuturesHeld, TakePending
  <2>2. CASE UNCHANGED <<failure, pending, failing>>
    BY <1>0, <1>1, <2>2, FuturesLeft
  <2> QED
    BY <1>3, <2>1, <2>2
<1>11. OldSessionIsOver'
  BY <1>0, <1>1, <1>4 DEF OldSessionIsOver, book
<1>12. TypeOK'
  <2>1. pc' \in [Callers -> Points]
    BY <1>0, <1>2 DEF TypeOK, Points
  <2>2. call' \in [Callers -> 0 .. made] /\ held' \in [Callers -> 0 .. started]
    BY <1>0, <1>1 DEF TypeOK, Write, TimeOut, CloseFails
  <2>3. failing' \in [Actors -> SUBSET (1 .. made)]
    BY <1>0, <1>3 DEF TypeOK, TakePending
  <2>4. lines' \in [Sessions -> SUBSET (1 .. made)]
    <3>1. CASE UNCHANGED lines
      BY <1>0, <3>1 DEF TypeOK
    <3>2. CASE lines' = [lines EXCEPT ![process] = @ \cup {call[t]}] /\ pc[t] = "write"
      <4>1. call[t] \in 1 .. made
        BY <1>0, <3>2 DEF CallsInHand, TypeOK
      <4> QED
        BY <1>0, <3>2, <4>1 DEF TypeOK
    <3> QED
      BY <3>1, <3>2 DEF Write, TimeOut, CloseFails, wire
  <2>5. pending' \subseteq 1 .. made /\ failure' \in BOOLEAN
    BY <1>0, <1>4 DEF TypeOK
  <2> QED
    BY <1>0, <1>1, <2>1, <2>2, <2>3, <2>4, <2>5 DEF TypeOK, book
<1> QED
  BY <1>5, <1>6, <1>7, <1>9, <1>10, <1>11, <1>12 DEF SessionInv

\* The futures a thread took are resolved one after the other.
LEMMA Resolves ==
  ASSUME SessionInv, NEW t \in Callers, Resolve(t)
  PROVE  SessionInv'
<1> USE DEF Goto, Back
<1>0. TypeOK /\ OneAtATime /\ CallsInHand /\ SessionsEnd /\ FuturesHeld
      /\ ResolvedOnce /\ OldSessionIsOver
  BY DEF SessionInv
<1>1. UNCHANGED <<object, wire, book, reader, popped>>
  BY DEF Resolve
<1>2. t \in Actors /\ t \notin Sessions
  BY ActorsDiffer
<1>3. CASE ResolveOne(t) /\ UNCHANGED local
  <2>1. /\ ResolvedOnce'
        /\ future' \in [Calls -> {"none", "open", "ok", "error"}]
        /\ failing' \in [Actors -> SUBSET (1 .. made)]
        /\ \A c \in pending : future'[c] = future[c]
        /\ \A b \in Actors \ {t} : failing'[b] = failing[b]
    BY <1>0, <1>1, <1>2, <1>3, OneResolved DEF TypeOK, object
  <2>2. \A s \in Sessions : failing'[s] = failing[s]
    BY <1>2, <2>1, ActorsDiffer
  <2>3. FuturesHeld'
    BY <1>0, <1>1, <2>1, <2>2 DEF FuturesHeld, object
  <2>4. TypeOK'
    BY <1>0, <1>1, <1>3, <2>1 DEF TypeOK, object, wire, book, local
  <2>5. OneAtATime' /\ CallsInHand' /\ SessionsEnd' /\ OldSessionIsOver'
    BY <1>0, <1>1, <1>3 DEF OneAtATime, CallsInHand, SessionsEnd, OldSessionIsOver, object, book, local
  <2> QED
    BY <2>1, <2>3, <2>4, <2>5 DEF SessionInv
<1>4. CASE ~(ResolveOne(t) /\ UNCHANGED local)
  <2>1. UNCHANGED <<failing, future>>
    BY <1>4 DEF Resolve
  <2>2. /\ pc' = [pc EXCEPT ![t] = pc'[t]] /\ pc \in [Callers -> Points]
        /\ \/ pc[t] = "send_resolve" /\ pc'[t] = "idle"
           \/ pc[t] = "late_resolve" /\ pc'[t] = "close"
           \/ pc[t] = "close_resolve" /\ pc'[t] = "stop"
        /\ pc'[t] # "idle" => call' = call /\ held' = held
        /\ \A u \in Callers \ {t} : call'[u] = call[u] /\ held'[u] = held[u]
        /\ pc'[t] = "idle" => call'[t] = 0
    BY <1>0, <1>4, CallersPlaced DEF Resolve
  <2>3. FuturesHeld' /\ ResolvedOnce'
    BY <1>0, <1>1, <2>1, FuturesLeft DEF object
  <2>4. TypeOK'
    BY <1>0, <1>1, <1>4, <2>1 DEF Resolve, TypeOK, Points, object, wire, book
  <2>5. OneAtATime'
    BY <1>0, <2>2, ActorsDiffer DEF OneAtATime
  <2>6. CallsInHand'
    BY <1>0, <1>1, <2>2 DEF CallsInHand, Closing, Cleared, object, book
  <2>7. SessionsEnd'
    <3>1. \A u \in Callers : /\ pc'[u] \in Cleared <=> pc[u] \in Cleared
                             /\ pc'[u] = "clear" <=> pc[u] = "clear"
                             /\ pc'[u] = "open" <=> pc[u] = "open"
                             /\ pc'[u] = "close_failed" <=> pc[u] = "close_failed"
      BY <2>2 DEF Cleared
    <3>2. \A u \in Callers : pc[u] \in Cleared \cup {"clear"} => held'[u] = held[u]
      BY <2>2 DEF Cleared
    <3> QED
      BY <1>0, <1>1, <3>1, <3>2, ActorsDiffer DEF SessionsEnd, object
  <2>8. OldSessionIsOver'
    BY <1>0, <1>1 DEF OldSessionIsOver, object, book
  <2> QED
    BY <2>3, <2>4, <2>5, <2>6, <2>7, <2>8 DEF SessionInv
<1> QED
  BY <1>3, <1>4

-----------------------------------------------------------------------------
(* close() and start().                                                    *)

\* `process` is read, and it is stopped once it was cleared.
LEMMA ReadsAndStops ==
  ASSUME SessionInv, NEW t \in Callers, CloseRead(t) \/ Stop(t)
  PROVE  SessionInv'
<1>0. TypeOK /\ OneAtATime /\ CallsInHand /\ SessionsEnd /\ FuturesHeld
      /\ ResolvedOnce /\ OldSessionIsOver
  BY DEF SessionInv
<1>1. UNCHANGED <<object, lines, book, call, future, failing, reader, popped>> /\ up' \subseteq up
  BY DEF CloseRead, Stop, wire, Goto
<1>2. /\ pc' = [pc EXCEPT ![t] = pc'[t]] /\ pc \in [Callers -> Points]
      /\ \/ pc[t] = "close" /\ pc'[t] = "clear" /\ held' = [held EXCEPT ![t] = process]
         \/ pc[t] = "stop" /\ pc'[t] = "join" /\ held' = held
      /\ held \in [Callers -> Nat]
  BY <1>0, CallersPlaced DEF CloseRead, Stop, Goto
<1>3. TypeOK'
  <2>1. pc' \in [Callers -> Points]
    BY <1>2 DEF Points
  <2>2. held' \in [Callers -> 0 .. started]
    BY <1>0, <1>2 DEF TypeOK
  <2> QED
    BY <1>0, <1>1, <2>1, <2>2 DEF TypeOK, object, book
<1>4. OneAtATime'
  BY <1>0, <1>2, ActorsDiffer DEF OneAtATime
<1>5. CallsInHand'
  BY <1>0, <1>1, <1>2 DEF CallsInHand, Closing, Cleared, object, book
<1>6. SessionsEnd'
  <2>1. \A u \in Callers : /\ pc'[u] \in Cleared <=> pc[u] \in Cleared
                           /\ pc[u] \in Cleared => held'[u] = held[u]
                           /\ pc'[u] = "open" <=> pc[u] = "open"
                           /\ pc'[u] = "close_failed" <=> pc[u] = "close_failed"
                           /\ pc'[u] = "clear" => \/ held'[u] = process
                                                  \/ (pc[u] = "clear" /\ held'[u] = held[u])
    BY <1>2 DEF Cleared
  <2> QED
    BY <1>0, <1>1, <2>1, ActorsDiffer DEF SessionsEnd, object
<1>7. FuturesHeld' /\ ResolvedOnce'
  BY <1>0, <1>1, FuturesLeft DEF object
<1>8. OldSessionIsOver'
  BY <1>0, <1>1 DEF OldSessionIsOver, object, book
<1> QED
  BY <1>3, <1>4, <1>5, <1>6, <1>7, <1>8 DEF SessionInv

\* From here on nobody reaches the session but the threads that hold it.
LEMMA Clears ==
  ASSUME SessionInv, NEW t \in Callers, CloseClear(t)
  PROVE  SessionInv'
<1> USE DEF Goto, Back
<1>0. TypeOK /\ OneAtATime /\ CallsInHand /\ SessionsEnd /\ FuturesHeld
      /\ ResolvedOnce /\ OldSessionIsOver
  BY DEF SessionInv
<1>1. UNCHANGED <<failure, pending, wire, book, future, failing, reader, popped>> /\ process' = 0
      /\ pc[t] = "clear"
  BY DEF CloseClear
<1>2. /\ pc' = [pc EXCEPT ![t] = pc'[t]] /\ pc \in [Callers -> Points]
      /\ pc'[t] \in {"open", "idle", "close_failed"}
      /\ pc'[t] = "open" => call[t] = 0 /\ held[t] = 0
      /\ pc'[t] = "idle" => call[t] # 0 /\ held[t] = 0
      /\ pc'[t] = "close_failed" => held[t] # 0
      /\ pc'[t] # "idle" => call' = call /\ held' = held
      /\ \A u \in Callers \ {t} : call'[u] = call[u] /\ held'[u] = held[u]
      /\ pc'[t] = "idle" => call'[t] = 0
  BY <1>0, CallersPlaced DEF CloseClear, Closed
<1>3. TypeOK'
  <2>1. pc' \in [Callers -> Points]
    BY <1>2 DEF Points
  <2>2. call' \in [Callers -> 0 .. made] /\ held' \in [Callers -> 0 .. started]
    BY <1>0 DEF TypeOK, CloseClear, Closed
  <2>3. 0 \in 0 .. started
    BY <1>0, ActorsDiffer DEF TypeOK
  <2> QED
    BY <1>0, <1>1, <2>1, <2>2, <2>3 DEF TypeOK, wire, book
<1>4. OneAtATime'
  BY <1>0, <1>1, <1>2, ActorsDiffer DEF OneAtATime
<1>5. CallsInHand'
  <2>1. \A u \in Callers : pc[u] = "register" => failure
    <3> SUFFICES ASSUME NEW u \in Callers, pc[u] = "register" PROVE failure
      OBVIOUS
    <3>1. call[t] # 0
      BY <1>0, <1>1, ActorsDiffer DEF CallsInHand, Closing, OneAtATime
    <3> QED
      BY <1>0, <1>1, <3>1 DEF CallsInHand, Closing
  <2> QED
    BY <1>0, <1>1, <1>2, <2>1 DEF CallsInHand, Closing, Cleared, book
<1>6. SessionsEnd'
  <2>1. \A u \in Callers \ {t} : pc'[u] = pc[u] /\ held'[u] = held[u]
    BY <1>2
  <2>2. ASSUME NEW s \in Sessions \ {process'}
        PROVE  \/ reader'[s] \in {"none", "done"}
               \/ \E u \in Callers : pc'[u] \in Cleared /\ held'[u] = s
    <3>1. CASE s # process
      BY <1>0, <1>1, <2>1, <2>2, <3>1 DEF SessionsEnd, Cleared
    <3>2. CASE s = process
      <4>1. held[t] = process /\ process # 0
        BY <1>0, <1>1, <2>2, <3>2 DEF SessionsEnd
      <4> QED
        BY <1>2, <3>2, <4>1 DEF Cleared
    <3> QED
      BY <3>1, <3>2
  <2>3. pending' # {} => ~failure' /\ (process' # 0 \/ pc'[Main] = "close_failed")
    <3> SUFFICES ASSUME pending # {} PROVE ~failure /\ pc'[Main] = "close_failed"
      BY <1>1
    <3>1. ~failure /\ t = Main
      BY <1>0, <1>1 DEF CallsInHand, Closing, SessionsEnd
    <3>2. process # 0
      BY <1>0, <1>1, <3>1 DEF SessionsEnd
    <3>3. held[t] = process
      BY <1>0, <1>1, <3>2 DEF SessionsEnd
    <3> QED
      BY <1>2, <3>1, <3>2, <3>3
  <2> QED
    BY <1>1, <2>2, <2>3 DEF SessionsEnd
<1>7. FuturesHeld' /\ ResolvedOnce'
  BY <1>0, <1>1, FuturesLeft
<1>8. OldSessionIsOver'
  BY <1>1 DEF OldSessionIsOver
<1> QED
  BY <1>3, <1>4, <1>5, <1>6, <1>7, <1>8 DEF SessionInv

\* The reader that was waited for is done.
LEMMA Joins ==
  ASSUME SessionInv, NEW t \in Callers, Join(t)
  PROVE  SessionInv'
<1> USE DEF Goto, Back
<1>0. TypeOK /\ OneAtATime /\ CallsInHand /\ SessionsEnd /\ FuturesHeld
      /\ ResolvedOnce /\ OldSessionIsOver
  BY DEF SessionInv
<1>1. UNCHANGED <<object, wire, book, future, failing, reader, popped>>
      /\ pc[t] = "join" /\ reader[held[t]] = "done"
  BY DEF Join, ReaderJoined
<1>2. /\ pc' = [pc EXCEPT ![t] = pc'[t]] /\ pc \in [Callers -> Points]
      /\ pc'[t] \in {"open", "idle"}
      /\ pc'[t] = "open" => call[t] = 0 /\ call' = call
      /\ \A u \in Callers \ {t} : call'[u] = call[u] /\ held'[u] = held[u]
      /\ pc'[t] = "idle" => call'[t] = 0
  BY <1>0, CallersPlaced DEF Join, Closed
<1>3. TypeOK'
  <2>1. pc' \in [Callers -> Points]
    BY <1>2 DEF Points
  <2>2. call' \in [Callers -> 0 .. made] /\ held' \in [Callers -> 0 .. started]
    BY <1>0, ActorsDiffer DEF TypeOK, Join, Closed
  <2> QED
    BY <1>0, <1>1, <2>1, <2>2 DEF TypeOK, object, wire, book
<1>4. OneAtATime'
  BY <1>0, <1>1, <1>2, ActorsDiffer DEF OneAtATime
<1>5. CallsInHand'
  BY <1>0, <1>1, <1>2 DEF CallsInHand, Closing, Cleared, object, book
<1>6. SessionsEnd'
  <2>1. \A u \in Callers \ {t} : pc'[u] = pc[u] /\ held'[u] = held[u]
    BY <1>2
  <2>2. ASSUME NEW s \in Sessions \ {process'}
        PROVE  \/ reader'[s] \in {"none", "done"}
               \/ \E u \in Callers : pc'[u] \in Cleared /\ held'[u] = s
    BY <1>0, <1>1, <2>1, <2>2 DEF SessionsEnd, object
  <2>3. process = 0
    BY <1>0, <1>1 DEF SessionsEnd, Cleared
  <2> QED
    BY <1>0, <1>1, <1>2, <2>2, <2>3, ActorsDiffer DEF SessionsEnd, object
<1>7. FuturesHeld' /\ ResolvedOnce'
  BY <1>0, <1>1, FuturesLeft DEF object
<1>8. OldSessionIsOver'
  BY <1>0, <1>1 DEF OldSessionIsOver, object, book
<1> QED
  BY <1>3, <1>4, <1>5, <1>6, <1>7, <1>8 DEF SessionInv

\* The main thread opens sessions while nobody calls.
LEMMA Starts ==
  ASSUME SessionInv, Start
  PROVE  SessionInv'
<1> USE DEF Goto
<1>0. TypeOK /\ OneAtATime /\ CallsInHand /\ SessionsEnd /\ FuturesHeld
      /\ ResolvedOnce /\ OldSessionIsOver
  BY DEF SessionInv
<1>1. UNCHANGED <<object, wire, book, future, failing, reader, popped, call, held>>
      /\ (\A u \in Callers : pc[u] = "idle") /\ started < MaxSessions
  BY DEF Start, Quiet
<1>2. pc' = [pc EXCEPT ![Main] = "close"] /\ pc \in [Callers -> Points]
  BY <1>0, CallersPlaced DEF Start
<1>3. TypeOK'
  <2>1. pc' \in [Callers -> Points]
    BY <1>2 DEF Points
  <2> QED
    BY <1>0, <1>1, <2>1 DEF TypeOK, object, wire, book
<1>4. OneAtATime'
  BY <1>0, <1>1, <1>2, ActorsDiffer DEF OneAtATime
<1>5. CallsInHand'
  BY <1>0, <1>1, <1>2 DEF CallsInHand, Closing, Cleared, object, book
<1>6. SessionsEnd'
  BY <1>0, <1>1, <1>2, ActorsDiffer DEF SessionsEnd, Cleared, object
<1>7. FuturesHeld' /\ ResolvedOnce'
  BY <1>0, <1>1, FuturesLeft DEF object
<1>8. OldSessionIsOver'
  BY <1>0, <1>1 DEF OldSessionIsOver, object, book
<1> QED
  BY <1>3, <1>4, <1>5, <1>6, <1>7, <1>8 DEF SessionInv

LEMMA Opens ==
  ASSUME SessionInv, Open
  PROVE  SessionInv'
<1> USE DEF Back
<1>0. TypeOK /\ OneAtATime /\ CallsInHand /\ SessionsEnd /\ FuturesHeld
      /\ ResolvedOnce /\ OldSessionIsOver
  BY DEF SessionInv
<1>1. UNCHANGED <<pending, lines, made, within, future, failing, popped>>
      /\ pc[Main] = "open" /\ started' = started + 1 /\ failure' = FALSE
  BY DEF Open
<1>2. /\ pc' = [pc EXCEPT ![Main] = "idle"] /\ pc \in [Callers -> Points]
      /\ call' = [call EXCEPT ![Main] = 0] /\ held' = [held EXCEPT ![Main] = 0]
  BY <1>0, CallersPlaced DEF Open
<1>3. Main \in Callers /\ \A u \in Callers \ {Main} : pc[u] = "idle" /\ pc'[u] = "idle"
  BY <1>0, <1>1, <1>2, ActorsDiffer DEF OneAtATime
<1>4. process = 0 /\ pending = {} /\ started < MaxSessions
  BY <1>0, <1>1, <1>3 DEF SessionsEnd, CallsInHand
<1>5. started \in Nat /\ started + 1 \in Sessions /\ started' \in 0 .. MaxSessions
      /\ 0 .. started \subseteq 0 .. started' /\ 1 .. started \subseteq 1 .. started'
      /\ started + 1 \in 1 .. started' /\ started + 1 # 0
      /\ started + 1 \in 0 .. started' /\ 0 \in 0 .. started'
  BY <1>0, <1>1, <1>4, ActorsDiffer DEF TypeOK, Sessions
<1>6. \A s \in Sessions : reader[s] \in {"none", "done"}
  <2>1. 0 \notin Sessions
    BY DEF Sessions
  <2> QED
    BY <1>0, <1>1, <1>3, <1>4, <2>1 DEF SessionsEnd, Cleared
<1>7. \/ UNCHANGED <<process, up, reader>>
      \/ /\ process' = started + 1 /\ up' = up \cup {started + 1}
         /\ reader' = [reader EXCEPT ![started + 1] = "reading"]
  BY DEF Open
<1>8. TypeOK'
  <2>1. pc' \in [Callers -> Points]
    BY <1>2 DEF Points
  <2>2. process' \in 0 .. started' /\ up' \subseteq 1 .. started'
    <3>1. process \in 0 .. started /\ up \subseteq 1 .. started
      BY <1>0 DEF TypeOK
    <3>2. CASE UNCHANGED <<process, up>>
      BY <1>5, <3>1, <3>2
    <3>3. CASE process' = started + 1 /\ up' = up \cup {started + 1}
      BY <1>5, <3>1, <3>3
    <3> QED
      BY <1>7, <3>2, <3>3
  <2>3. call' \in [Callers -> 0 .. made']
    <3>1. 0 \in 0 .. made
      BY <1>0, ActorsDiffer DEF TypeOK
    <3> QED
      BY <1>0, <1>1, <1>2, <3>1 DEF TypeOK
  <2>4. held' \in [Callers -> 0 .. started']
    <3>1. \A u \in Callers : held[u] \in 0 .. started'
      BY <1>0, <1>5 DEF TypeOK
    <3> QED
      BY <1>0, <1>2, <1>5, <3>1 DEF TypeOK
  <2>5. within' \in [Calls -> 0 .. started'] /\ \A c \in 1 .. made' : within'[c] # 0
    BY <1>0, <1>1, <1>5 DEF TypeOK
  <2>6. reader' \in [Sessions -> {"none", "reading", "resolve", "raised", "failed",
                               "failed_resolve", "done"}]
    BY <1>0, <1>7 DEF TypeOK
  <2> QED
    BY <1>0, <1>1, <1>5, <2>1, <2>2, <2>3, <2>4, <2>5, <2>6 DEF TypeOK
<1>9. OneAtATime'
  BY <1>2, <1>3 DEF OneAtATime
<1>10. CallsInHand'
  BY <1>0, <1>2, <1>3, CallersPlaced DEF CallsInHand, Closing, Cleared
<1>11. \A s \in Sessions \ {process'} : reader'[s] \in {"none", "done"}
  BY <1>0, <1>6, <1>7 DEF TypeOK
<1>12. SessionsEnd'
  BY <1>1, <1>2, <1>3, <1>4, <1>11 DEF SessionsEnd, Cleared
<1>13. \A s \in Sessions : (reader'[s] = "resolve" <=> reader[s] = "resolve")
                           /\ (reader[s] = "failed_resolve" => reader'[s] = "failed_resolve")
  BY <1>0, <1>6, <1>7 DEF TypeOK
<1>14. FuturesHeld' /\ ResolvedOnce'
  BY <1>0, <1>1, <1>13, FuturesLeft
<1>15. OldSessionIsOver'
  <2>1. \A s \in Sessions : s < process' => s # process'
    BY <1>5 DEF Sessions
  <2> QED
    BY <1>1, <1>4, <1>11, <2>1 DEF OldSessionIsOver
<1> QED
  BY <1>8, <1>9, <1>10, <1>12, <1>14, <1>15 DEF SessionInv

-----------------------------------------------------------------------------
(* The readers.                                                            *)

\* What a step of a reader that does not fail the session cannot disturb.
LEMMA ReaderMoves ==
  ASSUME SessionInv, NEW s \in Sessions,
         UNCHANGED <<process, failure, up, book, local>>,
         \A r \in Sessions \ {s} : reader'[r] = reader[r],
         reader[s] \notin {"none", "done"},
         pending' \subseteq pending
  PROVE  OneAtATime' /\ CallsInHand' /\ SessionsEnd' /\ OldSessionIsOver'
<1>0. OneAtATime /\ CallsInHand /\ SessionsEnd /\ OldSessionIsOver
  BY DEF SessionInv
<1>1. OneAtATime' /\ CallsInHand'
  BY <1>0 DEF OneAtATime, CallsInHand, local, book
<1>2. SessionsEnd'
  BY <1>0 DEF SessionsEnd, local
<1>3. OldSessionIsOver'
  BY <1>0 DEF OldSessionIsOver, book
<1> QED
  BY <1>1, <1>2, <1>3

LEMMA ReadsReply ==
  ASSUME SessionInv, NEW s \in Sessions, ReadReply(s)
  PROVE  SessionInv'
<1>0. TypeOK /\ FuturesHeld /\ ResolvedOnce
  BY DEF SessionInv
<1> PICK c \in lines[s] :
         /\ lines' = [lines EXCEPT ![s] = @ \ {c}]
         /\ pending' = pending \ {c}
         /\ IF c \in pending
            THEN /\ reader' = [reader EXCEPT ![s] = "resolve"]
                 /\ popped' = [popped EXCEPT ![s] = c]
            ELSE reader' = [reader EXCEPT ![s] = "raised"] /\ UNCHANGED popped
  BY DEF ReadReply
<1>1. UNCHANGED <<process, failure, up, book, local, future, failing>> /\ reader[s] = "reading"
  BY DEF ReadReply
<1>2. \A r \in Sessions \ {s} : reader'[r] = reader[r] /\ popped'[r] = popped[r]
  BY <1>0 DEF TypeOK
<1>3. OneAtATime' /\ CallsInHand' /\ SessionsEnd' /\ OldSessionIsOver'
  BY <1>1, <1>2, ReaderMoves
<1>4. popped[s] = 0 /\ failing[s] = {} /\ s \in Actors
  BY <1>0, <1>1 DEF FuturesHeld, Actors
<1>5. c \in 1 .. made /\ c # 0 /\ c \in 0 .. made
  BY <1>0, ActorsDiffer DEF TypeOK
<1>6. TypeOK'
  BY <1>0, <1>1, <1>5 DEF TypeOK, book, local
<1>7. CASE c \in pending
  <2>1. reader'[s] = "resolve" /\ popped'[s] = c
    BY <1>0, <1>7 DEF TypeOK
  <2>2. FuturesHeld'
    BY <1>0, <1>1, <1>2, <1>4, <1>5, <2>1 DEF FuturesHeld
  <2>3. Taken(s)' = {c}
    BY <1>1, <1>4, <1>5, <2>1 DEF Taken
  <2>4. \A a \in Actors \ {s} : Taken(a)' = Taken(a)
    BY <1>1, <1>2 DEF Taken
  <2>5. future[c] = "open" /\ \A a \in Actors : c \notin Taken(a)
    BY <1>0, <1>7 DEF FuturesHeld, ResolvedOnce
  <2>6. ResolvedOnce'
    <3>1. ASSUME NEW d \in Taken(s)'
          PROVE  /\ future'[d] = "open" /\ d \notin pending'
                 /\ \A other \in Actors \ {s} : d \notin Taken(other)'
      BY <1>1, <1>4, <2>3, <2>4, <2>5, <3>1
    <3>2. ASSUME NEW a \in Actors \ {s}, NEW d \in Taken(a)'
          PROVE  /\ future'[d] = "open" /\ d \notin pending'
                 /\ \A other \in Actors \ {a} : d \notin Taken(other)'
      <4>1. d \in Taken(a) /\ d # c
        BY <2>4, <2>5, <3>2
      <4>2. /\ future[d] = "open" /\ d \notin pending
            /\ \A other \in Actors \ {a} : d \notin Taken(other)
        BY <1>0, <4>1 DEF ResolvedOnce
      <4> QED
        BY <1>1, <2>3, <2>4, <4>1, <4>2
    <3> QED
      BY <3>1, <3>2 DEF ResolvedOnce
  <2> QED
    BY <1>3, <1>6, <2>2, <2>6 DEF SessionInv
<1>8. CASE c \notin pending
  <2>1. UNCHANGED <<pending, popped>> /\ reader'[s] = "raised"
    BY <1>0, <1>8 DEF TypeOK
  <2>2. \A r \in Sessions : (reader'[r] = "resolve" <=> reader[r] = "resolve")
           /\ (reader[r] = "failed_resolve" => reader'[r] = "failed_resolve")
    BY <1>1, <1>2, <2>1
  <2>3. FuturesHeld' /\ ResolvedOnce'
    BY <1>0, <1>1, <2>1, <2>2, FuturesLeft
  <2> QED
    BY <1>3, <1>6, <2>3 DEF SessionInv
<1> QED
  BY <1>7, <1>8

\* The reader resolves the future it took, which is still open.
LEMMA ResolvesReply ==
  ASSUME SessionInv, NEW s \in Sessions, ResolveReply(s)
  PROVE  SessionInv'
<1>0. TypeOK /\ FuturesHeld /\ ResolvedOnce
  BY DEF SessionInv
<1>1. UNCHANGED <<object, wire, book, local, failing>> /\ reader[s] = "resolve"
      /\ popped' = [popped EXCEPT ![s] = 0]
  BY DEF ResolveReply
<1>2. PICK c : c = popped[s]
  OBVIOUS
<1>3. c \in Taken(s) /\ s \in Actors /\ c # 0
  BY <1>0, <1>1, <1>2 DEF FuturesHeld, Taken, Actors
<1>4. future[c] = "open" /\ c \notin pending /\ \A a \in Actors \ {s} : c \notin Taken(a)
  BY <1>0, <1>3 DEF ResolvedOnce
<1>5. PICK result \in {"ok", "error"} : future' = [future EXCEPT ![c] = result]
  BY <1>2, <1>4 DEF ResolveReply
<1>6. reader' = [reader EXCEPT ![s] = "reading"]
  BY <1>2, <1>4 DEF ResolveReply
<1>7. \A r \in Sessions \ {s} : reader'[r] = reader[r] /\ popped'[r] = popped[r]
  BY <1>1, <1>6
<1>8. OneAtATime' /\ CallsInHand' /\ SessionsEnd' /\ OldSessionIsOver'
  BY <1>1, <1>7, ReaderMoves DEF object, wire
<1>9. reader'[s] = "reading" /\ popped'[s] = 0 /\ failing[s] = {}
  BY <1>0, <1>1, <1>6 DEF TypeOK, FuturesHeld
<1>10. TypeOK'
  <2>1. future' \in [Calls -> {"none", "open", "ok", "error"}]
    BY <1>0, <1>5 DEF TypeOK
  <2>2. popped' \in [Sessions -> 0 .. made]
    <3>1. 0 \in 0 .. made
      BY <1>0, ActorsDiffer DEF TypeOK
    <3> QED
      BY <1>0, <1>1, <3>1 DEF TypeOK
  <2>3. reader' \in [Sessions -> {"none", "reading", "resolve", "raised", "failed",
                               "failed_resolve", "done"}]
    BY <1>0, <1>6 DEF TypeOK
  <2> QED
    BY <1>0, <1>1, <2>1, <2>2, <2>3 DEF TypeOK, object, wire, book, local
<1>11. \A d : d # c => future'[d] = future[d]
  BY <1>5
<1>12. FuturesHeld'
  BY <1>0, <1>1, <1>4, <1>7, <1>9, <1>11 DEF FuturesHeld, object
<1>13. Taken(s)' = {} /\ \A a \in Actors \ {s} : Taken(a)' = Taken(a)
  BY <1>1, <1>7, <1>9 DEF Taken
<1>14. ResolvedOnce'
  <2> SUFFICES ASSUME NEW a \in Actors, NEW d \in Taken(a)'
               PROVE  /\ future'[d] = "open" /\ d \notin pending'
                      /\ \A other \in Actors \ {a} : d \notin Taken(other)'
    BY DEF ResolvedOnce
  <2>1. a # s /\ d \in Taken(a) /\ d # c
    BY <1>4, <1>13
  <2>2. /\ future[d] = "open" /\ d \notin pending
        /\ \A other \in Actors \ {a} : d \notin Taken(other)
    BY <1>0, <2>1 DEF ResolvedOnce
  <2>3. pending' = pending
    BY <1>1 DEF object
  <2> QED
    BY <1>11, <1>13, <2>1, <2>2, <2>3
<1> QED
  BY <1>8, <1>10, <1>12, <1>14 DEF SessionInv

\* The reader leaves its loop, and asks whether the session is still its own.
LEMMA LeavesLoop ==
  ASSUME SessionInv, NEW s \in Sessions, ReadRaises(s) \/ StillOurs(s)
  PROVE  SessionInv'
<1>0. TypeOK /\ FuturesHeld /\ ResolvedOnce /\ SessionsEnd /\ OldSessionIsOver
      /\ OneAtATime /\ CallsInHand
  BY DEF SessionInv
<1>1. UNCHANGED <<object, wire, book, local, future, failing, popped>>
      /\ reader[s] \in {"reading", "raised"}
      /\ reader' = [reader EXCEPT ![s] = reader'[s]]
      /\ reader'[s] \in {"raised", "failed", "done"}
  BY <1>0 DEF ReadRaises, StillOurs, TypeOK
<1>2. \A r \in Sessions \ {s} : reader'[r] = reader[r]
  BY <1>0, <1>1 DEF TypeOK
<1>3. OneAtATime' /\ CallsInHand' /\ SessionsEnd' /\ OldSessionIsOver'
  BY <1>1, <1>2, ReaderMoves DEF object, wire
<1>4. TypeOK'
  BY <1>0, <1>1 DEF TypeOK, object, wire, book, local
<1>5. \A r \in Sessions : (reader'[r] = "resolve" <=> reader[r] = "resolve")
           /\ (reader[r] = "failed_resolve" => reader'[r] = "failed_resolve")
  BY <1>1, <1>2
<1>6. FuturesHeld' /\ ResolvedOnce'
  BY <1>0, <1>1, <1>5, FuturesLeft DEF object
<1> QED
  BY <1>3, <1>4, <1>6 DEF SessionInv

\* The reader fails the session it found to be its own.
LEMMA FailsSession ==
  ASSUME SessionInv, NEW s \in Sessions, ReaderFails(s)
  PROVE  SessionInv'
<1>0. TypeOK /\ FuturesHeld /\ ResolvedOnce /\ SessionsEnd /\ OldSessionIsOver
      /\ OneAtATime /\ CallsInHand
  BY DEF SessionInv
<1>1. UNCHANGED <<process, wire, book, local, future, popped>> /\ reader[s] = "failed"
      /\ TakePending(s) /\ reader' = [reader EXCEPT ![s] = "failed_resolve"]
  BY DEF ReaderFails
<1>2. popped[s] = 0 /\ s \in Actors
  BY <1>0, <1>1 DEF FuturesHeld, Actors
<1>3. /\ ResolvedOnce' /\ pending' = {} /\ failure' = TRUE
      /\ \A b \in Actors \ {s} : failing'[b] = failing[b]
  BY <1>0, <1>1, <1>2, PendingTaken DEF TypeOK
<1>4. \A r \in Sessions \ {s} : reader'[r] = reader[r] /\ failing'[r] = failing[r]
  BY <1>1, <1>3 DEF Actors
<1>5. reader'[s] = "failed_resolve"
  BY <1>0, <1>1 DEF TypeOK
<1>6. TypeOK'
  <2>1. failing' \in [Actors -> SUBSET (1 .. made)]
    BY <1>0, <1>1 DEF TypeOK, TakePending
  <2>2. reader' \in [Sessions -> {"none", "reading", "resolve", "raised", "failed",
                               "failed_resolve", "done"}]
    BY <1>0, <1>1 DEF TypeOK
  <2> QED
    BY <1>0, <1>1, <1>3, <2>1, <2>2 DEF TypeOK, wire, book, local
<1>7. FuturesHeld'
  BY <1>0, <1>1, <1>2, <1>3, <1>4, <1>5 DEF FuturesHeld
<1>8. OneAtATime' /\ CallsInHand'
  BY <1>0, <1>1, <1>3 DEF OneAtATime, CallsInHand, local, book
<1>9. SessionsEnd'
  BY <1>0, <1>1, <1>3, <1>4 DEF SessionsEnd, local
<1>10. OldSessionIsOver'
  BY <1>0, <1>1, <1>3, <1>4 DEF OldSessionIsOver, book
<1> QED
  BY <1>3, <1>6, <1>7, <1>8, <1>9, <1>10 DEF SessionInv

LEMMA ResolvesFailed ==
  ASSUME SessionInv, NEW s \in Sessions, ReaderResolves(s)
  PROVE  SessionInv'
<1>0. TypeOK /\ FuturesHeld /\ ResolvedOnce
  BY DEF SessionInv
<1>1. UNCHANGED <<object, wire, book, local, popped>> /\ reader[s] = "failed_resolve"
  BY DEF ReaderResolves
<1>2. popped[s] = 0 /\ s \in Actors
  BY <1>0, <1>1 DEF FuturesHeld, Actors
<1>3. CASE ResolveOne(s) /\ UNCHANGED reader
  <2>1. /\ ResolvedOnce'
        /\ future' \in [Calls -> {"none", "open", "ok", "error"}]
        /\ failing' \in [Actors -> SUBSET (1 .. made)]
        /\ \A c \in pending : future'[c] = future[c]
        /\ \A b \in Actors \ {s} : failing'[b] = failing[b]
    BY <1>0, <1>1, <1>2, <1>3, OneResolved DEF TypeOK, object
  <2>2. TypeOK'
    BY <1>0, <1>1, <1>3, <2>1 DEF TypeOK, object, wire, book, local
  <2>3. \A r \in Sessions \ {s} : failing'[r] = failing[r]
    BY <2>1 DEF Actors
  <2>4. FuturesHeld'
    BY <1>0, <1>1, <1>3, <2>1, <2>3 DEF FuturesHeld, object
  <2>5. OneAtATime' /\ CallsInHand' /\ SessionsEnd' /\ OldSessionIsOver'
    BY <1>1, <1>3, ReaderMoves DEF object, wire
  <2> QED
    BY <2>1, <2>2, <2>4, <2>5 DEF SessionInv
<1>4. CASE /\ failing[s] = {} /\ reader' = [reader EXCEPT ![s] = "done"]
           /\ UNCHANGED <<failing, future>>
  <2>1. \A r \in Sessions \ {s} : reader'[r] = reader[r]
    BY <1>4
  <2>2. reader'[s] = "done"
    BY <1>0, <1>4 DEF TypeOK
  <2>3. FuturesHeld'
    BY <1>0, <1>1, <1>2, <1>4, <2>1, <2>2 DEF FuturesHeld, object
  <2>4. ResolvedOnce'
    BY <1>0, <1>1, <1>4, FuturesLeft DEF object
  <2>5. TypeOK'
    BY <1>0, <1>1, <1>4 DEF TypeOK, object, wire, book, local
  <2>6. OneAtATime' /\ CallsInHand' /\ SessionsEnd' /\ OldSessionIsOver'
    BY <1>1, <2>1, ReaderMoves DEF object, wire
  <2> QED
    BY <2>3, <2>4, <2>5, <2>6 DEF SessionInv
<1> QED
  BY <1>3, <1>4 DEF ReaderResolves

LEMMA SessionBreaks ==
  ASSUME SessionInv, NEW s \in Sessions, Ends(s)
  PROVE  SessionInv'
<1>0. TypeOK /\ OneAtATime /\ CallsInHand /\ SessionsEnd /\ FuturesHeld
      /\ ResolvedOnce /\ OldSessionIsOver
  BY DEF SessionInv
<1>1. UNCHANGED <<object, lines, book, local, future, failing, reader, popped>> /\ up' \subseteq up
  BY DEF Ends
<1>2. TypeOK'
  BY <1>0, <1>1 DEF TypeOK, object, book, local
<1>3. OneAtATime' /\ CallsInHand' /\ SessionsEnd' /\ OldSessionIsOver'
  BY <1>0, <1>1 DEF OneAtATime, CallsInHand, SessionsEnd, OldSessionIsOver, object, book, local
<1>4. FuturesHeld' /\ ResolvedOnce'
  BY <1>0, <1>1, FuturesLeft DEF object
<1> QED
  BY <1>2, <1>3, <1>4 DEF SessionInv

-----------------------------------------------------------------------------
LEMMA SessionInvNext == SessionInv /\ [Next]_vars => SessionInv'
<1> SUFFICES ASSUME SessionInv, [Next]_vars PROVE SessionInv'
  OBVIOUS
<1>1. ASSUME NEW t \in Callers, EnterCall(t) PROVE SessionInv'
  BY <1>1, EnterAndReturn
<1>2. ASSUME NEW t \in Callers, CallerStep(t) PROVE SessionInv'
  BY <1>2, EnterAndReturn, Registers, WritesAndTimesOut, Resolves, ReadsAndStops, Clears,
     Joins, Opens DEF CallerStep
<1>3. ASSUME NEW t \in Callers, TimeOut(t) PROVE SessionInv'
  BY <1>3, WritesAndTimesOut
<1>4. CASE Start
  BY <1>4, Starts
<1>5. CASE UNCHANGED vars
  BY <1>5 DEF vars, object, wire, book, local, SessionInv, TypeOK, OneAtATime, CallsInHand,
     SessionsEnd, FuturesHeld, ResolvedOnce, OldSessionIsOver, Taken
<1>6. ASSUME NEW s \in Sessions, ReaderStep(s) \/ ReadRaises(s) PROVE SessionInv'
  BY <1>6, ReadsReply, ResolvesReply, LeavesLoop, FailsSession, ResolvesFailed DEF ReaderStep
<1>7. ASSUME NEW s \in Sessions, Ends(s) PROVE SessionInv'
  BY <1>7, SessionBreaks
<1> QED
  BY <1>1, <1>2, <1>3, <1>4, <1>5, <1>6, <1>7 DEF Next, Rest

\* The invariant of the sessions: who closes, where the readers of earlier
\* sessions are, and who holds which future, whatever threads, answers, timeouts
\* and failures cross (ssh_transport.py:63-170).
THEOREM SessionAlways == Spec => []SessionInv
BY SessionInvInit, SessionInvNext, PTL DEF Spec

\* No future is resolved twice: no thread meets InvalidStateError
\* (ssh_transport.py:93-102, 112-118).
THEOREM FuturesResolvedOnce == Spec => []ResolvedOnce
<1>1. SessionInv => ResolvedOnce
  BY DEF SessionInv
<1> QED
  BY <1>1, SessionAlways, PTL

\* When a session is open the readers of earlier ones are done, and every pending
\* call is its own (ssh_transport.py:65-68, 104-105, 164-167).
THEOREM SessionsDoNotMix == Spec => []OldSessionIsOver
<1>1. SessionInv => OldSessionIsOver
  BY DEF SessionInv
<1> QED
  BY <1>1, SessionAlways, PTL

-----------------------------------------------------------------------------
(* The account of the calls.                                               *)

\* close() and start() of the main thread meet no pending call.
LEMMA NothingPending ==
  ASSUME SessionInv, PendingWaited
  PROVE  /\ process = 0 => pending = {}
         /\ pc[Main] \notin {"write", "wait", "idle"} => pending = {}
<1>0. OneAtATime /\ SessionsEnd
  BY DEF SessionInv
<1>1. ASSUME pc[Main] \notin {"write", "wait", "idle"} PROVE pending = {}
  BY <1>0, <1>1, ActorsDiffer DEF OneAtATime, PendingWaited
<1> QED
  BY <1>0, <1>1 DEF SessionsEnd

LEMMA AccountInit == Init => AccountInv
<1> SUFFICES ASSUME Init PROVE AccountInv
  OBVIOUS
<1>1. PendingWaited /\ FailingInHand /\ ReaderWatches
  BY ActorsDiffer DEF Init, PendingWaited, FailingInHand, ReaderWatches
<1>2. NoneLost
  BY ActorsDiffer DEF Init, NoneLost, Calls
<1> QED
  BY <1>1, <1>2 DEF AccountInv

\* A thread that is at no call moves, and no call becomes pending.
LEMMA StillWaited ==
  ASSUME PendingWaited, NEW t \in Callers, pending' \subseteq pending,
         \A u \in Callers \ {t} : pc'[u] = pc[u] /\ call'[u] = call[u],
         \/ pc[t] \notin {"write", "wait"}
         \/ pending' = {} \/ call[t] \notin pending
         \/ call'[t] = call[t] /\ pc'[t] \in {"write", "wait"}
  PROVE  PendingWaited'
BY DEF PendingWaited

LEMMA PendingWaitedNext == SessionInv /\ PendingWaited /\ Next => PendingWaited'
<1> SUFFICES ASSUME SessionInv, PendingWaited, Next PROVE PendingWaited'
  OBVIOUS
<1>0. TypeOK /\ FuturesHeld /\ pc \in [Callers -> Points] /\ call \in [Callers -> Nat]
  BY CallersPlaced DEF SessionInv
<1> USE DEF Goto, Back
<1>1. ASSUME NEW t \in Callers, EnterCall(t) \/ Resolve(t) \/ CloseRead(t) \/ CloseClear(t)
                                \/ Stop(t) \/ Join(t) \/ CloseFails(t)
      PROVE  PendingWaited'
  <2>1. pending' \subseteq pending /\ pc[t] \notin {"write", "wait"}
    BY <1>1 DEF EnterCall, MayCall, Resolve, CloseRead, CloseClear, Stop, Join, CloseFails, TakePending,
       object
  <2>2. \A u \in Callers \ {t} : pc'[u] = pc[u] /\ call'[u] = call[u]
    BY <1>0, <1>1 DEF EnterCall, Resolve, CloseRead, CloseClear, Stop, Join, CloseFails, Closed, local
  <2> QED
    BY <2>1, <2>2, StillWaited
<1>2. ASSUME NEW t \in Callers, Write(t) \/ TimeOut(t) PROVE PendingWaited'
  <2>1. /\ \A u \in Callers \ {t} : pc'[u] = pc[u] /\ call'[u] = call[u]
        /\ pending' = {} \/ (pending' = pending /\ call'[t] = call[t] /\ pc'[t] = "wait")
    BY <1>0, <1>2, NothingPending DEF Write, TimeOut, TakePending
  <2> QED
    BY <2>1, StillWaited
<1>3. ASSUME NEW t \in Callers, Returned(t) PROVE PendingWaited'
  <2>1. call[t] \notin pending
    BY <1>0, <1>3 DEF Returned, FuturesHeld
  <2>2. pending' = pending /\ \A u \in Callers \ {t} : pc'[u] = pc[u] /\ call'[u] = call[u]
    BY <1>0, <1>3 DEF Returned, object
  <2> QED
    BY <2>1, <2>2, StillWaited
<1>4. ASSUME NEW t \in Callers, Register(t) PROVE PendingWaited'
  <2>1. pc[t] = "register" /\ \A u \in Callers \ {t} : pc'[u] = pc[u] /\ call'[u] = call[u]
    BY <1>0, <1>4 DEF Register
  <2>2. CASE pending' = pending
    BY <2>1, <2>2, StillWaited
  <2>3. CASE /\ pending' = pending \cup {made + 1}
             /\ call' = [call EXCEPT ![t] = made + 1] /\ pc' = [pc EXCEPT ![t] = "write"]
    BY <1>0, <2>1, <2>3 DEF PendingWaited
  <2> QED
    BY <1>4, <2>2, <2>3 DEF Register
<1>5. ASSUME Start \/ Open PROVE PendingWaited'
  <2>1. /\ Main \in Callers /\ pending' = pending /\ pc[Main] \notin {"write", "wait"}
        /\ \A u \in Callers \ {Main} : pc'[u] = pc[u] /\ call'[u] = call[u]
    BY <1>0, <1>5, ActorsDiffer DEF Start, Quiet, Open, object
  <2> QED
    BY <2>1, StillWaited
<1>6. ASSUME NEW s \in Sessions, ReaderStep(s) \/ ReadRaises(s) \/ Ends(s) PROVE PendingWaited'
  <2>1. pending' \subseteq pending /\ UNCHANGED local
    BY <1>6 DEF ReaderStep, ReadReply, ResolveReply, StillOurs, ReaderFails, ReaderResolves, ReadRaises,
       Ends, TakePending, object
  <2> QED
    BY <2>1 DEF PendingWaited, local
<1>7. ASSUME UNCHANGED vars PROVE PendingWaited'
  BY <1>7 DEF vars, object, local, PendingWaited
<1> QED
  BY <1>1, <1>2, <1>3, <1>4, <1>5, <1>6, <1>7 DEF Next, CallerStep, Rest

LEMMA FailingInHandNext == SessionInv /\ FailingInHand /\ Next => FailingInHand'
<1> SUFFICES ASSUME SessionInv, FailingInHand, Next PROVE FailingInHand'
  OBVIOUS
<1>0. /\ TypeOK /\ pc \in [Callers -> Points]
      /\ failing \in [Actors -> SUBSET (1 .. made)] /\ Callers \cap Sessions = {} /\ Main \in Callers
      /\ Callers \subseteq Actors /\ Sessions \subseteq Actors
  BY CallersPlaced, ActorsDiffer DEF SessionInv, TypeOK
<1> USE DEF Goto, Back
<1>1. ASSUME NEW t \in Callers, EnterCall(t) \/ Register(t) \/ Returned(t) \/ CloseRead(t) \/ CloseClear(t)
                                \/ Stop(t) \/ Join(t) \/ (t = Main /\ (Start \/ Open))
      PROVE  FailingInHand'
  <2>1. failing' = failing /\ pc[t] \notin {"send_resolve", "late_resolve", "close_resolve"}
        /\ \A u \in Callers \ {t} : pc'[u] = pc[u]
    BY <1>0, <1>1 DEF EnterCall, MayCall, Register, Returned, CloseRead, CloseClear, Stop, Join, Closed,
       Start, Quiet, Open
  <2> QED
    BY <2>1 DEF FailingInHand
<1>2. ASSUME NEW t \in Callers, Write(t) \/ TimeOut(t) \/ CloseFails(t) PROVE FailingInHand'
  <2>1. \A u \in Callers \ {t} : pc'[u] = pc[u] /\ failing'[u] = failing[u]
    BY <1>0, <1>2 DEF Write, TimeOut, CloseFails, TakePending
  <2>2. \/ pc'[t] \in {"send_resolve", "late_resolve", "close_resolve"}
        \/ failing'[t] = failing[t] /\ failing[t] = {}
    BY <1>0, <1>2 DEF Write, TimeOut, CloseFails, FailingInHand
  <2> QED
    BY <2>1, <2>2 DEF FailingInHand
<1>3. ASSUME NEW t \in Callers, Resolve(t) PROVE FailingInHand'
  <2>1. \A u \in Callers \ {t} : pc'[u] = pc[u] /\ failing'[u] = failing[u]
    BY <1>0, <1>3 DEF Resolve, ResolveOne, local
  <2>2. pc'[t] = pc[t] \/ failing'[t] = {}
    BY <1>0, <1>3 DEF Resolve, ResolveOne, local
  <2> QED
    BY <1>3, <2>1, <2>2 DEF FailingInHand, Resolve
<1>4. ASSUME NEW s \in Sessions, ReaderStep(s) \/ ReadRaises(s) \/ Ends(s) PROVE FailingInHand'
  <2>1. UNCHANGED pc /\ \A u \in Callers : failing'[u] = failing[u]
    BY <1>0, <1>4 DEF ReaderStep, ReadReply, ResolveReply, StillOurs, ReaderFails, ReaderResolves, ReadRaises,
       Ends, TakePending, ResolveOne, local
  <2> QED
    BY <2>1 DEF FailingInHand
<1>5. ASSUME UNCHANGED vars PROVE FailingInHand'
  BY <1>5 DEF vars, local, FailingInHand
<1> QED
  BY <1>0, <1>1, <1>2, <1>3, <1>4, <1>5 DEF Next, CallerStep, Rest

LEMMA ReaderWatchesNext == SessionInv /\ ReaderWatches /\ Next => ReaderWatches'
<1> SUFFICES ASSUME SessionInv, ReaderWatches, Next PROVE ReaderWatches'
  OBVIOUS
<1>0. /\ TypeOK /\ SessionsEnd /\ MaxSessions \in Nat
      /\ reader \in [Sessions -> {"none", "reading", "resolve", "raised", "failed",
                               "failed_resolve", "done"}]
      /\ started \in 0 .. MaxSessions
  BY ActorsDiffer DEF SessionInv, TypeOK
<1>1. ASSUME NEW t \in Callers, EnterCall(t) \/ Register(t) \/ Write(t) \/ Returned(t) \/ TimeOut(t)
                                \/ Resolve(t) \/ CloseRead(t) \/ CloseClear(t) \/ CloseFails(t)
                                \/ Stop(t) \/ Join(t) \/ (t = Main /\ Start)
      PROVE  ReaderWatches'
  <2>1. reader' = reader /\ process' \in {process, 0} /\ (failure => failure')
    BY <1>1 DEF EnterCall, Register, Write, Returned, TimeOut, Resolve, CloseRead, CloseClear, CloseFails,
       Stop, Join, Start, TakePending, object
  <2> QED
    BY <2>1 DEF ReaderWatches
<1>2. ASSUME Open PROVE ReaderWatches'
  <2>1. process = 0
    BY <1>0, <1>2, ActorsDiffer DEF Open, SessionsEnd
  <2>2. CASE process' = process
    BY <2>1, <2>2 DEF ReaderWatches
  <2>3. CASE process' = started + 1 /\ reader' = [reader EXCEPT ![started + 1] = "reading"]
    <3>1. started + 1 \in Sessions
      BY <1>0, <1>2, ActorsDiffer DEF SessionInv, CallsInHand, Open, Sessions
    <3> QED
      BY <1>0, <2>3, <3>1 DEF ReaderWatches, Watching
  <2> QED
    BY <1>2, <2>2, <2>3 DEF Open
<1>3. ASSUME NEW s \in Sessions, ReaderStep(s) \/ ReadRaises(s) \/ Ends(s) PROVE ReaderWatches'
  <2>1. process' = process /\ (failure => failure') /\ \A r \in Sessions \ {s} : reader'[r] = reader[r]
    BY <1>0, <1>3 DEF ReaderStep, ReadReply, ResolveReply, StillOurs, ReaderFails, ReaderResolves, ReadRaises,
       Ends, TakePending, object
  <2>2. reader'[s] \in Watching \/ reader'[s] = reader[s] \/ process # s \/ failure'
        \/ reader[s] = "failed_resolve"
    BY <1>0, <1>3 DEF ReaderStep, ReadReply, ResolveReply, StillOurs, ReaderFails, ReaderResolves, ReadRaises,
       Ends, TakePending, Watching
  <2> QED
    BY <1>0, <2>1, <2>2 DEF ReaderWatches, Watching, TypeOK, Sessions
<1>4. ASSUME UNCHANGED vars PROVE ReaderWatches'
  BY <1>4 DEF vars, object, ReaderWatches
<1> QED
  BY <1>1, <1>2, <1>3, <1>4, ActorsDiffer DEF Next, CallerStep, Rest

\* Who takes all pending futures holds none before.
LEMMA AllTaken ==
  ASSUME NoneLost, NEW a \in Actors, TakePending(a), failing[a] = {},
         failing \in [Actors -> SUBSET (1 .. made)], UNCHANGED <<future, popped, made>>
  PROVE  NoneLost'
<1>1. Taken(a)' = pending \cup Taken(a)
  BY DEF TakePending, Taken
<1>2. \A b \in Actors \ {a} : Taken(b)' = Taken(b)
  BY DEF TakePending, Taken
<1>3. ASSUME NEW c \in Calls, future[c] = "open" PROVE \E b \in Actors : c \in Taken(b)'
  <2>1. CASE c \in pending \cup Taken(a)
    BY <1>1, <2>1
  <2>2. CASE c \notin pending \cup Taken(a)
    BY <1>2, <1>3, <2>2 DEF NoneLost
  <2> QED
    BY <2>1, <2>2
<1> QED
  BY <1>3 DEF NoneLost

\* A future is resolved by the thread that took it.
LEMMA OneLess ==
  ASSUME NoneLost, NEW a \in Actors, ResolveOne(a), UNCHANGED <<pending, popped, made>>,
         TypeOK
  PROVE  NoneLost'
<1>1. PICK c \in failing[a] :
        /\ failing' = [failing EXCEPT ![a] = @ \ {c}]
        /\ future' = IF future[c] = "open" THEN [future EXCEPT ![c] = "error"] ELSE future
  BY DEF ResolveOne
<1>2. failing \in [Actors -> SUBSET (1 .. made)] /\ c \in 1 .. made /\ c \in Calls
  BY <1>1, ActorsDiffer DEF TypeOK, Calls
<1>3. future'[c] \notin {"none", "open"} /\ future[c] # "none"
  BY <1>1, <1>2 DEF NoneLost, TypeOK
<1>4. \A d \in Calls \ {c} : future'[d] = future[d]
  BY <1>1
<1>5. ASSUME NEW d \in Calls \ {c}, NEW b \in Actors, d \in Taken(b) PROVE d \in Taken(b)'
  BY <1>1, <1>2, <1>5 DEF Taken
<1>6. ASSUME NEW d \in Calls PROVE /\ future'[d] = "none" <=> d > made
                                   /\ future'[d] = "open" => d \in pending \/ \E b \in Actors : d \in Taken(b)'
  <2>1. CASE d = c
    BY <1>2, <1>3, <2>1 DEF NoneLost
  <2>2. CASE d # c
    BY <1>4, <1>5, <2>2 DEF NoneLost
  <2> QED
    BY <2>1, <2>2
<1> QED
  BY <1>6 DEF NoneLost

\* Futures and those who hold them are left alone.
LEMMA NoneMoved ==
  ASSUME NoneLost, UNCHANGED <<pending, future, failing, popped, made>>
  PROVE  NoneLost'
BY DEF NoneLost, Taken

LEMMA NoneLostNext == SessionInv /\ AccountInv /\ Next => NoneLost'
<1> SUFFICES ASSUME SessionInv, AccountInv, Next PROVE NoneLost'
  OBVIOUS
<1>0. /\ TypeOK /\ FuturesHeld /\ ResolvedOnce /\ FailingInHand /\ NoneLost
      /\ failing \in [Actors -> SUBSET (1 .. made)]
      /\ Callers \cap Sessions = {} /\ Actors = Callers \cup Sessions
  BY ActorsDiffer DEF SessionInv, TypeOK, AccountInv
<1>1. ASSUME NEW t \in Callers, EnterCall(t) \/ Returned(t) \/ CloseRead(t) \/ CloseClear(t)
                                \/ Stop(t) \/ Join(t) \/ Start \/ Open
      PROVE  NoneLost'
  <2>1. UNCHANGED <<pending, future, failing, popped, made>>
    BY <1>1 DEF EnterCall, Returned, CloseRead, CloseClear, Stop, Join, Start, Open, object, book
  <2> QED
    BY <1>0, <2>1, NoneMoved
<1>2. ASSUME NEW t \in Callers, Register(t) PROVE NoneLost'
  <2>1. CASE UNCHANGED <<made, future, within, pending>>
    BY <1>0, <1>2, <2>1, NoneMoved DEF Register
  <2>2. CASE /\ made' = made + 1 /\ made < MaxCalls
             /\ future' = [future EXCEPT ![made + 1] = "open"]
             /\ pending' = pending \cup {made + 1}
    <3>1. /\ made \in Nat /\ future' [made + 1] = "open"
          /\ \A c \in Calls \ {made + 1} : future'[c] = future[c] /\ c \in Nat
      BY <1>0, <2>2, ActorsDiffer DEF TypeOK, Calls
    <3>2. \A a \in Actors : Taken(a)' = Taken(a)
      BY <1>2 DEF Register, Taken
    <3>3. ASSUME NEW c \in Calls \ {made + 1}
          PROVE  /\ future'[c] = "none" <=> c > made'
                 /\ future'[c] = "open" => c \in pending' \/ \E a \in Actors : c \in Taken(a)'
      BY <1>0, <2>2, <3>1, <3>2 DEF NoneLost
    <3> QED
      BY <2>2, <3>1, <3>3 DEF NoneLost
  <2> QED
    BY <1>2, <2>1, <2>2 DEF Register
<1>3. ASSUME NEW t \in Callers, Write(t) \/ TimeOut(t) \/ CloseFails(t) PROVE NoneLost'
  <2>1. failing[t] = {} /\ t \in Actors
    BY <1>0, <1>3 DEF Write, TimeOut, CloseFails, FailingInHand
  <2>2. UNCHANGED <<future, popped, made>>
        /\ (TakePending(t) \/ UNCHANGED <<pending, failing>>)
    BY <1>3 DEF Write, TimeOut, CloseFails, book
  <2> QED
    BY <1>0, <2>1, <2>2, AllTaken, NoneMoved
<1>4. ASSUME NEW t \in Callers, Resolve(t) PROVE NoneLost'
  <2>1. UNCHANGED <<pending, popped, made>> /\ (ResolveOne(t) \/ UNCHANGED <<failing, future>>)
    BY <1>4 DEF Resolve, object, book
  <2> QED
    BY <1>0, <2>1, OneLess, NoneMoved
<1>5. ASSUME NEW s \in Sessions, ReadReply(s) PROVE NoneLost'
  <2>1. popped[s] = 0
    BY <1>0, <1>5 DEF ReadReply, FuturesHeld
  <2>2. PICK c \in lines[s] :
         /\ pending' = pending \ {c}
         /\ IF c \in pending
            THEN popped' = [popped EXCEPT ![s] = c]
            ELSE UNCHANGED popped
    BY <1>5 DEF ReadReply
  <2>3. UNCHANGED <<future, failing, made>>
    BY <1>5 DEF ReadReply, book
  <2>4. CASE c \notin pending
    BY <1>0, <2>2, <2>3, <2>4, NoneMoved
  <2>5. CASE c \in pending
    <3>1. c # 0 /\ popped'[s] = c /\ \A r \in Sessions \ {s} : popped'[r] = popped[r]
      BY <1>0, <2>2, <2>5 DEF TypeOK
    <3>2. c \in Taken(s)' /\ \A a \in Actors : Taken(a) \subseteq Taken(a)'
      BY <2>1, <2>3, <3>1 DEF Taken
    <3> QED
      BY <1>0, <2>2, <2>3, <3>2 DEF NoneLost
  <2> QED
    BY <2>4, <2>5
<1>6. ASSUME NEW s \in Sessions, ResolveReply(s) PROVE NoneLost'
  <2>1. PICK c : c = popped[s]
    OBVIOUS
  <2>2. c \in Taken(s) /\ future[c] = "open"
    BY <1>0, <1>6, <2>1 DEF ResolveReply, FuturesHeld, Taken, ResolvedOnce
  <2>3. PICK result \in {"ok", "error"} : future' = [future EXCEPT ![c] = result]
    BY <1>6, <2>1, <2>2 DEF ResolveReply
  <2>4. UNCHANGED <<pending, failing, made>> /\ popped' = [popped EXCEPT ![s] = 0]
    BY <1>6 DEF ResolveReply, object, book
  <2>5. \A a \in Actors : Taken(a) \ {c} \subseteq Taken(a)'
    BY <1>0, <2>1, <2>4 DEF Taken, TypeOK
  <2>6. \A d \in Calls \ {c} : future'[d] = future[d]
    BY <2>3
  <2>7. c \in Calls => future'[c] \notin {"none", "open"}
    BY <1>0, <2>3 DEF TypeOK
  <2>8. ASSUME NEW d \in Calls PROVE /\ future'[d] = "none" <=> d > made
                                     /\ future'[d] = "open" => d \in pending \/ \E b \in Actors : d \in Taken(b)'
    <3>1. CASE d = c
      BY <1>0, <2>2, <2>7, <3>1 DEF NoneLost
    <3>2. CASE d # c
      BY <1>0, <2>5, <2>6, <3>2 DEF NoneLost
    <3> QED
      BY <3>1, <3>2
  <2> QED
    BY <2>4, <2>8 DEF NoneLost
<1>7. ASSUME NEW s \in Sessions, ReadRaises(s) \/ StillOurs(s) \/ Ends(s) PROVE NoneLost'
  <2>1. UNCHANGED <<pending, future, failing, popped, made>>
    BY <1>7 DEF ReadRaises, StillOurs, Ends, object, book
  <2> QED
    BY <1>0, <2>1, NoneMoved
<1>8. ASSUME NEW s \in Sessions, ReaderFails(s) PROVE NoneLost'
  <2>1. failing[s] = {} /\ s \in Actors /\ TakePending(s) /\ UNCHANGED <<future, popped, made>>
    BY <1>0, <1>8 DEF ReaderFails, FuturesHeld, book
  <2> QED
    BY <1>0, <2>1, AllTaken
<1>9. ASSUME NEW s \in Sessions, ReaderResolves(s) PROVE NoneLost'
  <2>1. UNCHANGED <<pending, popped, made>> /\ (ResolveOne(s) \/ UNCHANGED <<failing, future>>)
    BY <1>9 DEF ReaderResolves, object, book
  <2> QED
    BY <1>0, <2>1, OneLess, NoneMoved
<1>10. ASSUME UNCHANGED vars PROVE NoneLost'
  BY <1>0, <1>10, NoneMoved DEF vars, object, book
<1> QED
  BY <1>1, <1>2, <1>3, <1>4, <1>5, <1>6, <1>7, <1>8, <1>9, <1>10, ActorsDiffer
  DEF Next, CallerStep, ReaderStep, Rest

LEMMA AccountNext == SessionInv /\ AccountInv /\ [Next]_vars => AccountInv'
<1> SUFFICES ASSUME SessionInv, AccountInv, [Next]_vars PROVE AccountInv'
  OBVIOUS
<1>1. CASE Next
  BY <1>1, PendingWaitedNext, FailingInHandNext, ReaderWatchesNext, NoneLostNext DEF AccountInv
<1>2. CASE UNCHANGED vars
  BY <1>2, NoneMoved DEF vars, object, wire, book, local, AccountInv, PendingWaited, FailingInHand,
     ReaderWatches
<1> QED
  BY <1>1, <1>2

\* Where a call is until its future is resolved: a pending call has its caller in
\* call(), about to write or waiting; the reader of a session that has not failed
\* has not left its loop for good; and an open future is pending or with a thread
\* that resolves it (ssh_transport.py:92-118, 128-146).
THEOREM AccountAlways == Spec => []AccountInv
<1>1. Init => AccountInv
  BY AccountInit
<1>2. SessionInv /\ AccountInv /\ [Next]_vars => AccountInv'
  BY AccountNext
<1> QED
  BY <1>1, <1>2, SessionAlways, PTL DEF Spec

\* The whole invariant of the transport, of its sessions and of its calls
\* (ssh_transport.py:63-170).
THEOREM TransportAlways == Spec => []TransportInv
<1>1. SessionInv /\ AccountInv => TransportInv
  BY DEF TransportInv
<1> QED
  BY <1>1, SessionAlways, AccountAlways, PTL

\* A caller that waits for an open future has its call pending in an open session
\* whose reader will notice its end, or a thread is about to resolve it; so neither
\* a failure nor close() ever leaves a caller to its timeout
\* (ssh_transport.py:92-105, 112-118, 128-146, 150-170).
THEOREM NoCallIsForgotten == Spec => []NoCallForgotten
<1>1. ASSUME SessionInv, AccountInv PROVE NoCallForgotten
  <2> SUFFICES ASSUME NEW t \in Callers, pc[t] = "wait", future[call[t]] = "open"
               PROVE  \/ call[t] \in pending /\ process # 0 /\ ~failure /\ reader[process] \in Watching
                      \/ \E s \in Sessions : reader[s] = "resolve" /\ popped[s] = call[t]
                      \/ \E a \in Actors : call[t] \in failing[a]
    BY DEF NoCallForgotten
  <2>0. TypeOK /\ CallsInHand /\ SessionsEnd /\ FuturesHeld /\ NoneLost /\ ReaderWatches
    BY <1>1 DEF SessionInv, AccountInv
  <2>1. call[t] # 0 /\ call[t] \in 0 .. made /\ made \in 0 .. MaxCalls /\ call[t] \in Calls
    BY <2>0, ActorsDiffer DEF TypeOK, CallsInHand, Calls
  <2>2. CASE call[t] \in pending
    BY <1>1, <2>0, <2>2, NothingPending DEF SessionsEnd, ReaderWatches, AccountInv
  <2>3. ASSUME NEW a \in Actors, call[t] \in Taken(a)
        PROVE  \/ \E s \in Sessions : reader[s] = "resolve" /\ popped[s] = call[t]
               \/ \E b \in Actors : call[t] \in failing[b]
    BY <2>0, <2>1, <2>3 DEF Taken, FuturesHeld
  <2> QED
    BY <2>0, <2>1, <2>2, <2>3 DEF NoneLost
<1> QED
  BY <1>1, AccountAlways, SessionAlways, PTL

-----------------------------------------------------------------------------
(* The refinement of CallSession.                                          *)

SessionStep == [Abstract!Next]_(Abstract!sessionVars)

LEMMA SessionInit == Init => Abstract!Init
<1> SUFFICES ASSUME Init PROVE Abstract!Init
  OBVIOUS
<1>1. Status = [c \in Calls |-> "none"]
  BY DEF Init, Status, StatusOf
<1> QED
  BY <1>1 DEF Init, Abstract!Init, OpenSession

\* What the status of a call says of its future.
LEMMA StatusSays ==
  ASSUME SessionInv, NEW c \in Calls
  PROVE  /\ c \in pending => StatusOf(c) = "open"
         /\ Answering(c) => StatusOf(c) = "answered"
         /\ Failing(c) => StatusOf(c) = "failed"
         /\ StatusOf(c) = "open" => c \in pending
<1>0. FuturesHeld /\ ResolvedOnce /\ Actors = Callers \cup Sessions /\ c # 0
  BY ActorsDiffer DEF SessionInv, Calls
<1>1. c \in pending => StatusOf(c) = "open"
  BY <1>0 DEF FuturesHeld, StatusOf
<1>2. ASSUME Answering(c) PROVE StatusOf(c) = "answered"
  <2>1. PICK s \in Sessions : popped[s] = c
    BY <1>2 DEF Answering
  <2>2. c \in Taken(s)
    BY <1>0, <2>1 DEF Taken
  <2>3. future[c] = "open" /\ c \notin pending
    BY <1>0, <2>2 DEF ResolvedOnce
  <2> QED
    BY <1>2, <2>3 DEF StatusOf
<1>3. ASSUME Failing(c) PROVE StatusOf(c) = "failed"
  <2>1. PICK a \in Actors : c \in failing[a]
    BY <1>3 DEF Failing
  <2>2. c \in Taken(a)
    BY <2>1 DEF Taken
  <2>3. future[c] = "open" /\ c \notin pending
    BY <1>0, <2>2 DEF ResolvedOnce
  <2>4. ~Answering(c)
    <3> SUFFICES ASSUME NEW s \in Sessions, popped[s] = c PROVE FALSE
      BY DEF Answering
    <3>1. c \in Taken(s)
      BY <1>0 DEF Taken
    <3>2. s = a
      BY <1>0, <2>2, <3>1 DEF ResolvedOnce
    <3> QED
      BY <1>0, <2>1, <3>2 DEF FuturesHeld
  <2> QED
    BY <1>3, <2>3, <2>4 DEF StatusOf
<1>4. StatusOf(c) = "open" => c \in pending
  BY DEF StatusOf
<1> QED
  BY <1>1, <1>2, <1>3, <1>4

\* The status of a call stays when its future and those who hold it do.
LEMMA StatusStays ==
  ASSUME NEW c \in Calls, future'[c] = future[c], c \in pending' <=> c \in pending,
         (\E s \in Sessions : popped'[s] = c) <=> (\E s \in Sessions : popped[s] = c),
         (\E a \in Actors : c \in failing'[a]) <=> (\E a \in Actors : c \in failing[a])
  PROVE  StatusOf(c)' = StatusOf(c)
BY DEF StatusOf, Answering, Failing

\* The session and all calls are left alone.
LEMMA SessionStutters ==
  ASSUME UNCHANGED <<pending, future, failing, popped>>,
         UNCHANGED <<OpenSession, started, within>>
  PROVE  SessionStep
<1>1. \A c \in Calls : StatusOf(c)' = StatusOf(c)
  BY StatusStays
<1>2. Status' = Status
  BY <1>1 DEF Status
<1> QED
  BY <1>2 DEF SessionStep, Abstract!sessionVars

\* _fail() is the failure of the session, for all its calls, unless it is over.
LEMMA BreakRefines ==
  ASSUME SessionInv, AccountInv, NEW a \in Actors, TakePending(a), failing[a] = {},
         UNCHANGED <<process, future, popped, started, within>>
  PROVE  SessionStep
<1>0. /\ TypeOK /\ SessionsEnd /\ failing \in [Actors -> SUBSET (1 .. made)]
      /\ PendingWaited
  BY DEF SessionInv, TypeOK, AccountInv
<1>1. /\ failure' /\ pending' = {} /\ failing'[a] = pending
      /\ \A b \in Actors \ {a} : failing'[b] = failing[b]
  BY <1>0 DEF TakePending
<1>2. OpenSession' = 0
  BY <1>1 DEF OpenSession
<1>3. CASE OpenSession = 0
  <2>1. pending = {}
    BY <1>0, <1>3, NothingPending DEF OpenSession, SessionsEnd
  <2>2. failing' = failing
    BY <1>0, <2>1 DEF TakePending
  <2> QED
    BY <1>1, <1>2, <1>3, <2>1, <2>2, SessionStutters
<1>4. CASE OpenSession # 0
  <2>1. ASSUME NEW c \in Calls
        PROVE  StatusOf(c)' = IF StatusOf(c) = "open" THEN "failed" ELSE StatusOf(c)
    <3>1. CASE c \in pending
      <4>1. Failing(c)'
        BY <1>1, <3>1 DEF Failing
      <4>2. StatusOf(c) = "open"
        BY <3>1, StatusSays
      <4>3. StatusOf(c)' = "failed"
        <5>1. ~Answering(c) /\ future[c] = "open"
          BY <3>1, <4>2, StatusSays DEF SessionInv, FuturesHeld
        <5> QED
          BY <1>1, <3>1, <4>1, <5>1 DEF StatusOf, Answering
      <4> QED
        BY <4>2, <4>3
    <3>2. CASE c \notin pending
      <4>1. StatusOf(c)' = StatusOf(c)
        BY <1>1, <3>2, StatusStays
      <4>2. StatusOf(c) # "open"
        BY <3>2, StatusSays
      <4> QED
        BY <4>1, <4>2
    <3> QED
      BY <3>1, <3>2
  <2>2. Status' = [c \in Calls |-> IF Status[c] = "open" THEN "failed" ELSE Status[c]]
    BY <2>1 DEF Status
  <2>3. Abstract!Break
    BY <1>2, <1>4, <2>2 DEF Abstract!Break
  <2> QED
    BY <2>3 DEF SessionStep, Abstract!Next
<1> QED
  BY <1>3, <1>4

\* A thread resolves a future it took when the session failed.
LEMMA ErrorRefines ==
  ASSUME SessionInv, NEW a \in Actors, ResolveOne(a),
         UNCHANGED <<pending, popped, process, failure, started, within>>
  PROVE  SessionStep
<1>0. TypeOK /\ ResolvedOnce /\ failing \in [Actors -> SUBSET (1 .. made)]
      /\ UNCHANGED OpenSession
  BY DEF SessionInv, TypeOK, OpenSession
<1>1. PICK c \in failing[a] :
        /\ failing' = [failing EXCEPT ![a] = @ \ {c}]
        /\ future' = IF future[c] = "open" THEN [future EXCEPT ![c] = "error"] ELSE future
  BY DEF ResolveOne
<1>2. c \in Calls /\ Failing(c)
  BY <1>0, <1>1, ActorsDiffer DEF TypeOK, Calls, Failing
<1>3. future[c] = "open"
  BY <1>0, <1>1 DEF ResolvedOnce, Taken
<1>4. StatusOf(c) = "failed"
  BY <1>2, StatusSays
<1>5. StatusOf(c)' = "error"
  <2>1. future'[c] = "error"
    BY <1>0, <1>1, <1>2, <1>3 DEF TypeOK
  <2> QED
    BY <2>1 DEF StatusOf
<1>6. ASSUME NEW d \in Calls \ {c} PROVE StatusOf(d)' = StatusOf(d)
  <2>1. future'[d] = future[d]
    BY <1>1
  <2>2. \A b \in Actors : d \in failing'[b] <=> d \in failing[b]
    BY <1>0, <1>1
  <2> QED
    BY <2>1, <2>2, StatusStays
<1>7. Status' = [Status EXCEPT ![c] = "error"]
  BY <1>2, <1>5, <1>6 DEF Status
<1>8. Abstract!Return(c)
  BY <1>0, <1>2, <1>4, <1>7 DEF Abstract!Return, Status
<1> QED
  BY <1>2, <1>8 DEF SessionStep, Abstract!Next

\* A call is registered in the session that is open.
LEMMA MakeRefines ==
  ASSUME SessionInv, AccountInv, NEW t \in Callers, Register(t)
  PROVE  SessionStep
<1>0. TypeOK /\ CallsInHand /\ NoneLost /\ UNCHANGED <<process, failure, started, failing, popped>>
  BY DEF SessionInv, AccountInv, Register
<1>1. CASE UNCHANGED <<made, future, within, pending>>
  BY <1>0, <1>1, SessionStutters DEF OpenSession
<1>2. CASE /\ ~failure /\ made < MaxCalls
           /\ future' = [future EXCEPT ![made + 1] = "open"]
           /\ within' = [within EXCEPT ![made + 1] = process]
           /\ pending' = pending \cup {made + 1}
  <2>0. PICK c : c = made + 1
    OBVIOUS
  <2>1. c \in Calls /\ OpenSession = process /\ process # 0 /\ UNCHANGED OpenSession
    BY <1>0, <1>2, <2>0, ActorsDiffer DEF TypeOK, Calls, OpenSession, CallsInHand, Register
  <2>2. future[c] = "none" /\ future'[c] = "open" /\ c \in pending'
    BY <1>0, <1>2, <2>0, <2>1, ActorsDiffer DEF NoneLost, TypeOK
  <2>3. StatusOf(c) = "none" /\ StatusOf(c)' = "open"
    BY <2>2 DEF StatusOf
  <2>4. ASSUME NEW d \in Calls \ {c} PROVE StatusOf(d)' = StatusOf(d)
    BY <1>0, <1>2, <2>0, StatusStays
  <2>5. Status' = [Status EXCEPT ![c] = "open"]
    BY <2>1, <2>3, <2>4 DEF Status
  <2>6. Abstract!Make(c)
    BY <1>0, <1>2, <2>0, <2>1, <2>3, <2>5 DEF Abstract!Make, Status
  <2> QED
    BY <2>1, <2>6 DEF SessionStep, Abstract!Next
<1> QED
  BY <1>1, <1>2 DEF Register, NotFailed

\* The reader takes the future of a call of its own session.
LEMMA AnswerRefines ==
  ASSUME SessionInv, AccountInv, NEW s \in Sessions, ReadReply(s)
  PROVE  SessionStep
<1>0. /\ TypeOK /\ FuturesHeld /\ SessionsEnd /\ OldSessionIsOver /\ PendingWaited
      /\ UNCHANGED <<process, failure, started, within, future, failing>> /\ UNCHANGED OpenSession
  BY DEF SessionInv, AccountInv, ReadReply, book, OpenSession
<1>1. PICK c \in lines[s] :
         /\ pending' = pending \ {c}
         /\ IF c \in pending
            THEN popped' = [popped EXCEPT ![s] = c]
            ELSE UNCHANGED popped
  BY DEF ReadReply
<1>2. CASE c \notin pending
  BY <1>0, <1>1, <1>2, SessionStutters
<1>3. CASE c \in pending
  <2>1. c \in Calls /\ popped[s] = 0 /\ popped'[s] = c
        /\ \A r \in Sessions \ {s} : popped'[r] = popped[r]
    BY <1>0, <1>1, <1>3, ActorsDiffer DEF TypeOK, Calls, FuturesHeld, ReadReply
  <2>2. OpenSession = process /\ process # 0 /\ within[c] = process
    BY <1>0, <1>3, NothingPending DEF OpenSession, SessionsEnd, OldSessionIsOver
  <2>3. StatusOf(c) = "open"
    BY <1>3, <2>1, StatusSays
  <2>4. StatusOf(c)' = "answered"
    BY <1>0, <1>1, <1>3, <2>1 DEF StatusOf, Answering, FuturesHeld
  <2>5. ASSUME NEW d \in Calls \ {c} PROVE StatusOf(d)' = StatusOf(d)
    <3>1. d # 0
      BY DEF Calls
    <3>2. (\E r \in Sessions : popped'[r] = d) <=> (\E r \in Sessions : popped[r] = d)
      BY <2>1, <3>1
    <3> QED
      BY <1>0, <1>1, <3>2, StatusStays
  <2>6. Status' = [Status EXCEPT ![c] = "answered"]
    BY <2>1, <2>4, <2>5 DEF Status
  <2>7. Abstract!Answer(c)
    BY <1>0, <2>1, <2>2, <2>3, <2>6 DEF Abstract!Answer, Status
  <2> QED
    BY <2>1, <2>7 DEF SessionStep, Abstract!Next
<1> QED
  BY <1>2, <1>3

\* The reader resolves the future it took.
LEMMA ReturnRefines ==
  ASSUME SessionInv, NEW s \in Sessions, ResolveReply(s)
  PROVE  SessionStep
<1>0. /\ TypeOK /\ FuturesHeld /\ ResolvedOnce
      /\ UNCHANGED <<process, failure, pending, started, within, failing>> /\ UNCHANGED OpenSession
      /\ popped' = [popped EXCEPT ![s] = 0]
  BY DEF SessionInv, ResolveReply, book, object, OpenSession
<1>1. PICK c : c = popped[s]
  OBVIOUS
<1>2. c \in Calls /\ c \in Taken(s) /\ Answering(c)
  BY <1>0, <1>1, ActorsDiffer DEF ResolveReply, TypeOK, Calls, FuturesHeld, Taken, Answering
<1>3. future[c] = "open" /\ StatusOf(c) = "answered"
  BY <1>0, <1>2, StatusSays, ActorsDiffer DEF ResolvedOnce
<1>4. PICK result \in {"ok", "error"} : future' = [future EXCEPT ![c] = result]
  BY <1>1, <1>3 DEF ResolveReply
<1>5. StatusOf(c)' = result
  <2>1. future'[c] = result
    BY <1>0, <1>2, <1>4 DEF TypeOK
  <2> QED
    BY <2>1 DEF StatusOf
<1>6. ASSUME NEW d \in Calls \ {c} PROVE StatusOf(d)' = StatusOf(d)
  <2>1. d # 0
    BY DEF Calls
  <2>2. (\E r \in Sessions : popped'[r] = d) <=> (\E r \in Sessions : popped[r] = d)
    BY <1>0, <1>1, <2>1 DEF TypeOK
  <2> QED
    BY <1>0, <1>4, <2>2, StatusStays
<1>7. Status' = [Status EXCEPT ![c] = result]
  BY <1>2, <1>5, <1>6 DEF Status
<1>8. Abstract!Return(c)
  BY <1>0, <1>2, <1>3, <1>7 DEF Abstract!Return, Status
<1> QED
  BY <1>2, <1>8 DEF SessionStep, Abstract!Next

\* close() leaves the session, and start() opens the next, when no call is open.
LEMMA CloseAndOpenRefine ==
  ASSUME SessionInv, AccountInv,
         Open \/ \E t \in Callers : CloseClear(t)
  PROVE  SessionStep
<1>0. /\ TypeOK /\ CallsInHand /\ SessionsEnd /\ PendingWaited
      /\ UNCHANGED <<pending, future, failing, popped, within>> /\ Main \in Callers
  BY ActorsDiffer DEF SessionInv, AccountInv, Open, CloseClear, book
<1>1. UNCHANGED Status
  <2>1. \A c \in Calls : StatusOf(c)' = StatusOf(c)
    BY <1>0, StatusStays
  <2> QED
    BY <2>1 DEF Status
<1>2. ASSUME pending = {} PROVE \A c \in Calls : Status[c] # "open"
  BY <1>2, StatusSays DEF Status
<1>3. CASE Open
  <2>1. pending = {} /\ process = 0
    BY <1>0, <1>3, NothingPending DEF Open, SessionsEnd
  <2>2. OpenSession = 0 /\ OpenSession' \in {0, started + 1} /\ started' = started + 1
    BY <1>3, <2>1 DEF Open, OpenSession
  <2>3. Abstract!Open
    BY <1>0, <1>1, <1>2, <2>1, <2>2 DEF Abstract!Open
  <2> QED
    BY <2>3 DEF SessionStep, Abstract!Next
<1>4. ASSUME NEW t \in Callers, CloseClear(t) PROVE SessionStep
  <2>1. process' = 0 /\ UNCHANGED <<failure, started>> /\ OpenSession' = 0
    BY <1>4 DEF CloseClear, book, OpenSession
  <2>2. CASE OpenSession = 0
    BY <1>0, <2>1, <2>2, SessionStutters
  <2>3. CASE OpenSession # 0
    <3>1. pending = {}
      BY <1>0, <1>4, <2>3, NothingPending DEF OpenSession, CallsInHand, CloseClear, Closing
    <3>2. Status' = [c \in Calls |-> IF Status[c] = "open" THEN "failed" ELSE Status[c]]
      BY <1>1, <1>2, <3>1 DEF Status
    <3>3. Abstract!Break
      BY <1>0, <2>1, <2>3, <3>2 DEF Abstract!Break
    <3> QED
      BY <3>3 DEF SessionStep, Abstract!Next
  <2> QED
    BY <2>2, <2>3
<1> QED
  BY <1>3, <1>4

LEMMA SessionRefines == SessionInv /\ AccountInv /\ [Next]_vars => SessionStep
<1> SUFFICES ASSUME SessionInv, AccountInv, [Next]_vars PROVE SessionStep
  OBVIOUS
<1>0. /\ FuturesHeld /\ FailingInHand /\ Callers \subseteq Actors /\ Sessions \subseteq Actors
      /\ Main \in Callers
  BY ActorsDiffer DEF SessionInv, AccountInv
<1>1. ASSUME NEW t \in Callers, EnterCall(t) \/ Returned(t) \/ CloseRead(t) \/ Stop(t) \/ Join(t) \/ Start
      PROVE  SessionStep
  <2>1. UNCHANGED <<process, failure, pending, started, within, future, failing, popped>>
    BY <1>1 DEF EnterCall, Returned, CloseRead, Stop, Join, Start, object, book
  <2> QED
    BY <2>1, SessionStutters DEF OpenSession
<1>2. ASSUME NEW t \in Callers, Write(t) \/ TimeOut(t) \/ CloseFails(t) PROVE SessionStep
  <2>1. failing[t] = {}
    BY <1>0, <1>2 DEF Write, TimeOut, CloseFails, FailingInHand
  <2>2. UNCHANGED <<process, future, popped, started, within>>
        /\ (TakePending(t) \/ UNCHANGED <<failure, pending, failing>>)
    BY <1>2 DEF Write, TimeOut, CloseFails, book
  <2> QED
    BY <1>0, <2>1, <2>2, BreakRefines, SessionStutters DEF OpenSession
<1>3. ASSUME NEW t \in Callers, Resolve(t) PROVE SessionStep
  <2>1. UNCHANGED <<process, failure, pending, popped, started, within>>
        /\ (ResolveOne(t) \/ UNCHANGED <<failing, future>>)
    BY <1>3 DEF Resolve, object, book
  <2> QED
    BY <1>0, <2>1, ErrorRefines, SessionStutters DEF OpenSession
<1>4. ASSUME NEW s \in Sessions, ReadRaises(s) \/ StillOurs(s) \/ Ends(s) PROVE SessionStep
  <2>1. UNCHANGED <<process, failure, pending, started, within, future, failing, popped>>
    BY <1>4 DEF ReadRaises, StillOurs, Ends, object, book
  <2> QED
    BY <2>1, SessionStutters DEF OpenSession
<1>5. ASSUME NEW s \in Sessions, ReaderFails(s) PROVE SessionStep
  <2>1. failing[s] = {} /\ TakePending(s) /\ UNCHANGED <<process, future, popped, started, within>>
    BY <1>0, <1>5 DEF ReaderFails, FuturesHeld, book
  <2> QED
    BY <1>0, <2>1, BreakRefines
<1>6. ASSUME NEW s \in Sessions, ReaderResolves(s) PROVE SessionStep
  <2>1. UNCHANGED <<process, failure, pending, popped, started, within>>
        /\ (ResolveOne(s) \/ UNCHANGED <<failing, future>>)
    BY <1>6 DEF ReaderResolves, object, book
  <2> QED
    BY <1>0, <2>1, ErrorRefines, SessionStutters DEF OpenSession
<1>7. ASSUME UNCHANGED vars PROVE SessionStep
  BY <1>7, SessionStutters DEF vars, object, book, OpenSession
<1> QED
  BY <1>0, <1>1, <1>2, <1>3, <1>4, <1>5, <1>6, <1>7, MakeRefines, AnswerRefines, ReturnRefines,
     CloseAndOpenRefine DEF Next, CallerStep, ReaderStep, Rest

\* The threads implement the sessions of CallSession: a failure is one step for
\* all calls of the session, a call is answered in its own session or fails, comes
\* to its result once and is never lost, and a session opens only when every call
\* of the earlier ones is out of `pending` (ssh_transport.py:64-170).
THEOREM SessionRefinement == Spec => ImplementsCallSession
  BY SessionInit, SessionRefines, SessionAlways, AccountAlways, PTL
     DEF Spec, ImplementsCallSession, Abstract!Spec, SessionStep
=============================================================================
