----------------------------- MODULE HelperProofs -----------------------------
(***************************************************************************)
(* One helper process for every value of its constants: any number of      *)
(* benchmarks, nonces, workers and payloads.  Module MemberMasterProofs    *)
(* puts a master at the other end of its session.                          *)
(***************************************************************************)
EXTENDS HelperProperties, FiniteSetTheorems, TLAPS

-----------------------------------------------------------------------------
(* The sequences, as the sets the invariant speaks of.                     *)

LEMMA TailOf ==
  ASSUME NEW S, NEW s \in Seq(S), s # <<>>
  PROVE  /\ Tail(s) \in Seq(S) /\ Head(s) = s[1] /\ 1 \in DOMAIN s
         /\ \A j \in DOMAIN Tail(s) : /\ j + 1 \in DOMAIN s /\ j + 1 # 1
                                      /\ Tail(s)[j] = s[j + 1]
         /\ \A j \in DOMAIN s : j = 1 \/ (j - 1 \in DOMAIN Tail(s) /\ Tail(s)[j - 1] = s[j])
         /\ \A i, j \in DOMAIN Tail(s) : i + 1 = j + 1 => i = j
<1>1. Len(s) \in Nat \ {0} /\ DOMAIN s = 1 .. Len(s)
  OBVIOUS
<1>2. Tail(s) \in Seq(S) /\ Len(Tail(s)) = Len(s) - 1 /\ DOMAIN Tail(s) = 1 .. (Len(s) - 1)
  BY <1>1
<1>3. \A j \in DOMAIN Tail(s) : j + 1 \in DOMAIN s /\ j + 1 # 1 /\ Tail(s)[j] = s[j + 1]
  BY <1>1, <1>2
<1>4. \A j \in DOMAIN s : j = 1 \/ (j - 1 \in DOMAIN Tail(s) /\ Tail(s)[j - 1] = s[j])
  BY <1>1, <1>2
<1> QED
  BY <1>1, <1>2, <1>3, <1>4

LEMMA AppendOf ==
  ASSUME NEW S, NEW s \in Seq(S), NEW e \in S
  PROVE  /\ Append(s, e) \in Seq(S)
         /\ Len(s) + 1 \in DOMAIN Append(s, e) /\ Len(s) + 1 \notin DOMAIN s
         /\ Append(s, e)[Len(s) + 1] = e
         /\ DOMAIN Append(s, e) = DOMAIN s \cup {Len(s) + 1}
         /\ \A j \in DOMAIN s : Append(s, e)[j] = s[j]
<1>1. Len(s) \in Nat /\ DOMAIN s = 1 .. Len(s)
  OBVIOUS
<1>2. Append(s, e) \in Seq(S) /\ DOMAIN Append(s, e) = 1 .. (Len(s) + 1)
  BY <1>1
<1> QED
  BY <1>1, <1>2

\* A line is read.
LEMMA LineRead ==
  ASSUME inbox \in Seq(Message), inbox # <<>>, inbox' = Tail(inbox), LinesOnce
  PROVE  /\ inbox' \in Seq(Message) /\ LinesOnce' /\ Head(inbox) \in Unread
         /\ Head(inbox) \in Message
         /\ Unread' = Unread \ {Head(inbox)}
<1>1. /\ inbox' \in Seq(Message) /\ Head(inbox) = inbox[1] /\ 1 \in DOMAIN inbox
      /\ \A j \in DOMAIN inbox' : j + 1 \in DOMAIN inbox /\ j + 1 # 1 /\ inbox'[j] = inbox[j + 1]
      /\ \A j \in DOMAIN inbox : j = 1 \/ (j - 1 \in DOMAIN inbox' /\ inbox'[j - 1] = inbox[j])
      /\ \A i, j \in DOMAIN inbox' : i + 1 = j + 1 => i = j
  BY TailOf
<1>2. LinesOnce'
  BY <1>1 DEF LinesOnce
<1>3. Head(inbox) \in Message /\ Head(inbox) \in Unread
  BY <1>1 DEF Unread
<1>4. Unread' \subseteq Unread \ {Head(inbox)}
  BY <1>1 DEF Unread, LinesOnce
<1>5. ASSUME NEW m \in Unread, m # Head(inbox) PROVE m \in Unread'
  <2>1. PICK j \in DOMAIN inbox : inbox[j] = m
    BY DEF Unread
  <2>2. j - 1 \in DOMAIN inbox' /\ inbox'[j - 1] = m
    BY <1>1, <1>5, <2>1
  <2> QED
    BY <2>2 DEF Unread
<1> QED
  BY <1>1, <1>2, <1>3, <1>4, <1>5

\* A line is written.
LEMMA LineWritten ==
  ASSUME inbox \in Seq(Message), NEW m \in Message, m \notin Unread,
         inbox' = Append(inbox, m), LinesOnce
  PROVE  inbox' \in Seq(Message) /\ LinesOnce' /\ Unread' = Unread \cup {m}
<1>1. /\ inbox' \in Seq(Message)
      /\ Len(inbox) + 1 \in DOMAIN inbox' /\ Len(inbox) + 1 \notin DOMAIN inbox
      /\ inbox'[Len(inbox) + 1] = m
      /\ DOMAIN inbox' = DOMAIN inbox \cup {Len(inbox) + 1}
      /\ \A j \in DOMAIN inbox : inbox'[j] = inbox[j]
  BY AppendOf
<1>2. LinesOnce'
  BY <1>1 DEF LinesOnce, Unread
<1>3. Unread' = Unread \cup {m}
  BY <1>1 DEF Unread
<1> QED
  BY <1>1, <1>2, <1>3

\* An event is queued.
LEMMA EventQueued ==
  ASSUME events \in Seq(Event), NEW e \in Event, events' = Append(events, e), QueueOnce,
         e.kind \in {"request", "complete"} => e.of \notin Of(e.kind)
  PROVE  /\ events' \in Seq(Event) /\ QueueOnce'
         /\ \A kind : Of(kind)' = Of(kind) \cup (IF e.kind = kind THEN {e.of} ELSE {})
<1>1. /\ events' \in Seq(Event)
      /\ Len(events) + 1 \in DOMAIN events' /\ Len(events) + 1 \notin DOMAIN events
      /\ events'[Len(events) + 1] = e
      /\ DOMAIN events' = DOMAIN events \cup {Len(events) + 1}
      /\ \A j \in DOMAIN events : events'[j] = events[j]
  BY AppendOf
<1>2. QueueOnce'
  BY <1>1 DEF QueueOnce, Of
<1>3. ASSUME NEW kind
      PROVE  Of(kind)' = Of(kind) \cup (IF e.kind = kind THEN {e.of} ELSE {})
  BY <1>1 DEF Of
<1> QED
  BY <1>1, <1>2, <1>3

\* An event is taken.
LEMMA EventTaken ==
  ASSUME events \in Seq(Event), events # <<>>, Taken, QueueOnce, NEW e, e = Head(events)
  PROVE  /\ events' \in Seq(Event) /\ QueueOnce'
         /\ e \in Event /\ e.of \in Of(e.kind)
         /\ \A kind : Of(kind)' \subseteq Of(kind)
         /\ \A kind \in {"request", "complete"} :
              Of(kind)' = Of(kind) \ (IF e.kind = kind THEN {e.of} ELSE {})
<1>1. /\ events' \in Seq(Event) /\ e = events[1] /\ 1 \in DOMAIN events
      /\ \A j \in DOMAIN events' : j + 1 \in DOMAIN events /\ j + 1 # 1 /\ events'[j] = events[j + 1]
      /\ \A j \in DOMAIN events : j = 1 \/ (j - 1 \in DOMAIN events' /\ events'[j - 1] = events[j])
      /\ \A i, j \in DOMAIN events' : i + 1 = j + 1 => i = j
  BY TailOf DEF Taken
<1>2. QueueOnce'
  <2> SUFFICES ASSUME NEW i \in DOMAIN events', NEW j \in DOMAIN events',
                      events'[i].kind \in {"request", "complete"},
                      events'[i].kind = events'[j].kind, events'[i].of = events'[j].of
               PROVE  i = j
    BY DEF QueueOnce
  <2>1. i + 1 \in DOMAIN events /\ j + 1 \in DOMAIN events
        /\ events'[i] = events[i + 1] /\ events'[j] = events[j + 1]
    BY <1>1
  <2>2. i + 1 = j + 1
    BY <2>1 DEF QueueOnce
  <2> QED
    BY <1>1, <2>2
<1>3. e \in Event /\ e.of \in Of(e.kind)
  BY <1>1 DEF Of
<1>4. \A kind : Of(kind)' \subseteq Of(kind)
  <2> SUFFICES ASSUME NEW kind, NEW j \in DOMAIN events', events'[j].kind = kind
               PROVE  events'[j].of \in Of(kind)
    BY DEF Of
  <2>1. j + 1 \in DOMAIN events /\ events'[j] = events[j + 1]
    BY <1>1
  <2> QED
    BY <2>1 DEF Of
<1>5. ASSUME NEW kind, NEW x \in Of(kind), kind # e.kind \/ x # e.of
      PROVE  x \in Of(kind)'
  <2>1. PICK j \in DOMAIN events : events[j].kind = kind /\ events[j].of = x
    BY DEF Of
  <2>2. j - 1 \in DOMAIN events' /\ events'[j - 1] = events[j]
    BY <1>1, <1>5, <2>1
  <2> QED
    BY <2>1, <2>2 DEF Of
<1>6. ASSUME NEW kind \in {"request", "complete"}, e.kind = kind
      PROVE  e.of \notin Of(kind)'
  <2> SUFFICES ASSUME NEW j \in DOMAIN events', events'[j].kind = kind, events'[j].of = e.of
               PROVE  FALSE
    BY DEF Of
  <2>1. j + 1 \in DOMAIN events /\ j + 1 # 1 /\ events'[j] = events[j + 1]
    BY <1>1
  <2> QED
    BY <1>1, <1>6, <2>1 DEF QueueOnce
<1> QED
  BY <1>1, <1>2, <1>3, <1>4, <1>5, <1>6

LEMMA NothingQueued == events' = <<>> => QueueOnce' /\ events' \in Seq(Event) /\ \A kind : Of(kind)' = {}
<1> SUFFICES ASSUME events' = <<>> PROVE QueueOnce' /\ events' \in Seq(Event) /\ \A kind : Of(kind)' = {}
  OBVIOUS
<1>1. DOMAIN events' = {} /\ events' \in Seq(Event)
  OBVIOUS
<1> QED
  BY <1>1 DEF QueueOnce, Of
LEMMA NothingWritten == inbox' = <<>> => LinesOnce' /\ inbox' \in Seq(Message) /\ Unread' = {}
<1> SUFFICES ASSUME inbox' = <<>> PROVE LinesOnce' /\ inbox' \in Seq(Message) /\ Unread' = {}
  OBVIOUS
<1>1. DOMAIN inbox' = {} /\ inbox' \in Seq(Message)
  OBVIOUS
<1> QED
  BY <1>1 DEF LinesOnce, Unread

-----------------------------------------------------------------------------
(* What a step of the helper can mean to its master.                       *)

Asks(b) == \E m \in Requests : m.op = "prepare" /\ m.bench = b

Effect ==
    /\ attached' => attached
    /\ UnderWay' \subseteq UnderWay /\ Requests' \subseteq Requests
    /\ \A m \in active' : m \in active \/ m.bench = prepared
    /\ prepared' \in {prepared, None} \/ Asks(prepared')
    /\ \A b \in runtimes' : b \in runtimes \/ Asks(b)
    /\ \A b \in Benchmarks : assignments'[b].acknowledged => assignments[b].acknowledged \/ Asks(b)
    /\ \A b \in Benchmarks, n \in Nonces :
           \/ nonces'[b][n] = nonces[b][n]
           \/ nonces[b][n] = None /\ \E m \in active : m.bench = b
    /\ attached' /\ prepared' \notin runtimes' \cup {None} =>
           /\ prepared \notin runtimes \cup {None} \/ \E b : Asks(b)
           /\ \A r \in replies' : r \in replies \/ ~(r.ok /\ r.to.op = "prepare")

LEMMA HelperStart == HelperInit => HelperInv
<1> SUFFICES ASSUME HelperInit PROVE HelperInv
  OBVIOUS
<1>1. DOMAIN inbox = {} /\ DOMAIN events = {}
  BY DEF HelperInit
<1>2. inbox \in Seq(Message) /\ events \in Seq(Event)
  BY DEF HelperInit
<1>3. StoreTypeOK
  <2>1. NoRow \in AssignmentRow
    BY DEF NoRow, AssignmentRow
  <2>2. Blank \in [Nonces -> Leaves \cup {None}]
    BY DEF Blank
  <2> QED
    BY <2>1, <2>2 DEF HelperInit, StoreInit, StoreTypeOK
<1>4. HelperTypeOK
  BY <1>2, <1>3 DEF HelperInit, HelperTypeOK
<1>5. OnePlace
  BY <1>1 DEF HelperInit, OnePlace, LinesOnce, QueueOnce, Unread, Of, Requests, AnsweredTo
<1>6. Addressed
  BY <1>1 DEF HelperInit, Addressed, Unread, Of, Requests
<1>7. RuntimeKept
  BY <1>1 DEF HelperInit, RuntimeKept, Unread, Of, Requests
<1>8. ProcessAndSession
  BY <1>1 DEF HelperInit, ProcessAndSession, Of
<1>9. RepliesSaved
  BY DEF HelperInit, RepliesSaved
<1> QED
  BY <1>4, <1>5, <1>6, <1>7, <1>8, <1>9 DEF HelperInv

\* A request is taken from the queue: it is nowhere else.
LEMMA RequestTaken ==
  ASSUME HelperInv, NEW op, Request(op), NEW m, m = Head(events).of
  PROVE  /\ m \in Requests /\ m \in Message /\ m.op = op
         /\ m \notin active /\ m \notin AnsweredTo /\ m \notin running
         /\ Unread' = Unread /\ LinesOnce'
         /\ events' \in Seq(Event) /\ QueueOnce'
         /\ Of("request")' = Of("request") \ {m} /\ Of("complete")' = Of("complete")
         /\ Of("input_error")' \subseteq Of("input_error")
         /\ Requests' = Requests \ {m}
         /\ helper = "serving"
<1>0. HelperTypeOK /\ OnePlace /\ Addressed
  BY DEF HelperInv
<1>1. /\ events # <<>> /\ Taken /\ helper = "serving" /\ inbox' = inbox
      /\ Head(events).kind = "request" /\ m.op = op
  BY DEF Request, Serving
<1>2. events \in Seq(Event) /\ QueueOnce
  BY <1>0 DEF HelperTypeOK, OnePlace
<1> DEFINE e == Head(events)
<1>3. PICK x : x = e
  OBVIOUS
<1>4. /\ events' \in Seq(Event) /\ QueueOnce' /\ x.of \in Of(x.kind)
      /\ \A kind : Of(kind)' \subseteq Of(kind)
      /\ \A kind \in {"request", "complete"} :
              Of(kind)' = Of(kind) \ (IF x.kind = kind THEN {x.of} ELSE {})
  BY <1>1, <1>2, <1>3, EventTaken
<1>5. m \in Of("request") /\ Of("request")' = Of("request") \ {m}
      /\ Of("complete")' = Of("complete") /\ Of("input_error")' \subseteq Of("input_error")
  BY <1>1, <1>3, <1>4
<1>6. m \in Requests /\ m \in Message /\ m \notin active /\ m \notin AnsweredTo /\ m \notin running
      /\ m \notin Unread
  BY <1>0, <1>5 DEF Requests, OnePlace, Addressed
<1>7. Unread' = Unread /\ LinesOnce'
  BY <1>0, <1>1 DEF Unread, OnePlace, LinesOnce
<1>8. Requests' = Requests \ {m}
  BY <1>5, <1>6, <1>7 DEF Requests
<1> QED
  BY <1>1, <1>4, <1>5, <1>6, <1>7, <1>8

LEMMA Replied ==
  ASSUME HelperInv, NEW m \in Message, m \notin AnsweredTo, NEW ok \in BOOLEAN,
         NEW leaf \in Leaves \cup {None}, Answer(m, ok, leaf), UNCHANGED attached,
         helper = "serving"
  PROVE  /\ replies' \subseteq Reply /\ helper' \in {"serving", "leaving"}
         /\ attached => helper' = "serving"
         /\ ~attached => replies' = {}
         /\ AnsweredTo' \subseteq AnsweredTo \cup {m}
         /\ \A r \in replies' : r \in replies \/ (r.to = m /\ r.ok = ok /\ r.leaf = leaf)
         /\ \A r, s \in replies' : r.to = s.to => r = s
<1>0. /\ replies \subseteq Reply /\ (\A r, s \in replies : r.to = s.to => r = s)
      /\ (~attached => replies = {})
  BY DEF HelperInv, HelperTypeOK, OnePlace, ProcessAndSession
<1> DEFINE new == [to |-> m, ok |-> ok, leaf |-> leaf]
<1>1. new \in Reply /\ new.to = m /\ new.ok = ok /\ new.leaf = leaf
  BY DEF Reply
<1>2. \A r \in replies : r.to # m
  BY DEF AnsweredTo
<1>3. CASE attached
  <2>1. replies' = replies \cup {new} /\ helper' = helper
    BY <1>3 DEF Answer
  <2> HIDE DEF new
  <2>2. AnsweredTo' \subseteq AnsweredTo \cup {m}
    BY <1>1, <2>1 DEF AnsweredTo
  <2> QED
    BY <1>0, <1>1, <1>2, <1>3, <2>1, <2>2
<1>4. CASE ~attached
  <2>1. replies' = replies /\ helper' \in {"serving", "leaving"} /\ replies = {}
    BY <1>0, <1>4 DEF Answer
  <2> QED
    BY <1>4, <2>1 DEF AnsweredTo
<1> QED
  BY <1>3, <1>4

\* A request is answered at once.
LEMMA RequestAnswered ==
  ASSUME HelperInv, NEW op, Request(op), NEW m, m = Head(events).of,
         NEW ok \in BOOLEAN, NEW leaf \in Leaves \cup {None}, Answer(m, ok, leaf),
         UNCHANGED <<active, running>>
  PROVE  /\ OnePlace' /\ Addressed' /\ ProcessAndSession'
         /\ events' \in Seq(Event) /\ replies' \subseteq Reply
         /\ helper' \in {"serving", "leaving"}
         /\ m \in Requests /\ m \in Message /\ m.op = op
         /\ Requests' = Requests \ {m} /\ UnderWay' \subseteq UnderWay
         /\ \A r \in replies' : r \in replies \/ (r.to = m /\ r.ok = ok /\ r.leaf = leaf)
<1>0. OnePlace /\ Addressed /\ ProcessAndSession
  BY DEF HelperInv
<1>1. /\ m \in Requests /\ m \in Message /\ m.op = op
      /\ m \notin active /\ m \notin AnsweredTo /\ m \notin running
      /\ Unread' = Unread /\ LinesOnce'
      /\ events' \in Seq(Event) /\ QueueOnce'
      /\ Of("request")' = Of("request") \ {m} /\ Of("complete")' = Of("complete")
      /\ Of("input_error")' \subseteq Of("input_error")
      /\ Requests' = Requests \ {m}
      /\ helper = "serving"
  BY RequestTaken
<1>2. attached' = attached
  BY DEF Request
<1>3. /\ replies' \subseteq Reply /\ helper' \in {"serving", "leaving"}
      /\ attached => helper' = "serving"
      /\ ~attached => replies' = {}
      /\ AnsweredTo' \subseteq AnsweredTo \cup {m}
      /\ \A r \in replies' : r \in replies \/ (r.to = m /\ r.ok = ok /\ r.leaf = leaf)
      /\ \A r, s \in replies' : r.to = s.to => r = s
  BY <1>1, <1>2, Replied
<1>4. OnePlace'
  BY <1>0, <1>1, <1>3 DEF OnePlace
<1>5. Addressed'
  BY <1>0, <1>1 DEF Addressed
<1>6. ProcessAndSession'
  BY <1>0, <1>1, <1>2, <1>3 DEF ProcessAndSession
<1>7. UnderWay' \subseteq UnderWay
  BY <1>1, <1>3 DEF UnderWay
<1> QED
  BY <1>1, <1>3, <1>4, <1>5, <1>6, <1>7

-----------------------------------------------------------------------------
(* The requests, one operation after the other.                            *)

LEMMA Inquires ==
  ASSUME HelperInv, TakeInquiry
  PROVE  HelperInv' /\ Effect
<1>0. HelperTypeOK /\ RuntimeKept /\ RepliesSaved
  BY DEF HelperInv
<1>1. PICK op \in {"hello", "validate"} : Request(op)
  BY DEF TakeInquiry
<1>2. PICK m : m = Head(events).of
  OBVIOUS
<1>3. PICK ok \in BOOLEAN : Answer(m, ok, None)
  BY <1>2 DEF TakeInquiry
<1>4. UNCHANGED <<evidenceVars, runtimes, active, running, prepared>>
  BY DEF TakeInquiry, OutputKept
<1>5. /\ OnePlace' /\ Addressed' /\ ProcessAndSession'
      /\ events' \in Seq(Event) /\ replies' \subseteq Reply
      /\ helper' \in {"serving", "leaving"}
      /\ m \in Requests /\ m \in Message /\ m.op = op
      /\ Requests' = Requests \ {m} /\ UnderWay' \subseteq UnderWay
      /\ \A r \in replies' : r \in replies \/ (r.to = m /\ r.ok = ok /\ r.leaf = None)
  BY <1>1, <1>2, <1>3, <1>4, RequestAnswered
<1>6. UNCHANGED <<reading, closing, attached, inbox>>
  BY <1>1 DEF Request
<1>7. HelperTypeOK'
  BY <1>0, <1>4, <1>5, <1>6 DEF HelperTypeOK, StoreTypeOK, evidenceVars
<1>8. RuntimeKept'
  BY <1>0, <1>4, <1>5 DEF RuntimeKept
<1>9. RepliesSaved'
  BY <1>0, <1>4, <1>5 DEF RepliesSaved, evidenceVars
<1>10. Effect
  BY <1>4, <1>5, <1>6 DEF Effect, evidenceVars
<1> QED
  BY <1>5, <1>7, <1>8, <1>9, <1>10 DEF HelperInv

\* A preparation, whatever Docker does: nothing is under computation.
LEMMA Prepares ==
  ASSUME HelperInv, TakePrepare \/ TakePrepareFails
  PROVE  HelperInv' /\ Effect
<1>0. HelperTypeOK /\ RuntimeKept /\ RepliesSaved /\ OnePlace /\ Addressed
  BY DEF HelperInv
<1>1. Request("prepare") /\ UNCHANGED <<nonces, active, running, reading, closing, attached, inbox>>
  BY DEF TakePrepare, TakePrepareFails, Request
<1>2. PICK m : m = Head(events).of
  OBVIOUS
<1>3. PICK ok \in BOOLEAN : Answer(m, ok, None)
                            /\ (ok => prepared' \in runtimes')
  BY <1>2 DEF TakePrepare, TakePrepareFails
<1>4. /\ OnePlace' /\ Addressed' /\ ProcessAndSession'
      /\ events' \in Seq(Event) /\ replies' \subseteq Reply
      /\ helper' \in {"serving", "leaving"}
      /\ m \in Requests /\ m \in Message /\ m.op = "prepare"
      /\ Requests' = Requests \ {m} /\ UnderWay' \subseteq UnderWay
      /\ \A r \in replies' : r \in replies \/ (r.to = m /\ r.ok = ok /\ r.leaf = None)
  BY <1>1, <1>2, <1>3, RequestAnswered
<1>5. m.bench \in Benchmarks /\ m.digest \in Payloads \cup {None}
  BY <1>0, <1>4 DEF Addressed, Message
<1>6. \/ UNCHANGED <<assignments, runtimes, prepared>>
      \/ /\ active = {} /\ prepared \in {None, m.bench} /\ prepared' \in {prepared, m.bench}
         /\ assignments' = [assignments EXCEPT ![m.bench].payload = m.digest,
                                               ![m.bench].acknowledged = TRUE]
         /\ runtimes' \subseteq runtimes \cup {m.bench}
  BY <1>2 DEF TakePrepare, TakePrepareFails
<1>7. assignments' \in [Benchmarks -> AssignmentRow]
  <2>1. CASE UNCHANGED assignments
    BY <1>0, <2>1 DEF HelperTypeOK, StoreTypeOK
  <2>2. CASE assignments' = [assignments EXCEPT ![m.bench].payload = m.digest,
                                                ![m.bench].acknowledged = TRUE]
    <3>1. assignments \in [Benchmarks -> AssignmentRow]
      BY <1>0 DEF HelperTypeOK, StoreTypeOK
    <3>2. \A line \in AssignmentRow :
             [[line EXCEPT !.payload = m.digest] EXCEPT !.acknowledged = TRUE] \in AssignmentRow
      BY <1>5 DEF AssignmentRow
    <3> QED
      BY <1>5, <2>2, <3>1, <3>2
  <2> QED
    BY <1>6, <2>1, <2>2
<1>8. HelperTypeOK'
  BY <1>0, <1>1, <1>4, <1>5, <1>6, <1>7 DEF HelperTypeOK, StoreTypeOK
<1>9. running = {} \/ UNCHANGED <<runtimes, prepared>>
  BY <1>0, <1>6 DEF OnePlace
<1>10. \A k \in Requests' : k.op # "compute"
  BY <1>0, <1>4 DEF RuntimeKept
<1>11. RuntimeKept'
  BY <1>0, <1>1, <1>9, <1>4, <1>10 DEF RuntimeKept
<1>12. RepliesSaved'
  BY <1>0, <1>1, <1>4 DEF RepliesSaved
<1>13. Asks(m.bench)
  BY <1>4 DEF Asks
<1>14. \A b \in Benchmarks : assignments'[b].acknowledged => assignments[b].acknowledged \/ Asks(b)
  <2> SUFFICES ASSUME NEW b \in Benchmarks, b # m.bench
               PROVE  assignments'[b] = assignments[b]
    BY <1>13
  <2> QED
    BY <1>0, <1>6 DEF HelperTypeOK, StoreTypeOK
<1>15. Effect
  <2>1. prepared' \in {prepared, None} \/ Asks(prepared')
    BY <1>6, <1>13
  <2>2. \A b \in runtimes' : b \in runtimes \/ Asks(b)
    BY <1>6, <1>13
  <2>3. attached' /\ prepared' \notin runtimes' \cup {None} =>
          /\ \E b : Asks(b)
          /\ \A r \in replies' : r \in replies \/ ~(r.ok /\ r.to.op = "prepare")
    BY <1>3, <1>4, <1>13
  <2> QED
    BY <1>1, <1>4, <1>14, <2>1, <2>2, <2>3 DEF Effect
<1> QED
  BY <1>4, <1>8, <1>11, <1>12, <1>15 DEF HelperInv

LEMMA Releases ==
  ASSUME HelperInv, TakeRelease \/ TakeReleaseFails
  PROVE  HelperInv' /\ Effect
<1>0. HelperTypeOK /\ RuntimeKept /\ RepliesSaved /\ OnePlace
  BY DEF HelperInv
<1>1. Request("release") /\ UNCHANGED <<evidenceVars, active, running, reading, closing, attached, inbox>>
  BY DEF TakeRelease, TakeReleaseFails, Request, OutputKept
<1>2. PICK m : m = Head(events).of
  OBVIOUS
<1>3. PICK ok \in BOOLEAN : Answer(m, ok, None)
  BY <1>2 DEF TakeRelease, TakeReleaseFails
<1>4. /\ OnePlace' /\ Addressed' /\ ProcessAndSession'
      /\ events' \in Seq(Event) /\ replies' \subseteq Reply
      /\ helper' \in {"serving", "leaving"}
      /\ m \in Requests /\ m \in Message /\ m.op = "release"
      /\ Requests' = Requests \ {m} /\ UnderWay' \subseteq UnderWay
      /\ \A r \in replies' : r \in replies \/ (r.to = m /\ r.ok = ok /\ r.leaf = None)
  BY <1>1, <1>2, <1>3, RequestAnswered
<1>5. \/ UNCHANGED <<runtimes, prepared>>
      \/ active = {} /\ runtimes' \subseteq runtimes /\ prepared' = None
  BY <1>2 DEF TakeRelease, TakeReleaseFails, OutputKept
<1>6. HelperTypeOK'
  BY <1>0, <1>1, <1>4, <1>5 DEF HelperTypeOK, StoreTypeOK, evidenceVars
<1>7. RuntimeKept'
  BY <1>0, <1>1, <1>4, <1>5 DEF RuntimeKept, OnePlace
<1>8. RepliesSaved'
  BY <1>0, <1>1, <1>4 DEF RepliesSaved, evidenceVars
<1>9. Effect
  BY <1>1, <1>4, <1>5 DEF Effect, evidenceVars
<1> QED
  BY <1>4, <1>6, <1>7, <1>8, <1>9 DEF HelperInv

LEMMA Computes ==
  ASSUME HelperInv, TakeCompute
  PROVE  HelperInv' /\ Effect
<1>0. HelperTypeOK /\ RuntimeKept /\ RepliesSaved /\ OnePlace /\ Addressed /\ ProcessAndSession
  BY DEF HelperInv
<1>1. Request("compute") /\ UNCHANGED <<evidenceVars, runtimes, prepared, reading, closing, attached, inbox>>
  BY DEF TakeCompute, Request, OutputKept
<1>2. PICK m : m = Head(events).of
  OBVIOUS
<1>3. /\ m \in Requests /\ m \in Message /\ m.op = "compute"
      /\ m \notin active /\ m \notin AnsweredTo /\ m \notin running
      /\ Unread' = Unread /\ LinesOnce'
      /\ events' \in Seq(Event) /\ QueueOnce'
      /\ Of("request")' = Of("request") \ {m} /\ Of("complete")' = Of("complete")
      /\ Of("input_error")' \subseteq Of("input_error")
      /\ Requests' = Requests \ {m}
      /\ helper = "serving"
  BY <1>1, <1>2, RequestTaken
<1>4. m.bench # None /\ m.nonce # None /\ m.bench \in Benchmarks /\ m.nonce \in Nonces
  BY <1>0, <1>3 DEF Addressed, Message
<1>5. CASE /\ Prepared(m) /\ active' = active \cup {m} /\ running' = running \cup {m}
           /\ NoAnswer
  <2>1. prepared = m.bench /\ UNCHANGED <<helper, replies>>
    BY <1>5 DEF Prepared, NoAnswer
  <2>2. m.bench \in runtimes
    BY <1>0, <1>3, <1>4, <2>1 DEF RuntimeKept
  <2>3. AnsweredTo' = AnsweredTo
    BY <2>1 DEF AnsweredTo
  <2>4. OnePlace'
    BY <1>0, <1>3, <1>5, <2>1, <2>3 DEF OnePlace
  <2>5. Addressed'
    BY <1>0, <1>3, <1>4, <1>5 DEF Addressed
  <2>6. RuntimeKept'
    BY <1>0, <1>1, <1>3, <1>5, <2>1, <2>2 DEF RuntimeKept
  <2>7. ProcessAndSession'
    BY <1>0, <1>1, <1>3, <2>1 DEF ProcessAndSession
  <2>8. RepliesSaved'
    BY <1>0, <1>1, <2>1 DEF RepliesSaved, evidenceVars
  <2>9. HelperTypeOK'
    BY <1>0, <1>1, <1>3, <1>5, <2>1 DEF HelperTypeOK, StoreTypeOK, evidenceVars
  <2>10. Effect
    BY <1>1, <1>3, <1>5, <2>1, <2>3 DEF Effect, evidenceVars, UnderWay
  <2> QED
    BY <2>4, <2>5, <2>6, <2>7, <2>8, <2>9, <2>10 DEF HelperInv
<1>6. CASE UNCHANGED <<active, running>>
  <2>1. nonces[m.bench][m.nonce] \in Leaves \cup {None}
    BY <1>0, <1>4 DEF HelperTypeOK, StoreTypeOK
  <2>2. PICK ok \in BOOLEAN, leaf \in Leaves \cup {None} :
          Answer(m, ok, leaf) /\ (ok => leaf = nonces[m.bench][m.nonce] /\ leaf # None)
    <3>1. CASE active' = active \cup {m}
      BY <1>3, <1>6, <3>1
    <3>2. CASE Answer(m, Prepared(m) /\ nonces[m.bench][m.nonce] # None,
                      IF Prepared(m) THEN nonces[m.bench][m.nonce] ELSE None)
      <4>1. (Prepared(m) /\ nonces[m.bench][m.nonce] # None) \in BOOLEAN
        BY DEF Prepared
      <4>2. (IF Prepared(m) THEN nonces[m.bench][m.nonce] ELSE None) \in Leaves \cup {None}
        BY <2>1
      <4> QED
        BY <3>2, <4>1, <4>2
    <3> QED
      BY <1>2, <3>1, <3>2 DEF TakeCompute
  <2>3. /\ OnePlace' /\ Addressed' /\ ProcessAndSession'
        /\ events' \in Seq(Event) /\ replies' \subseteq Reply
        /\ helper' \in {"serving", "leaving"}
        /\ Requests' = Requests \ {m} /\ UnderWay' \subseteq UnderWay
        /\ \A r \in replies' : r \in replies \/ (r.to = m /\ r.ok = ok /\ r.leaf = leaf)
    BY <1>1, <1>2, <1>6, <2>2, RequestAnswered
  <2>4. HelperTypeOK'
    BY <1>0, <1>1, <1>6, <2>3 DEF HelperTypeOK, StoreTypeOK, evidenceVars
  <2>5. RuntimeKept'
    BY <1>0, <1>1, <1>6, <2>3 DEF RuntimeKept
  <2>6. RepliesSaved'
    BY <1>0, <1>1, <1>4, <2>2, <2>3 DEF RepliesSaved, evidenceVars
  <2>7. Effect
    BY <1>1, <1>3, <1>6, <2>3 DEF Effect, evidenceVars
  <2> QED
    BY <2>3, <2>4, <2>5, <2>6, <2>7 DEF HelperInv
<1> QED
  BY <1>2, <1>5, <1>6 DEF TakeCompute

-----------------------------------------------------------------------------
(* The other events of the queue.                                          *)

\* An output is saved before it is sent, and never replaces another one.
LEMMA Completes ==
  ASSUME HelperInv, TakeComplete
  PROVE  HelperInv' /\ Effect
<1>0. HelperTypeOK /\ RuntimeKept /\ RepliesSaved /\ OnePlace /\ Addressed /\ ProcessAndSession
  BY DEF HelperInv
<1>1. /\ UNCHANGED <<assignments, runtimes, reading, closing, running, prepared, attached, inbox>>
      /\ helper = "serving" /\ events # <<>> /\ Taken
  BY DEF TakeComplete, Serving
<1>2. PICK e : e = Head(events)
  OBVIOUS
<1>3. PICK m, leaf : m = e.of /\ leaf = e.leaf
  OBVIOUS
<1>4. PICK saves \in BOOLEAN : saves = (leaf # None /\ nonces[m.bench][m.nonce] \in {None, leaf})
  OBVIOUS
<1>5. /\ e.kind = "complete" /\ active' = active \ {m}
      /\ IF saves THEN SaveNonce(m.bench, m.nonce, leaf) ELSE UNCHANGED nonces
      /\ IF closing THEN NoAnswer ELSE Answer(m, saves, IF saves THEN leaf ELSE None)
  BY <1>2, <1>3, <1>4 DEF TakeComplete, Popped, SaveCompletion
<1>6. /\ events' \in Seq(Event) /\ QueueOnce'
      /\ e \in Event /\ m \in Of("complete")
      /\ Of("complete")' = Of("complete") \ {m} /\ Of("request")' = Of("request")
      /\ Of("input_error")' \subseteq Of("input_error")
  BY <1>0, <1>1, <1>2, <1>3, <1>5, EventTaken DEF HelperTypeOK, OnePlace
<1>7. /\ m \in active /\ m \notin running /\ m \in Message
      /\ m.bench \in Benchmarks /\ m.nonce \in Nonces /\ m.op = "compute"
      /\ leaf \in Leaves \cup {None} /\ m \notin Requests /\ m \notin AnsweredTo
  BY <1>0, <1>3, <1>6 DEF OnePlace, Addressed, HelperTypeOK, Message, Event
<1>8. Unread' = Unread /\ LinesOnce' /\ Requests' = Requests
  BY <1>0, <1>1, <1>6 DEF Unread, OnePlace, LinesOnce, Requests
<1>9. /\ replies' \subseteq Reply /\ helper' \in {"serving", "leaving"}
      /\ attached => helper' = "serving"
      /\ ~attached => replies' = {}
      /\ AnsweredTo' \subseteq AnsweredTo \cup {m}
      /\ \A r \in replies' :
            r \in replies \/ (r.to = m /\ r.ok = saves /\ (saves => r.leaf = leaf))
      /\ \A r, s \in replies' : r.to = s.to => r = s
  <2>1. CASE closing
    BY <1>0, <1>1, <1>5, <2>1 DEF NoAnswer, HelperTypeOK, ProcessAndSession, OnePlace, AnsweredTo
  <2>2. CASE ~closing
    <3>1. PICK sent \in Leaves \cup {None} : sent = IF saves THEN leaf ELSE None
      BY <1>7
    <3> QED
      BY <1>1, <1>5, <1>7, <2>2, <3>1, Replied
  <2> QED
    BY <2>1, <2>2
<1>10. OnePlace'
  BY <1>0, <1>1, <1>5, <1>6, <1>7, <1>8, <1>9 DEF OnePlace
<1>11. Addressed'
  BY <1>0, <1>5, <1>6, <1>8 DEF Addressed
<1>12. RuntimeKept'
  BY <1>0, <1>1, <1>8 DEF RuntimeKept
<1>13. ProcessAndSession'
  BY <1>0, <1>1, <1>6, <1>9 DEF ProcessAndSession
<1>14. nonces \in [Benchmarks -> [Nonces -> Leaves \cup {None}]]
  BY <1>0 DEF HelperTypeOK, StoreTypeOK
<1>15. /\ nonces' \in [Benchmarks -> [Nonces -> Leaves \cup {None}]]
       /\ \A b \in Benchmarks, n \in Nonces :
            nonces'[b][n] = nonces[b][n] \/ (nonces[b][n] = None /\ b = m.bench)
       /\ saves => nonces'[m.bench][m.nonce] = leaf
  <2>1. CASE saves
    BY <1>4, <1>5, <1>7, <1>14, <2>1 DEF SaveNonce
  <2>2. CASE ~saves
    BY <1>5, <1>14, <2>2
  <2> QED
    BY <2>1, <2>2
<1>16. HelperTypeOK'
  BY <1>0, <1>1, <1>5, <1>6, <1>9, <1>15 DEF HelperTypeOK, StoreTypeOK
<1>17. RepliesSaved'
  <2> SUFFICES ASSUME NEW r \in replies', r.ok, r.to.op = "compute"
               PROVE  /\ r.to.bench # None /\ r.to.nonce # None /\ r.leaf # None
                      /\ nonces'[r.to.bench][r.to.nonce] = r.leaf
    BY DEF RepliesSaved
  <2>1. CASE r \in replies
    <3>1. /\ r.to.bench # None /\ r.to.nonce # None /\ r.leaf # None
          /\ nonces[r.to.bench][r.to.nonce] = r.leaf
      BY <1>0, <2>1 DEF RepliesSaved
    <3>2. r.to.bench \in Benchmarks /\ r.to.nonce \in Nonces
      BY <1>0, <2>1, <3>1 DEF HelperTypeOK, Reply, Message
    <3> QED
      BY <1>15, <3>1, <3>2
  <2>2. CASE r.to = m /\ r.ok = saves /\ (saves => r.leaf = leaf)
    <3>1. leaf # None /\ r.leaf = leaf
      BY <1>4, <2>2
    <3>2. m.bench # None /\ m.nonce # None
      BY <1>0, <1>7 DEF Addressed
    <3> QED
      BY <1>15, <2>2, <3>1, <3>2
  <2> QED
    BY <1>9, <2>1, <2>2
<1>18. Effect
  <2>1. UnderWay' \subseteq UnderWay /\ active' \subseteq active
    BY <1>5, <1>7, <1>8, <1>9 DEF UnderWay
  <2>2. \A b \in Benchmarks, n \in Nonces :
           \/ nonces'[b][n] = nonces[b][n]
           \/ nonces[b][n] = None /\ \E k \in active : k.bench = b
    BY <1>7, <1>15
  <2>3. \A r \in replies' : r \in replies \/ r.to.op # "prepare"
    BY <1>7, <1>9
  <2> QED
    BY <1>1, <1>8, <2>1, <2>2, <2>3 DEF Effect
<1> QED
  BY <1>10, <1>11, <1>12, <1>13, <1>16, <1>17 , <1>18 DEF HelperInv

\* The input has ended, or a request came too late.
LEMMA EndsAndDrops ==
  ASSUME HelperInv, TakeEnd \/ DropRequest
  PROVE  HelperInv' /\ Effect
<1>0. HelperTypeOK /\ RuntimeKept /\ RepliesSaved /\ OnePlace /\ Addressed /\ ProcessAndSession
  BY DEF HelperInv
<1>1. /\ UNCHANGED <<evidenceVars, runtimes, reading, active, running, prepared, attached, inbox, replies>>
      /\ helper = "serving" /\ events # <<>> /\ Taken
      /\ closing' \in {closing, TRUE} /\ helper' \in {"serving", "leaving"}
  BY DEF TakeEnd, DropRequest, Serving, OutputKept
<1>2. PICK e : e = Head(events)
  OBVIOUS
<1>3. /\ events' \in Seq(Event) /\ QueueOnce'
      /\ e \in Event /\ e.of \in Of(e.kind) /\ e.kind # "complete"
      /\ Of("request")' \subseteq Of("request")
      /\ Of("complete")' = Of("complete")
      /\ Of("input_error")' \subseteq Of("input_error")
  <2>1. e.kind # "complete"
    BY <1>2 DEF TakeEnd, DropRequest
  <2> QED
    BY <1>0, <1>1, <1>2, <2>1, EventTaken DEF HelperTypeOK, OnePlace
<1>4. attached => helper' = "serving"
  BY <1>0, <1>1, <1>2, <1>3 DEF TakeEnd, DropRequest, ProcessAndSession
<1>5. Unread' = Unread /\ LinesOnce' /\ AnsweredTo' = AnsweredTo /\ Requests' \subseteq Requests
  BY <1>0, <1>1, <1>3 DEF Unread, OnePlace, LinesOnce, Requests, AnsweredTo
<1>6. OnePlace'
  BY <1>0, <1>1, <1>3, <1>5 DEF OnePlace
<1>7. Addressed' /\ RuntimeKept'
  BY <1>0, <1>1, <1>3, <1>5 DEF Addressed, RuntimeKept
<1>8. ProcessAndSession'
  BY <1>0, <1>1, <1>3, <1>4 DEF ProcessAndSession
<1>9. HelperTypeOK' /\ RepliesSaved'
  BY <1>0, <1>1, <1>3 DEF HelperTypeOK, StoreTypeOK, RepliesSaved, evidenceVars
<1>10. Effect
  BY <1>1, <1>5 DEF Effect, UnderWay, evidenceVars
<1> QED
  BY <1>6, <1>7, <1>8, <1>9, <1>10 DEF HelperInv

-----------------------------------------------------------------------------
(* The threads that feed the queue.                                        *)

LEMMA Reads ==
  ASSUME HelperInv, ReadRequest
  PROVE  HelperInv' /\ Effect
<1>0. HelperTypeOK /\ RuntimeKept /\ RepliesSaved /\ OnePlace /\ Addressed /\ ProcessAndSession
  BY DEF HelperInv
<1>1. /\ UNCHANGED <<evidenceVars, runtimes, helper, reading, closing, active, running, prepared,
                     attached, replies>>
      /\ inbox # <<>> /\ inbox' = Tail(inbox)
  BY DEF ReadRequest, OutputKept
<1>2. PICK m : m = Head(inbox)
  OBVIOUS
<1>3. inbox' \in Seq(Message) /\ LinesOnce' /\ m \in Unread /\ m \in Message /\ Unread' = Unread \ {m}
  BY <1>0, <1>1, <1>2, LineRead DEF HelperTypeOK, OnePlace
<1>4. m \notin Of("request") /\ m \notin active /\ m \notin AnsweredTo
  BY <1>0, <1>3 DEF OnePlace, Requests
<1>5. PICK e \in Event : events' = Append(events, e) /\ e.kind = "request" /\ e.of = m
  <2>1. [kind |-> "request", of |-> m, leaf |-> None] \in Event
    BY <1>3 DEF Event
  <2> QED
    BY <1>2, <2>1 DEF ReadRequest, Queued
<1>6. events' \in Seq(Event) /\ QueueOnce'
      /\ Of("request")' = Of("request") \cup {m} /\ Of("complete")' = Of("complete")
      /\ Of("input_error")' = Of("input_error")
  <2>1. e.kind \in {"request", "complete"} => e.of \notin Of(e.kind)
    BY <1>4, <1>5
  <2>2. events \in Seq(Event) /\ QueueOnce
    BY <1>0 DEF HelperTypeOK, OnePlace
  <2>3. /\ events' \in Seq(Event) /\ QueueOnce'
        /\ \A kind : Of(kind)' = Of(kind) \cup (IF e.kind = kind THEN {e.of} ELSE {})
    BY <1>5, <2>1, <2>2, EventQueued
  <2> QED
    BY <1>5, <2>3
<1>7. Requests' = Requests /\ AnsweredTo' = AnsweredTo
  BY <1>1, <1>3, <1>6 DEF Requests, AnsweredTo
<1>8. OnePlace'
  BY <1>0, <1>1, <1>3, <1>4, <1>6, <1>7 DEF OnePlace
<1>9. Addressed' /\ RuntimeKept'
  BY <1>0, <1>1, <1>3, <1>6, <1>7 DEF Addressed, RuntimeKept
<1>10. ProcessAndSession' /\ RepliesSaved'
  BY <1>0, <1>1, <1>6 DEF ProcessAndSession, RepliesSaved, evidenceVars
<1>11. HelperTypeOK'
  BY <1>0, <1>1, <1>3, <1>6 DEF HelperTypeOK, StoreTypeOK, evidenceVars
<1>12. Effect
  BY <1>1, <1>7 DEF Effect, UnderWay, evidenceVars
<1> QED
  BY <1>8, <1>9, <1>10, <1>11, <1>12 DEF HelperInv

\* The end of the input: whatever was not read is lost.
LEMMA ReadsEnd ==
  ASSUME HelperInv, ReadEnd \/ Signalled
  PROVE  HelperInv' /\ Effect
<1>0. HelperTypeOK /\ RuntimeKept /\ RepliesSaved /\ OnePlace /\ Addressed /\ ProcessAndSession
  BY DEF HelperInv
<1>1. /\ UNCHANGED <<evidenceVars, runtimes, helper, closing, active, running, prepared,
                     attached, replies>>
      /\ reading' = FALSE \/ reading' = reading
  BY DEF ReadEnd, Signalled, OutputKept
<1>2. inbox' \in Seq(Message) /\ LinesOnce' /\ Unread' \subseteq Unread
  <2>1. CASE ReadEnd
    BY <2>1, NothingWritten DEF ReadEnd
  <2>2. CASE Signalled
    BY <1>0, <2>2 DEF Signalled, HelperTypeOK, OnePlace, LinesOnce, Unread
  <2> QED
    BY <2>1, <2>2
<1> DEFINE End(kind) == [kind |-> kind, of |-> None, leaf |-> None]
<1>3. End("eof") \in Event /\ End("input_error") \in Event
  BY DEF Event
<1>4. /\ events' \in Seq(Event) /\ QueueOnce' /\ Of("request")' = Of("request")
      /\ Of("complete")' = Of("complete") /\ (attached => Of("input_error")' = Of("input_error"))
  <2>1. PICK e1, e2 : e1 = End("eof") /\ e2 = End("input_error")
    OBVIOUS
  <2>2. e1 \in Event /\ e2 \in Event /\ e1.kind = "eof" /\ e2.kind = "input_error"
    BY <1>3, <2>1
  <2>3. \/ events' = Append(events, e1)
        \/ events' = Append(Append(events, e2), e1) /\ ~attached
    BY <2>1 DEF ReadEnd, Signalled, Queued
  <2>4. CASE events' = Append(events, e1)
    <3>1. events \in Seq(Event) /\ QueueOnce
      BY <1>0 DEF HelperTypeOK, OnePlace
    <3>2. /\ events' \in Seq(Event) /\ QueueOnce'
          /\ \A kind : Of(kind)' = Of(kind) \cup (IF e1.kind = kind THEN {e1.of} ELSE {})
      BY <2>2, <2>4, <3>1, EventQueued
    <3> QED
      BY <2>2, <3>2
  <2>5. CASE events' = Append(Append(events, e2), e1) /\ ~attached
    <3>1. PICK q : q = Append(events, e2)
      OBVIOUS
    <3>2. events \in Seq(Event)
      BY <1>0 DEF HelperTypeOK
    <3>3. /\ q \in Seq(Event) /\ Len(events) + 1 \in DOMAIN q /\ Len(events) + 1 \notin DOMAIN events
          /\ q[Len(events) + 1] = e2
          /\ DOMAIN q = DOMAIN events \cup {Len(events) + 1}
          /\ \A j \in DOMAIN events : q[j] = events[j]
      BY <2>2, <3>1, <3>2, AppendOf
    <3>4. /\ events' \in Seq(Event) /\ Len(q) + 1 \in DOMAIN events' /\ Len(q) + 1 \notin DOMAIN q
          /\ events'[Len(q) + 1] = e1
          /\ DOMAIN events' = DOMAIN q \cup {Len(q) + 1}
          /\ \A j \in DOMAIN q : events'[j] = q[j]
      BY <2>2, <2>5, <3>1, <3>3, AppendOf
    <3>5. \A j \in DOMAIN events' :
            events'[j].kind \in {"request", "complete"} => j \in DOMAIN events /\ events'[j] = events[j]
      BY <2>2, <3>3, <3>4
    <3>6. \A j \in DOMAIN events : j \in DOMAIN events' /\ events'[j] = events[j]
      BY <3>3, <3>4
    <3>7. QueueOnce'
      BY <1>0, <3>5 DEF QueueOnce, OnePlace
    <3>8. \A kind \in {"request", "complete"} : Of(kind)' = Of(kind)
      BY <3>5, <3>6 DEF Of
    <3> QED
      BY <2>5, <3>4, <3>7, <3>8
  <2> QED
    BY <2>3, <2>4, <2>5
<1>5. Requests' \subseteq Requests /\ AnsweredTo' = AnsweredTo
  BY <1>1, <1>2, <1>4 DEF Requests, AnsweredTo
<1>6. OnePlace'
  BY <1>0, <1>1, <1>2, <1>4, <1>5 DEF OnePlace
<1>7. Addressed' /\ RuntimeKept'
  BY <1>0, <1>1, <1>4, <1>5 DEF Addressed, RuntimeKept
<1>8. ProcessAndSession' /\ RepliesSaved'
  <2>1. ~reading => ~reading'
    BY <1>1
  <2>2. ProcessAndSession'
    BY <1>0, <1>1, <1>4, <2>1 DEF ProcessAndSession
  <2> QED
    BY <1>0, <1>1, <2>2 DEF RepliesSaved, evidenceVars
<1>9. HelperTypeOK'
  <2>1. reading' \in BOOLEAN
    BY <1>0, <1>1 DEF HelperTypeOK
  <2> QED
    BY <1>0, <1>1, <1>2, <2>1, <1>4 DEF HelperTypeOK, StoreTypeOK, evidenceVars
<1>10. Effect
  BY <1>1, <1>5 DEF Effect, UnderWay, evidenceVars
<1> QED
  BY <1>6, <1>7, <1>8, <1>9, <1>10 DEF HelperInv

LEMMA ThreadCompletes ==
  ASSUME HelperInv, NEW m, NEW leaf \in Leaves \cup {None}, Computed(m, leaf)
  PROVE  HelperInv' /\ Effect
<1>0. HelperTypeOK /\ RuntimeKept /\ RepliesSaved /\ OnePlace /\ Addressed /\ ProcessAndSession
  BY DEF HelperInv
<1>1. /\ UNCHANGED <<evidenceVars, runtimes, helper, reading, closing, active, prepared,
                     attached, inbox, replies>>
      /\ m \in running /\ running' = running \ {m}
  BY DEF Computed, OutputKept
<1>2. m \in Message /\ m \in active /\ m \notin Of("complete")
  BY <1>0, <1>1 DEF HelperTypeOK, OnePlace
<1>3. PICK e \in Event : events' = Append(events, e) /\ e.kind = "complete" /\ e.of = m
  <2>1. [kind |-> "complete", of |-> m, leaf |-> leaf] \in Event
    BY <1>2 DEF Event
  <2> QED
    BY <2>1 DEF Computed, Queued
<1>4. events' \in Seq(Event) /\ QueueOnce'
      /\ Of("request")' = Of("request") /\ Of("complete")' = Of("complete") \cup {m}
      /\ Of("input_error")' = Of("input_error")
  <2>1. e.kind \in {"request", "complete"} => e.of \notin Of(e.kind)
    BY <1>2, <1>3
  <2>2. events \in Seq(Event) /\ QueueOnce
    BY <1>0 DEF HelperTypeOK, OnePlace
  <2>3. /\ events' \in Seq(Event) /\ QueueOnce'
        /\ \A kind : Of(kind)' = Of(kind) \cup (IF e.kind = kind THEN {e.of} ELSE {})
    BY <1>3, <2>1, <2>2, EventQueued
  <2> QED
    BY <1>3, <2>3
<1>5. Unread' = Unread /\ LinesOnce' /\ Requests' = Requests /\ AnsweredTo' = AnsweredTo
  BY <1>0, <1>1, <1>4 DEF Unread, OnePlace, LinesOnce, Requests, AnsweredTo
<1>6. OnePlace'
  BY <1>0, <1>1, <1>2, <1>4, <1>5 DEF OnePlace
<1>7. Addressed' /\ RuntimeKept'
  BY <1>0, <1>1, <1>4, <1>5 DEF Addressed, RuntimeKept
<1>8. ProcessAndSession' /\ RepliesSaved'
  BY <1>0, <1>1, <1>4 DEF ProcessAndSession, RepliesSaved, evidenceVars
<1>9. HelperTypeOK'
  BY <1>0, <1>1, <1>4 DEF HelperTypeOK, StoreTypeOK, evidenceVars
<1>10. Effect
  BY <1>1, <1>5 DEF Effect, UnderWay, evidenceVars
<1> QED
  BY <1>6, <1>7, <1>8, <1>9, <1>10 DEF HelperInv

-----------------------------------------------------------------------------
(* The end of the process.                                                 *)

LEMMA LoopEnds ==
  ASSUME HelperInv, Leave
  PROVE  HelperInv' /\ Effect
<1>0. HelperTypeOK /\ RuntimeKept /\ RepliesSaved /\ OnePlace /\ Addressed /\ ProcessAndSession
  BY DEF HelperInv
<1>1. /\ UNCHANGED <<evidenceVars, runtimes, reading, events, closing, active, running, prepared,
                     attached, inbox, replies>>
      /\ helper = "serving" /\ helper' = "leaving" /\ active = {}
  BY DEF Leave, OutputKept
<1>2. OnePlace' /\ UnderWay' = UnderWay /\ Requests' = Requests /\ \A kind : Of(kind)' = Of(kind)
  BY <1>0, <1>1 DEF OnePlace, LinesOnce, QueueOnce, Unread, Of, Requests, AnsweredTo, UnderWay
<1>3. Addressed' /\ RuntimeKept'
  BY <1>0, <1>1, <1>2 DEF Addressed, RuntimeKept
<1>4. ProcessAndSession' /\ RepliesSaved'
  BY <1>0, <1>1, <1>2 DEF ProcessAndSession, RepliesSaved, evidenceVars
<1>5. HelperTypeOK'
  BY <1>0, <1>1 DEF HelperTypeOK, StoreTypeOK, evidenceVars
<1>6. Effect
  BY <1>1, <1>2 DEF Effect, evidenceVars
<1> QED
  BY <1>2, <1>3, <1>4, <1>5, <1>6 DEF HelperInv

LEMMA Exits ==
  ASSUME HelperInv, Exit \/ ExitFails
  PROVE  HelperInv' /\ Effect
<1>0. HelperTypeOK /\ RuntimeKept /\ RepliesSaved /\ OnePlace /\ Addressed /\ ProcessAndSession
  BY DEF HelperInv
<1>1. /\ UNCHANGED <<evidenceVars, events, closing, active, running>>
      /\ runtimes' \subseteq runtimes /\ running = {}
      /\ helper' = "off" /\ prepared' = None /\ reading' = FALSE /\ inbox' = <<>>
      /\ attached' = FALSE /\ replies' = {}
  BY DEF Exit, ExitFails, OutputKept, Detached, ThreadsDone, Cleaned
<1>2. LinesOnce' /\ inbox' \in Seq(Message) /\ Unread' = {}
  BY <1>1, NothingWritten
<1>3. (\A kind : Of(kind)' = Of(kind)) /\ QueueOnce'
  BY <1>0, <1>1 DEF Of, QueueOnce, OnePlace
<1>4. AnsweredTo' = {} /\ Requests' \subseteq Requests
  BY <1>1, <1>2, <1>3 DEF AnsweredTo, Requests
<1>5. OnePlace'
  BY <1>0, <1>1, <1>2, <1>3, <1>4 DEF OnePlace
<1>6. Addressed' /\ RuntimeKept'
  BY <1>0, <1>1, <1>3, <1>4 DEF Addressed, RuntimeKept
<1>7. ProcessAndSession' /\ RepliesSaved'
  BY <1>1 DEF ProcessAndSession, RepliesSaved
<1>8. HelperTypeOK'
  BY <1>0, <1>1, <1>2 DEF HelperTypeOK, StoreTypeOK, evidenceVars
<1>9. Effect
  BY <1>1, <1>4 DEF Effect, UnderWay, evidenceVars
<1> QED
  BY <1>5, <1>6, <1>7, <1>8, <1>9 DEF HelperInv

LEMMA Dies ==
  ASSUME HelperInv, Killed
  PROVE  HelperInv' /\ Effect
<1>0. HelperTypeOK
  BY DEF HelperInv
<1>1. /\ UNCHANGED <<evidenceVars, runtimes>>
      /\ helper' = "off" /\ prepared' = None /\ reading' = FALSE /\ inbox' = <<>>
      /\ events' = <<>> /\ closing' = FALSE /\ active' = {} /\ running' = {}
      /\ attached' = FALSE /\ replies' = {}
  BY DEF Killed, OutputKept, Detached
<1>2. LinesOnce' /\ inbox' \in Seq(Message) /\ Unread' = {}
  BY <1>1, NothingWritten
<1>3. (\A kind : Of(kind)' = {}) /\ QueueOnce' /\ events' \in Seq(Event)
  BY <1>1, NothingQueued
<1>4. AnsweredTo' = {} /\ Requests' = {}
  BY <1>1, <1>2, <1>3 DEF AnsweredTo, Requests
<1>5. OnePlace' /\ Addressed' /\ RuntimeKept'
  BY <1>1, <1>2, <1>3, <1>4 DEF OnePlace, Addressed, RuntimeKept
<1>6. ProcessAndSession' /\ RepliesSaved'
  BY <1>1 DEF ProcessAndSession, RepliesSaved
<1>7. HelperTypeOK'
  BY <1>0, <1>1, <1>2, <1>3 DEF HelperTypeOK, StoreTypeOK, evidenceVars
<1>8. Effect
  BY <1>1, <1>4 DEF Effect, UnderWay, evidenceVars
<1> QED
  BY <1>5, <1>6, <1>7, <1>8 DEF HelperInv

\* Every step of the helper, with every failure of it.
LEMMA HelperSteps ==
  ASSUME HelperInv,
         \/ ServeStep \/ Reading \/ \E m \in running : Computing(m)
         \/ Killed \/ Signalled \/ \E m \in running : Computed(m, None)
         \/ TakePrepareFails \/ TakeReleaseFails \/ ExitFails
  PROVE  HelperInv' /\ Effect
BY Inquires, Prepares, Releases, Computes, Completes, EndsAndDrops, Reads, ReadsEnd,
   ThreadCompletes, LoopEnds, Exits, Dies DEF ServeStep, Reading, Computing

-----------------------------------------------------------------------------
(* A helper that goes on serving its master forgets nothing of the session. *)

Remembers ==
    attached' /\ ~closing' /\ helper' = "serving" =>
        attached /\ ~closing /\ helper = "serving" /\ UnderWay \subseteq UnderWay'

\* The request in hand is answered, if the session lasts.
LEMMA AnswerKept ==
  ASSUME HelperInv, NEW m \in Message, NEW ok \in BOOLEAN, NEW leaf, Answer(m, ok, leaf),
         attached
  PROVE  m \in AnsweredTo' /\ AnsweredTo \subseteq AnsweredTo' /\ helper' = helper
<1>1. PICK new : new = [to |-> m, ok |-> ok, leaf |-> leaf]
  OBVIOUS
<1>2. replies' = replies \cup {new} /\ new.to = m /\ helper' = helper
  BY <1>1 DEF Answer
<1> QED
  BY <1>2 DEF AnsweredTo

LEMMA RequestRemembered ==
  ASSUME HelperInv, NothingIdle, NEW op, Request(op), NEW m, m = Head(events).of,
         NEW ok \in BOOLEAN, NEW leaf, Answer(m, ok, leaf), UNCHANGED <<active, running>>
  PROVE  NothingIdle' /\ Remembers
<1>1. /\ m \in Message /\ Of("complete")' = Of("complete") /\ Requests' = Requests \ {m}
      /\ helper = "serving"
  BY RequestTaken
<1>2. UNCHANGED <<reading, closing, attached>> /\ ~closing
  BY DEF Request
<1>3. NothingIdle'
  BY <1>1, <1>2 DEF NothingIdle
<1>4. attached => m \in AnsweredTo' /\ AnsweredTo \subseteq AnsweredTo'
  BY <1>1, AnswerKept
<1> QED
  BY <1>1, <1>2, <1>3, <1>4 DEF Remembers, UnderWay

LEMMA ComputationRemembered ==
  ASSUME HelperInv, NothingIdle, TakeCompute
  PROVE  NothingIdle' /\ Remembers
<1>1. Request("compute")
  BY DEF TakeCompute
<1>2. PICK m : m = Head(events).of
  OBVIOUS
<1>3. /\ m \in Message /\ Of("complete")' = Of("complete") /\ Requests' = Requests \ {m}
      /\ helper = "serving"
  BY <1>1, <1>2, RequestTaken
<1>4. CASE active' = active \cup {m} /\ running' = running \cup {m} /\ NoAnswer
  <2>1. UNCHANGED <<reading, closing, attached>> /\ ~closing
    BY <1>1 DEF Request
  <2>2. AnsweredTo' = AnsweredTo
    BY <1>4 DEF NoAnswer, AnsweredTo
  <2> QED
    BY <1>3, <1>4, <2>1, <2>2 DEF NothingIdle, Remembers, UnderWay
<1>5. CASE UNCHANGED <<active, running>> /\ \E ok \in BOOLEAN : \E leaf : Answer(m, ok, leaf)
  BY <1>1, <1>2, <1>5, RequestRemembered
<1>6. (Prepared(m) /\ nonces[m.bench][m.nonce] # None) \in BOOLEAN
  OBVIOUS
<1> QED
  BY <1>2, <1>4, <1>5, <1>6 DEF TakeCompute

LEMMA CompletionRemembered ==
  ASSUME HelperInv, NothingIdle, TakeComplete
  PROVE  NothingIdle' /\ Remembers
<1>0. HelperTypeOK /\ OnePlace
  BY DEF HelperInv
<1>1. /\ UNCHANGED <<reading, closing, running, attached, inbox>>
      /\ helper = "serving" /\ events # <<>> /\ Taken
  BY DEF TakeComplete, Serving
<1>2. PICK e : e = Head(events)
  OBVIOUS
<1>3. PICK m : m = e.of
  OBVIOUS
<1>4. /\ e.kind = "complete" /\ active' = active \ {m}
      /\ ~closing => \E ok \in BOOLEAN : \E leaf : Answer(m, ok, leaf)
  <2>1. PICK saves \in BOOLEAN : saves = (e.leaf # None /\ nonces[m.bench][m.nonce] \in {None, e.leaf})
    OBVIOUS
  <2> QED
    BY <1>2, <1>3, <2>1 DEF TakeComplete, Popped
<1>5. /\ m \in Of("complete")
      /\ Of("complete")' = Of("complete") \ {m} /\ Of("request")' = Of("request")
  BY <1>0, <1>1, <1>2, <1>3, <1>4, EventTaken DEF HelperTypeOK, OnePlace
<1>6. m \in Message /\ m \notin running
  BY <1>0, <1>5 DEF OnePlace, HelperTypeOK
<1>7. NothingIdle'
  BY <1>1, <1>4, <1>5, <1>6 DEF NothingIdle
<1>8. Requests' = Requests
  BY <1>1, <1>5 DEF Requests, Unread
<1>9. attached /\ ~closing => m \in AnsweredTo' /\ AnsweredTo \subseteq AnsweredTo'
  BY <1>4, <1>6, AnswerKept
<1> QED
  BY <1>1, <1>4, <1>7, <1>8, <1>9 DEF Remembers, UnderWay

\* The other events, and the threads that queue them.
LEMMA EndRemembered ==
  ASSUME HelperInv, NothingIdle, TakeEnd \/ DropRequest
  PROVE  NothingIdle' /\ Remembers
<1>0. HelperTypeOK /\ OnePlace
  BY DEF HelperInv
<1>1. /\ UNCHANGED <<reading, active, running, attached>> /\ events # <<>> /\ Taken
      /\ Head(events).kind # "complete" /\ (closing' \/ helper' = "leaving")
  BY DEF TakeEnd, DropRequest, Serving
<1>2. PICK e : e = Head(events)
  OBVIOUS
<1>3. Of("complete")' = Of("complete")
  BY <1>0, <1>1, <1>2, EventTaken DEF HelperTypeOK, OnePlace
<1> QED
  BY <1>1, <1>3 DEF NothingIdle, Remembers

LEMMA LineRemembered ==
  ASSUME HelperInv, NothingIdle, ReadRequest
  PROVE  NothingIdle' /\ Remembers
<1>0. HelperTypeOK /\ OnePlace
  BY DEF HelperInv
<1>1. /\ UNCHANGED <<helper, reading, closing, active, running, attached, replies>>
      /\ inbox # <<>> /\ inbox' = Tail(inbox)
  BY DEF ReadRequest
<1>2. PICK m : m = Head(inbox)
  OBVIOUS
<1>3. m \in Unread /\ m \in Message /\ Unread' = Unread \ {m}
  BY <1>0, <1>1, <1>2, LineRead DEF HelperTypeOK, OnePlace
<1>4. PICK e \in Event : events' = Append(events, e) /\ e.kind = "request" /\ e.of = m
  <2>1. [kind |-> "request", of |-> m, leaf |-> None] \in Event
    BY <1>3 DEF Event
  <2> QED
    BY <1>2, <2>1 DEF ReadRequest, Queued
<1>5. Of("request")' = Of("request") \cup {m} /\ Of("complete")' = Of("complete")
  <2>1. e.of \notin Of(e.kind) /\ events \in Seq(Event) /\ QueueOnce
    BY <1>0, <1>3, <1>4 DEF HelperTypeOK, OnePlace
  <2>2. \A kind : Of(kind)' = Of(kind) \cup (IF e.kind = kind THEN {e.of} ELSE {})
    BY <1>4, <2>1, EventQueued
  <2> QED
    BY <1>4, <2>2
<1>6. UnderWay' = UnderWay
  BY <1>1, <1>3, <1>5 DEF UnderWay, Requests, AnsweredTo
<1> QED
  BY <1>1, <1>5, <1>6 DEF NothingIdle, Remembers

LEMMA CompletedRemembered ==
  ASSUME HelperInv, NothingIdle, NEW m, NEW leaf \in Leaves \cup {None}, Computed(m, leaf)
  PROVE  NothingIdle' /\ Remembers
<1>0. HelperTypeOK /\ OnePlace
  BY DEF HelperInv
<1>1. /\ UNCHANGED <<helper, reading, closing, active, attached, inbox, replies>>
      /\ m \in running /\ running' = running \ {m}
  BY DEF Computed
<1>2. m \in Message /\ m \notin Of("complete")
  BY <1>0, <1>1 DEF HelperTypeOK, OnePlace
<1>3. PICK e \in Event : events' = Append(events, e) /\ e.kind = "complete" /\ e.of = m
  <2>1. [kind |-> "complete", of |-> m, leaf |-> leaf] \in Event
    BY <1>2 DEF Event
  <2> QED
    BY <2>1 DEF Computed, Queued
<1>4. Of("request")' = Of("request") /\ Of("complete")' = Of("complete") \cup {m}
  <2>1. e.of \notin Of(e.kind) /\ events \in Seq(Event) /\ QueueOnce
    BY <1>0, <1>2, <1>3 DEF HelperTypeOK, OnePlace
  <2>2. \A kind : Of(kind)' = Of(kind) \cup (IF e.kind = kind THEN {e.of} ELSE {})
    BY <1>3, <2>1, EventQueued
  <2> QED
    BY <1>3, <2>2
<1>5. UnderWay' = UnderWay
  BY <1>1, <1>4 DEF UnderWay, Requests, Unread, AnsweredTo
<1> QED
  BY <1>1, <1>4, <1>5 DEF NothingIdle, Remembers

LEMMA InputEndRemembered ==
  ASSUME HelperInv, NothingIdle, ReadEnd \/ Signalled
  PROVE  NothingIdle' /\ Remembers
<1>0. events \in Seq(Event)
  BY DEF HelperInv, HelperTypeOK
<1>1. /\ UNCHANGED <<helper, closing, active, running, attached, replies>>
      /\ attached => Signalled /\ UNCHANGED <<inbox, reading>>
  BY DEF ReadEnd, Signalled
<1>2. PICK e1, e2 : /\ e1 = [kind |-> "eof", of |-> None, leaf |-> None]
                    /\ e2 = [kind |-> "input_error", of |-> None, leaf |-> None]
  OBVIOUS
<1>3. e1 \in Event /\ e2 \in Event /\ e1.kind = "eof" /\ e2.kind = "input_error"
  BY <1>2 DEF Event
<1>4. events' = Append(events, e1) \/ events' = Append(Append(events, e2), e1)
  BY <1>2 DEF ReadEnd, Signalled, Queued
<1>5. \A q, e : q \in Seq(Event) /\ e \in Event =>
         Append(q, e) \in Seq(Event) /\ \A j \in DOMAIN q : j \in DOMAIN Append(q, e) /\ Append(q, e)[j] = q[j]
  BY AppendOf
<1>6. \A j \in DOMAIN events : j \in DOMAIN events' /\ events'[j] = events[j]
  BY <1>0, <1>3, <1>4, <1>5
<1>7. \A kind : Of(kind) \subseteq Of(kind)'
  BY <1>6 DEF Of
<1>8. attached => UnderWay \subseteq UnderWay'
  <2>1. attached => Unread' = Unread /\ AnsweredTo' = AnsweredTo /\ active' = active
    BY <1>1 DEF Unread, AnsweredTo
  <2> QED
    BY <1>7, <2>1 DEF UnderWay, Requests
<1> QED
  BY <1>1, <1>7, <1>8 DEF NothingIdle, Remembers

LEMMA ExitRemembered ==
  ASSUME HelperInv, NothingIdle, Leave \/ Exit \/ ExitFails \/ Killed
  PROVE  NothingIdle' /\ Remembers
<1>1. CASE Leave \/ Exit \/ ExitFails
  <2>1. /\ UNCHANGED <<events, active, running>> /\ helper' # "serving"
        /\ (attached' = FALSE \/ UNCHANGED <<attached, reading>>)
    BY <1>1 DEF Leave, Exit, ExitFails, Detached
  <2> QED
    BY <2>1 DEF NothingIdle, Remembers, Of
<1>2. CASE Killed
  BY <1>2 DEF Killed, Detached, NothingIdle, Remembers
<1> QED
  BY <1>1, <1>2

LEMMA HelperRemembers ==
  ASSUME HelperInv, NothingIdle,
         \/ ServeStep \/ Reading \/ \E m \in running : Computing(m)
         \/ Killed \/ Signalled \/ \E m \in running : Computed(m, None)
         \/ TakePrepareFails \/ TakeReleaseFails \/ ExitFails
  PROVE  NothingIdle' /\ Remembers
<1>1. ASSUME TakeInquiry \/ TakePrepare \/ TakeRelease \/ TakePrepareFails \/ TakeReleaseFails
      PROVE  NothingIdle' /\ Remembers
  <2>1. PICK m : m = Head(events).of
    OBVIOUS
  <2>2. /\ \E op : Request(op)
        /\ \E ok \in BOOLEAN : Answer(m, ok, None)
        /\ UNCHANGED <<active, running>>
    BY <1>1, <2>1
    DEF TakeInquiry, TakePrepare, TakeRelease, TakePrepareFails, TakeReleaseFails
  <2> QED
    BY <2>1, <2>2, RequestRemembered
<1> QED
  BY <1>1, ComputationRemembered, CompletionRemembered, EndRemembered, LineRemembered,
     CompletedRemembered, InputEndRemembered, ExitRemembered
  DEF ServeStep, Reading, Computing

-----------------------------------------------------------------------------
(* What the master and the connection do to it.                            *)

\* A line arrives, of a request that is not under way.
LEMMA LineArrives ==
  ASSUME HelperInv, NEW m \in Message, m \notin UnderWay, attached,
         inbox' = Append(inbox, m), OutputKept, UNCHANGED <<process, attached, replies>>,
         m.op \in {"prepare", "compute"} => m.bench # None,
         m.op = "compute" => /\ m.nonce # None /\ prepared \in runtimes \cup {None}
                             /\ \A k \in Requests : k.op # "prepare",
         m.op = "prepare" => \A k \in Requests : k.op # "compute"
  PROVE  /\ HelperInv' /\ Requests' = Requests \cup {m} /\ UnderWay' = UnderWay \cup {m}
<1> USE DEF process
<1>0. HelperTypeOK /\ RuntimeKept /\ RepliesSaved /\ OnePlace /\ Addressed /\ ProcessAndSession
  BY DEF HelperInv
<1>1. m \notin Unread /\ m \notin Of("request") /\ m \notin active /\ m \notin AnsweredTo
  BY DEF UnderWay, Requests
<1>2. inbox' \in Seq(Message) /\ LinesOnce' /\ Unread' = Unread \cup {m}
  BY <1>0, <1>1, LineWritten DEF HelperTypeOK, OnePlace
<1>3. (\A kind : Of(kind)' = Of(kind)) /\ QueueOnce' /\ AnsweredTo' = AnsweredTo
  BY <1>0 DEF Of, QueueOnce, OnePlace, AnsweredTo
<1>4. Requests' = Requests \cup {m}
  BY <1>2, <1>3 DEF Requests
<1>5. OnePlace'
  BY <1>0, <1>1, <1>2, <1>3, <1>4 DEF OnePlace
<1>6. Addressed'
  BY <1>0, <1>3, <1>4 DEF Addressed
<1>7. RuntimeKept'
  BY <1>0, <1>4 DEF RuntimeKept, OutputKept
<1>8. ProcessAndSession' /\ RepliesSaved'
  BY <1>0, <1>3 DEF ProcessAndSession, RepliesSaved, OutputKept, evidenceVars
<1>9. HelperTypeOK'
  BY <1>0, <1>2 DEF HelperTypeOK, StoreTypeOK, OutputKept, evidenceVars
<1>10. UnderWay' = UnderWay \cup {m}
  BY <1>3, <1>4 DEF UnderWay
<1> QED
  BY <1>4, <1>5, <1>6, <1>7, <1>8, <1>9, <1>10 DEF HelperInv

\* A new process with a new session.
LEMMA SessionStarts ==
  ASSUME HelperInv, NEW m \in Message, m.op = "hello", helper = "off",
         Launched, inbox' = <<m>>, OutputKept
  PROVE  HelperInv' /\ UnderWay' = {m} /\ Requests' = {m} /\ active' = {} /\ replies' = {}
<1>0. HelperTypeOK
  BY DEF HelperInv
<1>1. /\ helper' = "serving" /\ attached' = TRUE
      /\ reading' = TRUE /\ events' = <<>>
      /\ closing' = FALSE /\ active' = {} /\ running' = {}
      /\ prepared' = None /\ replies' = {}
  BY DEF Launched
<1>2. inbox' \in Seq(Message) /\ LinesOnce' /\ Unread' = {m}
  <2>1. inbox' \in Seq(Message) /\ DOMAIN inbox' = {1} /\ inbox'[1] = m
    OBVIOUS
  <2> QED
    BY <2>1 DEF LinesOnce, Unread
<1>3. (\A kind : Of(kind)' = {}) /\ QueueOnce' /\ events' \in Seq(Event)
  BY <1>1, NothingQueued
<1>4. AnsweredTo' = {} /\ Requests' = {m} /\ UnderWay' = {m}
  BY <1>1, <1>2, <1>3 DEF AnsweredTo, Requests, UnderWay
<1>5. OnePlace' /\ Addressed' /\ RuntimeKept'
  BY <1>1, <1>2, <1>3, <1>4 DEF OnePlace, Addressed, RuntimeKept
<1>6. ProcessAndSession' /\ RepliesSaved'
  BY <1>1, <1>3 DEF ProcessAndSession, RepliesSaved
<1>7. HelperTypeOK'
  BY <1>0, <1>1, <1>2, <1>3 DEF HelperTypeOK, StoreTypeOK, OutputKept, evidenceVars
<1> QED
  BY <1>1, <1>4, <1>5, <1>6, <1>7 DEF HelperInv

\* Some lines are never written.
LEMMA LinesLost ==
  ASSUME inbox \in Seq(Message), LinesOnce, NEW lost, NotWritten(lost)
  PROVE  inbox' \in Seq(Message) /\ LinesOnce' /\ Unread' \subseteq Unread
<1> DEFINE kept == {j \in DOMAIN inbox : inbox[j] \notin lost}
<1>1. PICK place \in [1 .. Cardinality(kept) -> kept] :
        /\ \A i, j \in DOMAIN place : i < j => place[i] < place[j]
        /\ inbox' = [j \in DOMAIN place |-> inbox[place[j]]]
  BY DEF NotWritten
<1>2. Cardinality(kept) \in Nat
  <2>1. IsFiniteSet(1 .. Len(inbox)) /\ kept \in SUBSET (1 .. Len(inbox))
    BY FS_Interval
  <2>2. IsFiniteSet(kept)
    BY <2>1, FS_Subset
  <2> QED
    BY <2>2, FS_CardinalityType
<1> HIDE DEF kept
<1>3. DOMAIN place = 1 .. Cardinality(kept) /\ \A j \in DOMAIN place : place[j] \in kept
  BY <1>1
<1>4. \A j \in DOMAIN place : inbox[place[j]] \in Message /\ place[j] \in DOMAIN inbox
  BY <1>3 DEF kept
<1>5. inbox' \in Seq(Message)
  BY <1>1, <1>2, <1>3, <1>4
<1>6. LinesOnce'
  <2> SUFFICES ASSUME NEW i \in DOMAIN place, NEW j \in DOMAIN place, inbox[place[i]] = inbox[place[j]]
               PROVE  i = j
    BY <1>1, <1>3 DEF LinesOnce
  <2>1. place[i] = place[j] /\ place[i] \in Nat
    BY <1>4 DEF LinesOnce
  <2>2. i \in Nat /\ j \in Nat
    BY <1>2, <1>3
  <2> QED
    BY <1>1, <2>1, <2>2
<1>7. Unread' \subseteq Unread
  BY <1>1, <1>3, <1>4 DEF Unread
<1> QED
  BY <1>5, <1>6, <1>7

\* The connection ends, and what was on its way with it.
LEMMA SessionCut ==
  ASSUME HelperInv, Detached, OutputKept, UNCHANGED process,
         UNCHANGED inbox \/ \E lost : NotWritten(lost)
  PROVE  HelperInv' /\ Requests' \subseteq Requests /\ active' = active /\ replies' = {} /\ ~attached'
<1> USE DEF process
<1>0. HelperTypeOK /\ RuntimeKept /\ RepliesSaved /\ OnePlace /\ Addressed /\ ProcessAndSession
  BY DEF HelperInv
<1>1. attached' = FALSE /\ replies' = {}
  BY DEF Detached
<1>2. inbox' \in Seq(Message) /\ LinesOnce' /\ Unread' \subseteq Unread
  <2>1. inbox \in Seq(Message) /\ LinesOnce
    BY <1>0 DEF HelperTypeOK, OnePlace
  <2>2. CASE UNCHANGED inbox
    BY <2>1, <2>2 DEF LinesOnce, Unread
  <2> QED
    BY <2>1, <2>2, LinesLost
<1>3. (\A kind : Of(kind)' = Of(kind)) /\ QueueOnce' /\ AnsweredTo' = {}
  BY <1>0, <1>1 DEF Of, QueueOnce, OnePlace, AnsweredTo
<1>4. Requests' \subseteq Requests
  BY <1>2, <1>3 DEF Requests
<1>5. OnePlace'
  BY <1>0, <1>1, <1>2, <1>3, <1>4 DEF OnePlace
<1>6. Addressed' /\ RuntimeKept'
  BY <1>0, <1>3, <1>4 DEF Addressed, RuntimeKept, OutputKept
<1>7. ProcessAndSession' /\ RepliesSaved'
  BY <1>0, <1>1 DEF ProcessAndSession, RepliesSaved
<1>8. HelperTypeOK'
  BY <1>0, <1>1, <1>2 DEF HelperTypeOK, StoreTypeOK, OutputKept, evidenceVars
<1> QED
  BY <1>1, <1>4, <1>5, <1>6, <1>7, <1>8 DEF HelperInv

\* A response is received.
LEMMA ReplyReceived ==
  ASSUME HelperInv, NEW r \in replies, replies' = replies \ {r}, OutputKept,
         UNCHANGED <<process, attached, inbox>>
  PROVE  HelperInv' /\ Requests' = Requests /\ UnderWay' = UnderWay \ {r.to}
<1> USE DEF process
<1>0. HelperTypeOK /\ RuntimeKept /\ RepliesSaved /\ OnePlace /\ Addressed /\ ProcessAndSession
  BY DEF HelperInv
<1>1. LinesOnce' /\ QueueOnce' /\ Unread' = Unread /\ \A kind : Of(kind)' = Of(kind)
  BY <1>0 DEF LinesOnce, QueueOnce, OnePlace, Unread, Of
<1>2. Requests' = Requests
  BY <1>1 DEF Requests
<1>3. AnsweredTo' = AnsweredTo \ {r.to} /\ r.to \in AnsweredTo
  BY <1>0 DEF AnsweredTo, OnePlace
<1>4. OnePlace'
  BY <1>0, <1>1, <1>2, <1>3 DEF OnePlace
<1>5. Addressed' /\ RuntimeKept'
  BY <1>0, <1>1, <1>2 DEF Addressed, RuntimeKept, OutputKept
<1>6. ProcessAndSession' /\ RepliesSaved'
  BY <1>0, <1>1 DEF ProcessAndSession, RepliesSaved, OutputKept, evidenceVars
<1>7. HelperTypeOK'
  BY <1>0 DEF HelperTypeOK, StoreTypeOK, OutputKept, evidenceVars
<1>8. UnderWay' = UnderWay \ {r.to}
  BY <1>0, <1>2, <1>3 DEF UnderWay, OnePlace
<1> QED
  BY <1>2, <1>4, <1>5, <1>6, <1>7, <1>8 DEF HelperInv
=============================================================================
