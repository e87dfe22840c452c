----------------------------- MODULE CallSession -----------------------------
(***************************************************************************)
(* What the sessions of a transport promise to those who call, without     *)
(* threads, locks, pipes or processes: a call belongs to the one session   *)
(* that is open when it is made, it is answered while that session is      *)
(* open, or it fails together with all others when the session breaks, and *)
(* it comes to its result once.  A session is opened only after every call *)
(* of the earlier ones is answered or has failed.                          *)
(***************************************************************************)
EXTENDS Naturals

CONSTANTS Calls

VARIABLES
    opened,     \* how many sessions were opened, or tried to
    session,    \* the open session, 0 for none
    status,     \* what has become of each call
    of          \* the session each call was made in

sessionVars == <<opened, session, status, of>>

Init ==
    /\ opened = 0 /\ session = 0
    /\ status = [c \in Calls |-> "none"] /\ of = [c \in Calls |-> 0]

Open ==
    /\ session = 0 /\ \A c \in Calls : status[c] # "open"
    /\ opened' = opened + 1 /\ session' \in {0, opened + 1}
    /\ UNCHANGED <<status, of>>

Make(c) ==
    /\ session # 0 /\ status[c] = "none"
    /\ status' = [status EXCEPT ![c] = "open"] /\ of' = [of EXCEPT ![c] = session]
    /\ UNCHANGED <<opened, session>>

Answer(c) ==
    /\ status[c] = "open" /\ session # 0 /\ of[c] = session
    /\ status' = [status EXCEPT ![c] = "answered"]
    /\ UNCHANGED <<opened, session, of>>

\* The failure of a session is one step, for all its calls.
Break ==
    /\ session # 0 /\ session' = 0
    /\ status' = [c \in Calls |-> IF status[c] = "open" THEN "failed" ELSE status[c]]
    /\ UNCHANGED <<opened, of>>

\* An answer is a result or an error of the helper, a failure is an error.
Return(c) ==
    /\ \/ status[c] = "answered" /\ \E r \in {"ok", "error"} : status' = [status EXCEPT ![c] = r]
       \/ status[c] = "failed" /\ status' = [status EXCEPT ![c] = "error"]
    /\ UNCHANGED <<opened, session, of>>

Next == Open \/ Break \/ \E c \in Calls : Make(c) \/ Answer(c) \/ Return(c)

Spec == Init /\ [][Next]_sessionVars
=============================================================================
