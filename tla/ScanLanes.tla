------------------------------ MODULE ScanLanes ------------------------------
(***************************************************************************)
(* What the browser's scan scheduler promises its callers, without the     *)
(* table of jobs, the priorities, the micro-tasks and the abort signals of  *)
(* state/scanScheduler.ts: a request waits, is served in one lane that has *)
(* a free slot, and is settled once.  Requests that are not urgent wait    *)
(* until the background is opened.  ScanScheduler implements it.           *)
(***************************************************************************)
EXTENDS Naturals, FiniteSets

CONSTANTS
    Requests     \* names for the promises handed to callers

VARIABLES
    waiting,   \* requests that have no slot yet
    serving,   \* the requests that hold a slot of each lane
    settled,   \* requests whose promise is resolved
    small,     \* requests for a cheap scan
    urgent,    \* requests somebody wants for the page in front
    open       \* background work may start

lanesVars == <<waiting, serving, settled, small, urgent, open>>

Lanes == {"cheap", "foreground", "background"}

Slots(lane) == IF lane = "cheap" THEN 2 ELSE 1

Served == UNION {serving[l] : l \in Lanes}

LanesInit ==
    /\ waiting = {}
    /\ serving = [l \in Lanes |-> {}]
    /\ settled = {}
    /\ small = {}
    /\ urgent = {}
    /\ open = FALSE

(* A new request, cheap or not for good and urgent or not for now.         *)
Submit(r) ==
    /\ r \notin waiting \cup Served \cup settled
    /\ waiting' = waiting \cup {r}
    /\ small' \in {small, small \cup {r}}
    /\ urgent' \in {urgent, urgent \cup {r}}
    /\ UNCHANGED <<serving, settled, open>>

(* Another caller wants the same scan for the page in front.               *)
Promote(r) ==
    /\ r \in waiting \cup Served
    /\ urgent' = urgent \cup {r}
    /\ UNCHANGED <<waiting, serving, settled, small, open>>

LaneFor(r) ==
    IF r \in small THEN "cheap" ELSE IF r \in urgent THEN "foreground" ELSE "background"

(* Some of the requests that wait in w get a slot beside those already     *)
(* held in s, each in its lane, and no lane holds more than its slots.     *)
(* Requests that are not urgent get one only if the background is open.    *)
Serve(w, s, isOpen) ==
    \E chosen \in SUBSET w :
        /\ \A r \in chosen : isOpen \/ r \in urgent
        /\ waiting' = w \ chosen
        /\ serving' = [l \in Lanes |-> s[l] \cup {r \in chosen : LaneFor(r) = l}]
        /\ \A l \in Lanes : Cardinality(serving'[l]) <= Slots(l)

(* The promises of these requests are resolved; they are nobody's now.     *)
Settle(rs) ==
    /\ settled' = settled \cup rs
    /\ small' = small \ rs
    /\ urgent' = urgent \ rs

Grant ==
    /\ Serve(waiting, serving, open)
    /\ UNCHANGED <<settled, small, urgent, open>>

(* A served request is settled, and its slot may go to a waiting one.      *)
Complete(r) ==
    /\ r \in Served
    /\ Settle({r})
    /\ Serve(waiting, [l \in Lanes |-> serving[l] \ {r}], open)
    /\ UNCHANGED open

Withdraw(r) ==
    /\ r \in waiting
    /\ waiting' = waiting \ {r}
    /\ Settle({r})
    /\ UNCHANGED <<serving, open>>

(* The session ends: everything is settled and the background is closed.   *)
Flush ==
    /\ waiting' = {}
    /\ serving' = [l \in Lanes |-> {}]
    /\ Settle(waiting \cup Served)
    /\ open' = FALSE

(* The background is opened or closed; opening it may serve at once.       *)
Admit(v) ==
    /\ open' = v
    /\ Serve(waiting, serving, v)
    /\ UNCHANGED <<settled, small, urgent>>

LanesNext ==
    \/ \E r \in Requests : Submit(r) \/ Promote(r) \/ Complete(r) \/ Withdraw(r)
    \/ Grant
    \/ Flush
    \/ \E v \in BOOLEAN : Admit(v)

LanesSpec == LanesInit /\ [][LanesNext]_lanesVars

=============================================================================
