--------------------------- MODULE SharedUsageScans ---------------------------
(***************************************************************************)
(* The shared code-env usage scan of the backend,                          *)
(* _get_shared_project_code_env_usage in python-lib/adk_backend/usage_scan.py. *)
(* Every project-footprint request runs its own analysis, so several may   *)
(* want the same expensive scan at once: the first to register becomes its *)
(* owner, the others wait for the owner's event, up to the deadline of     *)
(* their own analysis, and scan for themselves if that does not give them  *)
(* a result. A deletion or a cache clear empties the registry at any       *)
(* moment.                                                                 *)
(*                                                                         *)
(* One project set is modelled; what a scan collects is the version of the *)
(* instance it started from.                                               *)
(***************************************************************************)
EXTENDS Naturals

CONSTANTS
    Callers,     \* threads that call _get_shared_project_code_env_usage
    MaxEvents,   \* bound on the events created
    MaxVersion,  \* bound on the changes of the instance
    None

Version == 0..MaxVersion
Event == 1..MaxEvents
Entry == [status : {"running", "done", "error"}, ready : Event,
          result : Version \cup {None}]
Call == [pc : {"owner", "wait", "woken", "rescan"}, ready : Event,
         scanned : Version,      \* the version the scan in progress started from
         finished : BOOLEAN,     \* what wait_event.wait returned
         floor : Version]        \* history: version of the last clear before the call

ASSUME UsageAssumption ==
    /\ MaxEvents \in Nat /\ MaxVersion \in Nat
    /\ None \notin Entry \cup Call \cup Version

VARIABLES
    version,   \* the state of the instance
    entry,     \* _SHARED_USAGE_SCANS[cache_key], or None
    old,       \* the entry's ts is more than ttl_sec ago
    call,      \* each caller's call, or None
    events,    \* how many events were created
    set,       \* events that were set
    cleared,   \* history: the version at the last clear
    orphaned,  \* history: events whose registration a clear removed
    returned   \* history: what the last step returned, with its floor, or None

vars == <<version, entry, old, call, events, set, cleared, orphaned, returned>>

Returned == [result : Version, floor : Version]

TypeOK ==
    /\ version \in Version
    /\ entry \in Entry \cup {None}
    /\ old \in BOOLEAN
    /\ call \in [Callers -> Call \cup {None}]
    /\ events \in 0..MaxEvents
    /\ set \subseteq Event
    /\ cleared \in Version
    /\ orphaned \subseteq Event
    /\ returned \in Returned \cup {None}

Init ==
    /\ version = 0
    /\ entry = None
    /\ old = FALSE
    /\ call = [c \in Callers |-> None]
    /\ events = 0
    /\ set = {}
    /\ cleared = 0
    /\ orphaned = {}
    /\ returned = None

-----------------------------------------------------------------------------
(* The first critical section: stale entries are dropped, then the call    *)
(* hits, joins the running scan, or registers and owns a new one.          *)

Stale == entry # None /\ entry.status # "running" /\ old
Current == IF Stale THEN None ELSE entry

Returns(c, result) ==
    /\ call' = [call EXCEPT ![c] = None]
    /\ returned' = [result |-> result, floor |-> call[c].floor]

Hit(c) ==
    /\ call[c] = None
    /\ Current # None /\ Current.status = "done"
    /\ returned' = [result |-> entry.result, floor |-> cleared]
    /\ UNCHANGED <<version, entry, old, call, events, set, cleared, orphaned>>

Join(c) ==
    /\ call[c] = None
    /\ Current # None /\ Current.status = "running"
    /\ call' = [call EXCEPT ![c] = [pc |-> "wait", ready |-> entry.ready, scanned |-> 0,
                                    finished |-> FALSE, floor |-> cleared]]
    /\ returned' = None
    /\ UNCHANGED <<version, entry, old, events, set, cleared, orphaned>>

(* Mutant: a running scan is not joined but registered over. *)
OwnAlways(c) ==
    /\ call[c] = None
    /\ events < MaxEvents
    /\ events' = events + 1
    /\ entry' = [status |-> "running", ready |-> events', result |-> None]
    /\ old' = FALSE
    /\ call' = [call EXCEPT ![c] = [pc |-> "owner", ready |-> events', scanned |-> version,
                                    finished |-> FALSE, floor |-> cleared]]
    /\ returned' = None
    /\ UNCHANGED <<version, set, cleared, orphaned>>

Own(c) ==
    /\ call[c] = None
    /\ Current # None => Current.status = "error"
    /\ events < MaxEvents
    /\ events' = events + 1
    /\ entry' = [status |-> "running", ready |-> events', result |-> None]
    /\ old' = FALSE
    /\ call' = [call EXCEPT ![c] = [pc |-> "owner", ready |-> events', scanned |-> version,
                                    finished |-> FALSE, floor |-> cleared]]
    /\ returned' = None
    /\ UNCHANGED <<version, set, cleared, orphaned>>

(* The owner's second critical section: publish and wake the waiters, but  *)
(* only if the registration is still its own.                              *)
Registered(c) == entry # None /\ entry.ready = call[c].ready

(* Only a finished scan stores a result. *)
Result(c, status) == IF status = "done" THEN call[c].scanned ELSE entry.result

(* Mutant: the owner publishes whoever is registered. *)
PublishUnchecked(c, status) ==
    IF entry # None
    THEN /\ entry' = [entry EXCEPT !.status = status, !.result = Result(c, status)]
         /\ old' = FALSE
         /\ set' = set \cup {call[c].ready}
    ELSE UNCHANGED <<entry, old, set>>

(* Mutant: only a result wakes the waiters. *)
PublishWakesOnSuccess(c, status) ==
    IF Registered(c)
    THEN /\ entry' = [entry EXCEPT !.status = status, !.result = Result(c, status)]
         /\ old' = FALSE
         /\ set' = IF status = "done" THEN set \cup {call[c].ready} ELSE set
    ELSE UNCHANGED <<entry, old, set>>

Publish(c, status) ==
    IF Registered(c)
    THEN /\ entry' = [entry EXCEPT !.status = status, !.result = Result(c, status)]
         /\ old' = FALSE
         /\ set' = set \cup {call[c].ready}
    ELSE UNCHANGED <<entry, old, set>>

OwnerReturns(c) ==
    /\ call[c] # None /\ call[c].pc = "owner"
    /\ Publish(c, "done")
    /\ Returns(c, call[c].scanned)
    /\ UNCHANGED <<version, events, cleared, orphaned>>

OwnerRaises(c) ==
    /\ call[c] # None /\ call[c].pc = "owner"
    /\ Publish(c, "error")
    /\ call' = [call EXCEPT ![c] = None]
    /\ returned' = None
    /\ UNCHANGED <<version, events, cleared, orphaned>>

(* wait_event.wait(timeout_seconds): the event, or the analysis deadline. *)
Woken(c, finished) ==
    /\ call[c] # None /\ call[c].pc = "wait"
    /\ call' = [call EXCEPT ![c] = [@ EXCEPT !.pc = "woken", !.finished = finished]]
    /\ returned' = None
    /\ UNCHANGED <<version, entry, old, events, set, cleared, orphaned>>

EventSet(c) == call[c] # None /\ call[c].ready \in set /\ Woken(c, TRUE)

DeadlinePasses(c) == Woken(c, FALSE)

(* Mutant: a woken waiter takes the entry's result whatever its status. *)
UsableWhenWoken(c) == call[c].finished /\ entry # None

(* The waiter looks the entry up again - it may be another one by now -    *)
(* and returns a finished result or scans for itself.                      *)
Usable(c) == call[c].finished /\ entry # None /\ entry.status = "done"

WaiterReturns(c) ==
    /\ call[c] # None /\ call[c].pc = "woken"
    /\ Usable(c)
    /\ Returns(c, entry.result)
    /\ UNCHANGED <<version, entry, old, events, set, cleared, orphaned>>

WaiterRescans(c) ==
    /\ call[c] # None /\ call[c].pc = "woken"
    /\ ~Usable(c)
    /\ call' = [call EXCEPT ![c] = [@ EXCEPT !.pc = "rescan", !.scanned = version]]
    /\ returned' = None
    /\ UNCHANGED <<version, entry, old, events, set, cleared, orphaned>>

RescanReturns(c) ==
    /\ call[c] # None /\ call[c].pc = "rescan"
    /\ Returns(c, call[c].scanned)
    /\ UNCHANGED <<version, entry, old, events, set, cleared, orphaned>>

RescanRaises(c) ==
    /\ call[c] # None /\ call[c].pc = "rescan"
    /\ call' = [call EXCEPT ![c] = None]
    /\ returned' = None
    /\ UNCHANGED <<version, entry, old, events, set, cleared, orphaned>>

-----------------------------------------------------------------------------
(* _clear_shared_project_code_env_usage. *)
ClearUsage ==
    /\ entry' = None
    /\ orphaned' = IF entry = None \/ entry.status # "running" THEN orphaned
                   ELSE orphaned \cup {entry.ready}
    /\ cleared' = version
    /\ returned' = None
    /\ UNCHANGED <<version, old, call, events, set>>

EntryAges ==
    /\ entry # None /\ ~old
    /\ old' = TRUE
    /\ returned' = None
    /\ UNCHANGED <<version, entry, call, events, set, cleared, orphaned>>

InstanceChanges ==
    /\ version < MaxVersion
    /\ version' = version + 1
    /\ returned' = None
    /\ UNCHANGED <<entry, old, call, events, set, cleared, orphaned>>

Begin(c) == Hit(c) \/ Join(c) \/ Own(c)

Continue(c) ==
    \/ OwnerReturns(c) \/ OwnerRaises(c)
    \/ EventSet(c) \/ WaiterReturns(c) \/ WaiterRescans(c)
    \/ RescanReturns(c) \/ RescanRaises(c)

Next ==
    \/ \E c \in Callers : Begin(c) \/ Continue(c) \/ DeadlinePasses(c)
    \/ ClearUsage \/ EntryAges \/ InstanceChanges

Spec == Init /\ [][Next]_vars

(* A scan returns or raises and a runnable thread runs. Nothing is assumed *)
(* of deadlines: an analysis may have none.                                *)
FairSpec == Spec /\ \A c \in Callers : WF_vars(Continue(c))

-----------------------------------------------------------------------------
(* Properties. *)

(* After a deletion cleared the registry, no call that begins later is     *)
(* given a scan that started before the clear: not from an entry, not from *)
(* an old owner that finishes late, not from an entry re-registered while  *)
(* a waiter slept.                                                         *)
NothingFromBeforeClear ==
    returned # None => returned.result >= returned.floor

(* A waiter is left without anyone to wake it only by a clear: otherwise   *)
(* its event is set or its owner is still scanning and still registered.   *)
OnlyClearOrphansWaiters ==
    \A c \in Callers : call[c] # None /\ call[c].pc = "wait" =>
        \/ call[c].ready \in set \cup orphaned
        \/ /\ \E o \in Callers : call[o] # None /\ call[o].pc = "owner" /\ call[o].ready = call[c].ready
           /\ entry # None /\ entry.ready = call[c].ready

(* One registered scan has one owner, whatever clears and errors happen:   *)
(* two owners at the same time are there only because a clear came between. *)
SecondOwnerNeedsClear ==
    \A c, d \in Callers :
        c # d /\ call[c] # None /\ call[d] # None /\ call[c].pc = "owner" /\ call[d].pc = "owner"
        => call[c].ready \in orphaned \/ call[d].ready \in orphaned

(* The registry is sound unless a clear disturbed it: one owner for each   *)
(* registration, and an owner for each waiter.                             *)
RegistrySound == TypeOK /\ OnlyClearOrphansWaiters /\ SecondOwnerNeedsClear

(* "lets concurrent callers wait on the owner's threading.Event instead of *)
(* re-scanning" (usage_scan.py): a waiter is woken without help from its   *)
(* deadline, whether the owner succeeds or fails, unless a clear took the  *)
(* owner's registration from under it.                                     *)
WaitersWake ==
    \A c \in Callers : (call[c] # None /\ call[c].pc = "wait") ~>
        (call[c] = None \/ call[c].pc # "wait" \/ call[c].ready \in orphaned)
=============================================================================
