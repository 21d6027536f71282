------------------------ MODULE SharedUsageScansProofs ------------------------
(* Proofs about SharedUsageScans, for any set of callers. *)
EXTENDS SharedUsageScans, TLAPS

Owns(c) == call[c] # None /\ call[c].pc = "owner"
Waits(c) == call[c] # None /\ call[c].pc = "wait"
Running == entry # None /\ entry.status = "running"

(* Events are named by a counter, so that a new one is nobody's.           *)
EventsCounted ==
    /\ \A e \in set \cup orphaned : e <= events
    /\ entry # None => entry.ready <= events
    /\ \A c \in Callers : call[c] # None => call[c].ready <= events

(* The registry and the owners: each owner has an event of its own, the    *)
(* registration is an owner's while it runs, and an owner that is not      *)
(* registered lost its registration to a clear.                            *)
OwnersRegistered ==
    /\ \A c, d \in Callers : Owns(c) /\ Owns(d) /\ call[c].ready = call[d].ready => c = d
    /\ Running => \E c \in Callers : Owns(c) /\ call[c].ready = entry.ready
    /\ \A c \in Callers : Owns(c) /\ call[c].ready \notin orphaned
            => Running /\ entry.ready = call[c].ready
    /\ entry # None => entry.ready \notin orphaned

(* A waiter's event is set, orphaned, or that of the running registration. *)
WaitersServed ==
    \A c \in Callers : Waits(c) =>
        \/ call[c].ready \in set \cup orphaned
        \/ Running /\ entry.ready = call[c].ready

(* How old a result may be: nothing that can be returned is from before    *)
(* the last clear the call knows of.                                       *)
ResultsRecent ==
    /\ cleared <= version
    /\ entry # None /\ entry.status = "done" => entry.result \in Version /\ entry.result >= cleared
    /\ \A c \in Callers : Owns(c) /\ entry # None /\ entry.ready = call[c].ready
            => call[c].scanned >= cleared
    /\ \A c \in Callers : call[c] # None =>
            /\ call[c].floor <= cleared
            /\ call[c].pc \in {"owner", "rescan"} => call[c].scanned >= call[c].floor
    /\ NothingFromBeforeClear

ScanInv == TypeOK /\ EventsCounted /\ OwnersRegistered /\ WaitersServed /\ ResultsRecent

-----------------------------------------------------------------------------
(* The empty registry satisfies the invariant. *)
LEMMA ScanInit == Init => ScanInv
<1> SUFFICES ASSUME Init PROVE ScanInv
  OBVIOUS
<1> USE UsageAssumption DEF Init
<1>1. TypeOK
  <2>1. version \in Version /\ cleared \in Version /\ events \in 0..MaxEvents
    BY DEF Version
  <2>2. call \in [Callers -> Call \cup {None}]
    OBVIOUS
  <2> QED BY <2>1, <2>2 DEF TypeOK
<1>2. EventsCounted
  BY DEF EventsCounted
<1>3. OwnersRegistered /\ WaitersServed
  BY DEF OwnersRegistered, WaitersServed, Owns, Waits, Running
<1>4. ResultsRecent
  BY DEF ResultsRecent, NothingFromBeforeClear, Owns
<1> QED BY <1>1, <1>2, <1>3, <1>4 DEF ScanInv

(* What the second critical section leaves in the registry. *)
LEMMA PublishEffect ==
  ASSUME ScanInv, NEW c \in Callers, Owns(c), NEW s \in {"done", "error"}, Publish(c, s)
  PROVE  \/ /\ Registered(c) /\ entry \in Entry /\ entry' \in Entry /\ entry' # None
            /\ entry'.status = s /\ entry'.ready = entry.ready
            /\ s = "done" => entry'.result = call[c].scanned
            /\ set' = set \cup {call[c].ready} /\ old' = FALSE
         \/ ~Registered(c) /\ UNCHANGED <<entry, old, set>>
<1>1. CASE ~Registered(c)
  BY <1>1 DEF Publish
<1>2. CASE Registered(c)
  <2>1. entry \in Entry /\ call[c] \in Call
    BY <1>2 DEF Registered, ScanInv, TypeOK, Owns
  <2>2. Result(c, s) \in Version \cup {None} /\ (s = "done" => Result(c, s) = call[c].scanned)
    BY <2>1 DEF Result, Entry, Call
  <2>3. /\ entry' = [entry EXCEPT !.status = s, !.result = Result(c, s)]
        /\ old' = FALSE /\ set' = set \cup {call[c].ready}
    BY <1>2 DEF Publish
  <2>4. /\ entry' \in Entry /\ entry'.status = s /\ entry'.ready = entry.ready
        /\ entry'.result = Result(c, s)
    BY ONLY <2>1, <2>2, <2>3, s \in {"done", "error"} DEF Entry
  <2>5. entry' # None
    BY <2>4, UsageAssumption
  <2> QED BY <1>2, <2>1, <2>2, <2>3, <2>4, <2>5
<1> QED BY <1>1, <1>2

(* An owner that publishes and leaves, with a result or an error. *)
LEMMA OwnerEnds ==
  ASSUME ScanInv, NEW c \in Callers, Owns(c), NEW s \in {"done", "error"}, Publish(c, s),
         call' = [call EXCEPT ![c] = None], UNCHANGED <<version, events, cleared, orphaned>>,
         returned' \in Returned \cup {None}, NothingFromBeforeClear'
  PROVE  ScanInv'
<1>1. call'[c] = None /\ \A d \in Callers \ {c} : call'[d] = call[d]
  BY DEF ScanInv, TypeOK
<1>2. call[c] \in Call /\ call[c].ready \in Event /\ call[c].ready <= events /\ events \in Nat
  BY DEF ScanInv, TypeOK, EventsCounted, Owns, Call, Event
<1>3. Registered(c) \/ (entry' = entry /\ set' = set)
  BY DEF Publish
<1>4. TypeOK'
  <2>1. call' \in [Callers -> Call \cup {None}]
    BY DEF ScanInv, TypeOK
  <2>2. entry' \in Entry \cup {None} /\ old' \in BOOLEAN
    BY PublishEffect DEF ScanInv, TypeOK
  <2>3. set' \subseteq Event
    BY <1>2, PublishEffect DEF ScanInv, TypeOK
  <2> QED BY <2>1, <2>2, <2>3 DEF ScanInv, TypeOK
<1>5. EventsCounted'
  <2>1. \A e \in set' \cup orphaned' : e <= events'
    BY <1>2, PublishEffect DEF ScanInv, EventsCounted
  <2>2. entry' # None => entry'.ready <= events'
    BY PublishEffect DEF ScanInv, EventsCounted, Registered
  <2>3. \A d \in Callers : call'[d] # None => call'[d].ready <= events'
    BY <1>1 DEF ScanInv, EventsCounted
  <2> QED BY <2>1, <2>2, <2>3 DEF EventsCounted
<1>6. \A d \in Callers : Owns(d)' => d # c /\ Owns(d) /\ call'[d] = call[d]
  BY <1>1 DEF Owns
<1>7. \A d \in Callers : Waits(d)' => d # c /\ Waits(d) /\ call'[d] = call[d]
  BY <1>1 DEF Waits
<1>8. CASE Registered(c)
  <2>1. /\ entry # None /\ entry' # None /\ entry'.status = s /\ entry'.ready = entry.ready
        /\ entry.ready = call[c].ready /\ set' = set \cup {call[c].ready}
        /\ s = "done" => entry'.result = call[c].scanned
    BY <1>8, PublishEffect DEF Registered
  <2>2. ~Running'
    BY <2>1 DEF Running
  <2>3. \A d \in Callers : Owns(d) /\ d # c => call[d].ready \in orphaned
    BY <2>1 DEF ScanInv, OwnersRegistered
  <2>4. OwnersRegistered'
    BY <1>6, <2>1, <2>2, <2>3 DEF ScanInv, OwnersRegistered
  <2>5. WaitersServed'
    BY <1>7, <2>1 DEF ScanInv, WaitersServed
  <2>6. call[c].scanned \in Version /\ call[c].scanned >= cleared
    BY <1>2, <2>1 DEF ScanInv, ResultsRecent, Call
  <2>7. entry' # None /\ entry'.status = "done" => entry'.result \in Version /\ entry'.result >= cleared'
    BY <2>1, <2>6
  <2>8. ResultsRecent'
    BY <1>1, <1>6, <2>1, <2>7 DEF ScanInv, ResultsRecent
  <2> QED BY <1>4, <1>5, <2>4, <2>5, <2>8 DEF ScanInv
<1>9. CASE ~Registered(c)
  <2>1. entry' = entry /\ set' = set
    BY <1>3, <1>9
  <2>2. entry # None => entry.ready # call[c].ready
    BY <1>9 DEF Registered
  <2>3. Running => \E d \in Callers : d # c /\ Owns(d) /\ call[d].ready = entry.ready
    BY <2>2 DEF ScanInv, OwnersRegistered, Running
  <2>4. \A d \in Callers : Owns(d) /\ d # c => Owns(d)'
    BY <1>1 DEF Owns
  <2>5. Running' <=> Running
    BY <2>1 DEF Running
  <2>6. OwnersRegistered'
    BY <1>6, <2>1, <2>3, <2>4, <2>5 DEF ScanInv, OwnersRegistered
  <2>7. WaitersServed'
    BY <1>7, <2>1, <2>5 DEF ScanInv, WaitersServed
  <2>8. ResultsRecent'
    BY <1>1, <1>6, <2>1 DEF ScanInv, ResultsRecent
  <2> QED BY <1>4, <1>5, <2>6, <2>7, <2>8 DEF ScanInv
<1> QED BY <1>8, <1>9

(* A caller that is not an owner moves on with the event it has. *)
LEMMA CallMoves ==
  ASSUME ScanInv, NEW c \in Callers, call[c] # None, ~Owns(c), NEW n \in Call,
         n.ready = call[c].ready, n.floor = call[c].floor, n.pc \in {"woken", "rescan"},
         n.pc = "rescan" => n.scanned >= n.floor,
         call' = [call EXCEPT ![c] = n], returned' = None,
         UNCHANGED <<version, entry, old, events, set, cleared, orphaned>>
  PROVE  ScanInv'
<1>1. call'[c] = n /\ \A d \in Callers \ {c} : call'[d] = call[d]
  BY DEF ScanInv, TypeOK
<1>2. TypeOK'
  BY DEF ScanInv, TypeOK
<1>3. EventsCounted'
  BY <1>1 DEF ScanInv, EventsCounted
<1>4. \A d \in Callers : (Owns(d)' <=> Owns(d)) /\ (Owns(d) => call'[d] = call[d])
  BY <1>1 DEF Owns
<1>5. \A d \in Callers : Waits(d)' => Waits(d) /\ call'[d] = call[d]
  BY <1>1 DEF Waits
<1>6. Running' <=> Running
  BY DEF Running
<1>7. OwnersRegistered'
  BY <1>4, <1>6 DEF ScanInv, OwnersRegistered
<1>8. WaitersServed'
  BY <1>5, <1>6 DEF ScanInv, WaitersServed
<1>9. ResultsRecent'
  <2>1. NothingFromBeforeClear'
    BY DEF NothingFromBeforeClear
  <2>2. \A d \in Callers : call'[d] # None =>
           /\ call'[d].floor <= cleared'
           /\ call'[d].pc \in {"owner", "rescan"} => call'[d].scanned >= call'[d].floor
    BY <1>1 DEF ScanInv, ResultsRecent
  <2> QED BY <1>4, <2>1, <2>2 DEF ScanInv, ResultsRecent
<1> QED BY <1>2, <1>3, <1>7, <1>8, <1>9 DEF ScanInv

(* Each critical section, wait and clear keeps the invariant. *)
LEMMA ScanStep == ScanInv /\ [Next]_vars => ScanInv'
<1> SUFFICES ASSUME ScanInv, [Next]_vars PROVE ScanInv'
  OBVIOUS
<1> USE UsageAssumption
    DEF ScanInv, TypeOK, EventsCounted, OwnersRegistered, WaitersServed, ResultsRecent,
        NothingFromBeforeClear, Owns, Waits, Running, Version, Event, Entry, Call, Returned
<1>1. ASSUME NEW c \in Callers, Hit(c) PROVE ScanInv'
  BY <1>1 DEF Hit, Current, Stale
<1>2. ASSUME NEW c \in Callers, Join(c) PROVE ScanInv'
  BY <1>2 DEF Join, Current, Stale
<1>3. ASSUME NEW c \in Callers, Own(c) PROVE ScanInv'
  <2>0. events' \in Event
    BY <1>3 DEF Own
  <2>1. TypeOK'
    <3>1. entry' \in Entry
      BY <1>3, <2>0 DEF Own
    <3>2. [pc |-> "owner", ready |-> events', scanned |-> version,
           finished |-> FALSE, floor |-> cleared] \in Call
      BY <2>0
    <3>3. call' \in [Callers -> Call \cup {None}]
      BY <1>3, <3>2 DEF Own
    <3>4. old' \in BOOLEAN /\ returned' \in Returned \cup {None}
      BY <1>3 DEF Own
    <3>5. events' \in 0..MaxEvents
      BY <2>0
    <3>6. UNCHANGED <<version, set, cleared, orphaned>>
      BY <1>3 DEF Own
    <3> QED BY <3>1, <3>3, <3>4, <3>5, <3>6
  <2>2. EventsCounted'
    BY <1>3 DEF Own, Current, Stale
  <2>3. OwnersRegistered'
    <3>1. ~Running
      BY <1>3 DEF Own, Current, Stale
    <3>0. events' > events
      BY <1>3 DEF Own
    <3>5. events' \notin orphaned
      BY <2>0, <3>0
    <3>6. \A d \in Callers : call[d] # None => call[d].ready # events'
      BY <2>0, <3>0
    <3> DEFINE new == [pc |-> "owner", ready |-> events', scanned |-> version,
                       finished |-> FALSE, floor |-> cleared]
    <3>7. new \in Call /\ new.ready = events' /\ new.pc = "owner"
      BY <2>0
    <3>8. call'[c] = new /\ \A d \in Callers \ {c} : call'[d] = call[d]
      BY <1>3 DEF Own
    <3>2. /\ call'[c].ready = events' /\ call'[c].pc = "owner" /\ call'[c] # None
          /\ \A d \in Callers \ {c} : call'[d] = call[d]
      BY <3>7, <3>8
    <3>3. Running' /\ entry'.ready = events' /\ orphaned' = orphaned
      BY <1>3, <2>0 DEF Own
    <3>4. \A d \in Callers : Owns(d) => call[d].ready \in orphaned
      BY <3>1
    <3> QED BY <3>2, <3>3, <3>4, <3>5, <3>6
  <2>4. WaitersServed'
    BY <1>3 DEF Own, Current, Stale
  <2>5. ResultsRecent'
    BY <1>3 DEF Own, Current, Stale
  <2> QED BY <2>1, <2>2, <2>3, <2>4, <2>5
<1>4. ASSUME NEW c \in Callers, OwnerReturns(c) PROVE ScanInv'
  <2>1. call[c] \in Call /\ returned' = [result |-> call[c].scanned, floor |-> call[c].floor]
    BY <1>4 DEF OwnerReturns, Returns
  <2>2. call[c].scanned \in Version /\ call[c].floor \in Version /\ call[c].scanned >= call[c].floor
    BY <1>4, <2>1 DEF OwnerReturns
  <2>3. returned' \in Returned \cup {None} /\ NothingFromBeforeClear'
    BY ONLY <2>1, <2>2 DEF Returned, NothingFromBeforeClear
  <2>4. /\ Owns(c) /\ Publish(c, "done") /\ call' = [call EXCEPT ![c] = None]
        /\ UNCHANGED <<version, events, cleared, orphaned>>
    BY <1>4 DEF OwnerReturns, Returns
  <2> QED BY ONLY ScanInv, <2>3, <2>4, OwnerEnds
<1>5. ASSUME NEW c \in Callers, OwnerRaises(c) PROVE ScanInv'
  <2>1. returned' \in Returned \cup {None} /\ NothingFromBeforeClear'
    BY <1>5 DEF OwnerRaises
  <2>2. /\ Owns(c) /\ Publish(c, "error") /\ call' = [call EXCEPT ![c] = None]
        /\ UNCHANGED <<version, events, cleared, orphaned>>
    BY <1>5 DEF OwnerRaises
  <2> QED BY ONLY ScanInv, <2>1, <2>2, OwnerEnds
<1>6. ASSUME NEW c \in Callers, NEW f \in BOOLEAN, Woken(c, f) PROVE ScanInv'
  <2> DEFINE n == [call[c] EXCEPT !.pc = "woken", !.finished = f]
  <2>1. call[c] \in Call /\ call[c] # None /\ ~Owns(c)
    BY <1>6 DEF Woken
  <2>2. n \in Call /\ n.ready = call[c].ready /\ n.floor = call[c].floor /\ n.pc = "woken"
    BY ONLY <2>1, <1>6 DEF Call
  <2>3. /\ call' = [call EXCEPT ![c] = n] /\ returned' = None
        /\ UNCHANGED <<version, entry, old, events, set, cleared, orphaned>>
    BY ONLY <1>6 DEF Woken
  <2> HIDE DEF n
  <2> QED BY ONLY ScanInv, <2>1, <2>2, <2>3, CallMoves
<1>7. ASSUME NEW c \in Callers, WaiterReturns(c) PROVE ScanInv'
  BY <1>7 DEF WaiterReturns, Usable, Returns
<1>8. ASSUME NEW c \in Callers, WaiterRescans(c) PROVE ScanInv'
  <2> DEFINE n == [call[c] EXCEPT !.pc = "rescan", !.scanned = version]
  <2>1. /\ call[c] \in Call /\ call[c] # None /\ ~Owns(c)
        /\ version \in Version /\ version >= call[c].floor
    BY <1>8 DEF WaiterRescans
  <2>2. n \in Call /\ n.ready = call[c].ready /\ n.floor = call[c].floor /\ n.pc = "rescan"
        /\ n.scanned = version
    BY ONLY <2>1 DEF Call
  <2>3. /\ call' = [call EXCEPT ![c] = n] /\ returned' = None
        /\ UNCHANGED <<version, entry, old, events, set, cleared, orphaned>>
    BY ONLY <1>8 DEF WaiterRescans
  <2>4. n.scanned >= n.floor
    BY ONLY <2>1, <2>2
  <2> HIDE DEF n
  <2> QED BY ONLY ScanInv, <2>1, <2>2, <2>3, <2>4, CallMoves
<1>9. ASSUME NEW c \in Callers, RescanReturns(c) PROVE ScanInv'
  BY <1>9 DEF RescanReturns, Returns
<1>10. ASSUME NEW c \in Callers, RescanRaises(c) PROVE ScanInv'
  BY <1>10 DEF RescanRaises
<1>11. CASE ClearUsage
  <2>1. TypeOK'
    BY <1>11 DEF ClearUsage
  <2>2. EventsCounted'
    BY <1>11 DEF ClearUsage
  <2>3. OwnersRegistered'
    BY <1>11 DEF ClearUsage
  <2>4. WaitersServed'
    BY <1>11 DEF ClearUsage
  <2>5. ResultsRecent'
    BY <1>11 DEF ClearUsage
  <2> QED BY <2>1, <2>2, <2>3, <2>4, <2>5
<1>12. CASE EntryAges
  BY <1>12 DEF EntryAges
<1>13. CASE InstanceChanges
  BY <1>13 DEF InstanceChanges
<1>14. CASE UNCHANGED vars
  BY <1>14 DEF vars
<1> QED
  BY <1>1, <1>2, <1>3, <1>4, <1>5, <1>6, <1>7, <1>8, <1>9, <1>10, <1>11, <1>12, <1>13, <1>14
  DEF Next, Begin, Continue, EventSet, DeadlinePasses

(* Every registered scan has one owner and every waiter someone to wake    *)
(* it, unless a clear came between, for any number of concurrent analyses. *)
THEOREM RegistryStaysSound == Spec => []RegistrySound
<1>1. ScanInv => RegistrySound
  BY DEF ScanInv, OwnersRegistered, WaitersServed, RegistrySound, OnlyClearOrphansWaiters,
         SecondOwnerNeedsClear, Owns, Waits, Running
<1> QED BY <1>1, ScanInit, ScanStep, PTL DEF Spec

(* No call is given a scan from before a clear that preceded the call,     *)
(* whichever owner, waiter or rescan the result comes from.                *)
THEOREM ClearsAreFinal == Spec => []NothingFromBeforeClear
<1>1. ScanInv => NothingFromBeforeClear
  BY DEF ScanInv, ResultsRecent
<1> QED BY <1>1, ScanInit, ScanStep, PTL DEF Spec
=============================================================================
