------------------------- MODULE ResponseCacheProofs -------------------------
(* Proofs about ResponseCache, for any set of threads and keys. *)
EXTENDS ResponseCache, TLAPS

-----------------------------------------------------------------------------
(* Every step of _cache_get and of the routes that invalidate keeps the    *)
(* cache's dictionaries and the threads' locals within their types.        *)
LEMMA TypeStep == TypeOK /\ [Next]_vars => TypeOK'
<1> SUFFICES ASSUME TypeOK, [Next]_vars PROVE TypeOK'
  OBVIOUS
<1> USE CacheAssumption DEF TypeOK, Entry, Version, PC, Outcome
<1>1. ASSUME NEW c \in Callers, NEW k \in Keys, Hit(c, k) PROVE TypeOK'
  BY <1>1 DEF Hit, Begin, Fresh
<1>2. ASSUME NEW c \in Callers, NEW k \in Keys, BecomeLoader(c, k) PROVE TypeOK'
  BY <1>2 DEF BecomeLoader, Begin, Goto
<1>3. ASSUME NEW c \in Callers, NEW k \in Keys, Join(c, k) PROVE TypeOK'
  BY <1>3 DEF Join, Begin, Goto
<1>4. ASSUME NEW c \in Callers, WaitTimeout(c) PROVE TypeOK'
  BY <1>4 DEF WaitTimeout, Return, Leave
<1>5. ASSUME NEW c \in Callers, Reread(c) PROVE TypeOK'
  <2>1. CASE Return(c, "error", 0)
    BY <1>5, <2>1 DEF Reread, Return, Leave
  <2>2. CASE cache[key[c]] # None /\ Return(c, "value", cache[key[c]].ver)
    BY <1>5, <2>2 DEF Reread, Return, Leave
  <2>3. CASE Goto(c, "loading") /\ UNCHANGED due
    BY <1>5, <2>3 DEF Reread, Goto
  <2> QED BY <1>5, <2>1, <2>2, <2>3 DEF Reread
<1>6. ASSUME NEW c \in Callers, LoaderReturns(c) PROVE TypeOK'
  BY <1>6 DEF LoaderReturns, Goto
<1>7. ASSUME NEW c \in Callers, LoaderRaises(c) PROVE TypeOK'
  BY <1>7 DEF LoaderRaises, Goto
<1>8. ASSUME NEW c \in Callers, Publish(c) PROVE TypeOK'
  <2>1. CASE pc[c] = "loaded"
    <3>1. /\ cache' = [cache EXCEPT ![key[c]] = [ver |-> got[c], fresh |-> TRUE]]
          /\ Goto(c, "published")
          /\ UNCHANGED <<errors, disturbed>>
      BY <1>8, <2>1 DEF Publish
    <3>2. /\ inflight' = [inflight EXCEPT ![key[c]] = None]
          /\ UNCHANGED <<upstream, key, event, got, floor, due>>
      BY <1>8 DEF Publish
    <3> QED BY <3>1, <3>2 DEF Goto
  <2>2. CASE pc[c] = "raised"
    <3>1. (disturbed[key[c]] \/ Waiters(c) # {}) \in BOOLEAN
      OBVIOUS
    <3>2. disturbed' \in [Keys -> BOOLEAN]
      BY <1>8, <2>2, <3>1 DEF Publish
    <3> QED BY <1>8, <2>2, <3>2 DEF Publish, Goto
  <2> QED BY <1>8, <2>1, <2>2 DEF Publish
<1>9. ASSUME NEW c \in Callers, Signal(c) PROVE TypeOK'
  BY <1>9 DEF Signal, Leave, Waiters
<1>10. ASSUME NEW S \in Scopes, Invalidate(S) PROVE TypeOK'
  BY <1>10 DEF Invalidate, Drop
<1>11. CASE CacheClear
  BY <1>11 DEF CacheClear, Drop
<1>12. ASSUME NEW k \in Keys, UpstreamChange(k) PROVE TypeOK'
  <2>1. upstream[k] + 1 \in Version
    BY <1>12 DEF UpstreamChange
  <2> QED BY <1>12, <2>1 DEF UpstreamChange
<1>13. ASSUME NEW k \in Keys, Expire(k) PROVE TypeOK'
  BY <1>13 DEF Expire, Fresh
<1>14. CASE UNCHANGED vars
  BY <1>14 DEF vars, sourceVars, historyVars
<1> QED
  BY <1>1, <1>2, <1>3, <1>4, <1>5, <1>6, <1>7, <1>8, <1>9, <1>10, <1>11, <1>12,
     <1>13, <1>14 DEF Next, CacheGet, Environment

(* The empty cache is well typed. *)
LEMMA TypeCorrectInit == Init => TypeOK
  BY CacheAssumption DEF Init, TypeOK, Entry, Version, PC, Outcome

(* The cache's dictionaries and every thread's locals keep their types for *)
(* any number of threads and keys.                                         *)
THEOREM TypeCorrect == Spec => []TypeOK
  BY TypeCorrectInit, TypeStep, PTL DEF Spec

-----------------------------------------------------------------------------
(* No thread waits for an Event nobody will set. The two invariants are    *)
(* inductive together, on top of the types: a registration is only handed  *)
(* to waiters while its owner is loading, and an owner's Event is replaced *)
(* only after the owner has woken its waiters.                             *)
Live == TypeOK /\ RegistrationIsLive /\ WaiterHasLoader

(* Each step keeps every registered and every awaited load alive. *)
LEMMA LiveStep == Live /\ [Next]_vars => Live'
<1> SUFFICES ASSUME Live, [Next]_vars PROVE (RegistrationIsLive /\ WaiterHasLoader)'
  BY TypeStep DEF Live
<1>0. TypeOK'
  BY TypeStep DEF Live
<1> USE CacheAssumption, <1>0 DEF Live, TypeOK, RegistrationIsLive, WaiterHasLoader, Loading
<1>1. ASSUME NEW c \in Callers, NEW k \in Keys, Hit(c, k)
      PROVE (RegistrationIsLive /\ WaiterHasLoader)'
  BY <1>1 DEF Hit, Begin
<1>2. ASSUME NEW c \in Callers, NEW k \in Keys, BecomeLoader(c, k)
      PROVE (RegistrationIsLive /\ WaiterHasLoader)'
  BY <1>2 DEF BecomeLoader, Begin, Goto
<1>3. ASSUME NEW c \in Callers, NEW k \in Keys, Join(c, k)
      PROVE (RegistrationIsLive /\ WaiterHasLoader)'
  BY <1>3 DEF Join, Begin, Goto
<1>4. ASSUME NEW c \in Callers, WaitTimeout(c)
      PROVE (RegistrationIsLive /\ WaiterHasLoader)'
  BY <1>4 DEF WaitTimeout, Return
<1>5. ASSUME NEW c \in Callers, Reread(c)
      PROVE (RegistrationIsLive /\ WaiterHasLoader)'
  BY <1>5 DEF Reread, Return, Goto
<1>6. ASSUME NEW c \in Callers, LoaderReturns(c) \/ LoaderRaises(c)
      PROVE (RegistrationIsLive /\ WaiterHasLoader)'
  BY <1>6 DEF LoaderReturns, LoaderRaises, Goto
<1>7. ASSUME NEW c \in Callers, Publish(c)
      PROVE (RegistrationIsLive /\ WaiterHasLoader)'
  <2>1. /\ inflight' = [inflight EXCEPT ![key[c]] = None]
        /\ UNCHANGED <<key, event>>
        /\ pc[c] \in {"loaded", "raised"}
        /\ Goto(c, "published") \/ Goto(c, "failed")
    BY <1>7 DEF Publish
  <2> QED BY <2>1 DEF Goto
<1>8. ASSUME NEW c \in Callers, Signal(c)
      PROVE (RegistrationIsLive /\ WaiterHasLoader)'
  BY <1>8 DEF Signal, Waiters
<1>9. ASSUME NEW S, Drop(S) PROVE (RegistrationIsLive /\ WaiterHasLoader)'
  BY <1>9 DEF Drop
<1>10. ASSUME NEW k \in Keys, UpstreamChange(k) \/ Expire(k)
       PROVE (RegistrationIsLive /\ WaiterHasLoader)'
  BY <1>10 DEF UpstreamChange, Expire
<1>11. CASE UNCHANGED vars
  BY <1>11 DEF vars, sourceVars
<1> QED
  BY <1>1, <1>2, <1>3, <1>4, <1>5, <1>6, <1>7, <1>8, <1>9, <1>10, <1>11
  DEF Next, CacheGet, Environment, Invalidate, CacheClear

(* Init has no registration and no waiter. *)
LEMMA LiveInit == Init => Live
  BY TypeCorrectInit, CacheAssumption DEF Init, Live, RegistrationIsLive, WaiterHasLoader

(* A registered load always has its publishing step ahead of it: no key is *)
(* ever left registered by a thread that is gone.                          *)
THEOREM RegistrationsLive == Spec => []RegistrationIsLive
<1>1. Live => RegistrationIsLive
  BY DEF Live
<1> QED BY <1>1, LiveInit, LiveStep, PTL DEF Spec

(* Every waiter has a loader of its key that has yet to set the Event it   *)
(* waits on, whoever pops whose registration.                              *)
THEOREM WaitersHaveLoaders == Spec => []WaiterHasLoader
<1>1. Live => WaiterHasLoader
  BY DEF Live
<1> QED BY <1>1, LiveInit, LiveStep, PTL DEF Spec

-----------------------------------------------------------------------------
(* Coalescing. While a key is undisturbed its only loader is the           *)
(* registered one, and an entry exists for every waiter that will re-read, *)
(* so that none of them falls through to a load of its own; and that one   *)
(* loader has read no older data than the entry it will replace.           *)
OnlyRegisteredLoads ==
    \A k \in Keys : ~disturbed[k] => \A c \in Loading(k) : inflight[k] = c

WokenFindEntry ==
    \A c \in Callers : ~disturbed[key[c]] =>
        /\ pc[c] = "woken" => cache[key[c]] # None
        /\ pc[c] = "waiting" => /\ pc[event[c]] = "published" => cache[key[c]] # None
                                /\ pc[event[c]] # "failed"

LoadsInOrder ==
    /\ \A k \in Keys : cache[k] # None => cache[k].ver <= upstream[k]
    /\ \A c \in Callers : pc[c] = "loaded" =>
         /\ got[c] <= upstream[key[c]]
         /\ ~disturbed[key[c]] /\ cache[key[c]] # None => cache[key[c]].ver <= got[c]

Ordered == Live /\ OnlyRegisteredLoads /\ WokenFindEntry /\ LoadsInOrder

(* A stored entry is never Python's None. *)
LEMMA EntryIsNotNone ==
    ASSUME NEW v \in Version, NEW b \in BOOLEAN PROVE [ver |-> v, fresh |-> b] # None
<1>1. [ver |-> v, fresh |-> b] \in Entry
  BY DEF Entry
<1>2. None \notin Entry
  BY CacheAssumption
<1> QED BY <1>1, <1>2

(* Raising one key's flag leaves the others as they are. *)
LEMMA SetFlag ==
    ASSUME NEW D, NEW f \in [D -> BOOLEAN], NEW d \in D, NEW b \in BOOLEAN, NEW e \in D
    PROVE  [f EXCEPT ![d] = @ \/ b][e] <=> f[e] \/ (e = d /\ b)
  OBVIOUS

(* Each step keeps the loads of an undisturbed key one at a time. *)
LEMMA OrderedStep == Ordered /\ [Next]_vars => Ordered'
<1> DEFINE Inv == OnlyRegisteredLoads /\ WokenFindEntry /\ LoadsInOrder
<1> SUFFICES ASSUME Ordered, [Next]_vars PROVE Inv'
  BY LiveStep DEF Ordered
<1>0. Live'
  BY LiveStep DEF Ordered
<1> USE CacheAssumption, <1>0 DEF Ordered, Live, TypeOK, Loading, Entry, Version,
     RegistrationIsLive, WaiterHasLoader, OnlyRegisteredLoads, WokenFindEntry, LoadsInOrder
<1>1. ASSUME NEW c \in Callers, NEW k \in Keys, Hit(c, k) PROVE Inv'
  BY <1>1 DEF Hit, Begin
<1>2. ASSUME NEW c \in Callers, NEW k \in Keys, BecomeLoader(c, k) PROVE Inv'
  BY <1>2 DEF BecomeLoader, Begin, Goto
<1>3. ASSUME NEW c \in Callers, NEW k \in Keys, Join(c, k) PROVE Inv'
  BY <1>3 DEF Join, Begin, Goto
<1>4. ASSUME NEW c \in Callers, WaitTimeout(c) PROVE Inv'
  BY <1>4 DEF WaitTimeout, Return
<1>5. ASSUME NEW c \in Callers, Reread(c) PROVE Inv'
  BY <1>5 DEF Reread, Return, Goto
<1>6. ASSUME NEW c \in Callers, LoaderReturns(c) PROVE Inv'
  BY <1>6 DEF LoaderReturns, Goto
<1>7. ASSUME NEW c \in Callers, LoaderRaises(c) PROVE Inv'
  BY <1>7 DEF LoaderRaises, Goto
<1>8. ASSUME NEW c \in Callers, Publish(c) PROVE Inv'
  <2>1. /\ inflight' = [inflight EXCEPT ![key[c]] = None]
        /\ UNCHANGED <<upstream, key, event, got>>
    BY <1>8 DEF Publish
  <2>2. CASE pc[c] = "loaded"
    <3>1. /\ cache' = [cache EXCEPT ![key[c]] = [ver |-> got[c], fresh |-> TRUE]]
          /\ pc' = [pc EXCEPT ![c] = "published"]
          /\ UNCHANGED disturbed
      BY <1>8, <2>2 DEF Publish, Goto
    <3>2. \A d \in Loading(key[c]) : ~disturbed[key[c]] => d = c
      BY <2>2
    <3>3. cache'[key[c]].ver = got[c] /\ cache'[key[c]] # None
      <4>0. got[c] \in Version
        BY <2>2
      <4>1. [ver |-> got[c], fresh |-> TRUE] # None
        BY ONLY <4>0, EntryIsNotNone
      <4> QED BY <3>1, <4>1
    <3>4. \A k \in Keys : k # key[c] => cache'[k] = cache[k]
      BY <3>1
    <3>5. OnlyRegisteredLoads'
      BY <2>1, <2>2, <3>1, <3>2
    <3>6. WokenFindEntry'
      BY <2>1, <2>2, <3>1, <3>3, <3>4
    <3>7. LoadsInOrder'
      BY <2>1, <2>2, <3>1, <3>2, <3>3, <3>4
    <3> QED BY <3>5, <3>6, <3>7
  <2>3. CASE pc[c] = "raised"
    <3>1. /\ cache' = cache
          /\ pc' = [pc EXCEPT ![c] = "failed"]
          /\ disturbed' = [disturbed EXCEPT ![key[c]] = @ \/ Waiters(c) # {}]
      BY <1>8, <2>3 DEF Publish, Goto
    <3>2. \A k \in Keys : ~disturbed'[k] => ~disturbed[k] /\ (k = key[c] => Waiters(c) = {})
      <4>1. disturbed \in [Keys -> BOOLEAN] /\ key[c] \in Keys
        OBVIOUS
      <4> QED BY ONLY <3>1, <4>1, SetFlag
    <3> QED BY <2>1, <2>3, <3>1, <3>2 DEF Waiters
  <2> QED BY <1>8, <2>2, <2>3 DEF Publish
<1>9. ASSUME NEW c \in Callers, Signal(c) PROVE Inv'
  BY <1>9 DEF Signal, Waiters
<1>10. ASSUME NEW S, Drop(S) PROVE Inv'
  <2>1. /\ cache' = [k \in Keys |-> IF k \in S THEN None ELSE cache[k]]
        /\ UNCHANGED <<upstream, inflight, pc, key, event, got>>
    BY <1>10 DEF Drop
  <2>2. \A k \in Keys : ~disturbed'[k] => ~disturbed[k] /\ (k \in S => Busy(k) = {})
    BY <1>10 DEF Drop
  <2> QED BY <2>1, <2>2 DEF Busy
<1>11. ASSUME NEW k \in Keys, UpstreamChange(k) PROVE Inv'
  BY <1>11 DEF UpstreamChange
<1>12. ASSUME NEW k \in Keys, Expire(k) PROVE Inv'
  <2>1. /\ cache' = [cache EXCEPT ![k] = [ver |-> cache[k].ver, fresh |-> FALSE]]
        /\ cache[k] # None
        /\ UNCHANGED <<upstream, inflight, pc, key, event, got, disturbed>>
    BY <1>12 DEF Expire, Fresh
  <2>2. \A j \in Keys : cache'[j] # None => cache[j] # None /\ cache'[j].ver = cache[j].ver
    BY <2>1
  <2>3. \A j \in Keys : cache[j] # None => cache'[j] # None
    <3>1. cache[k].ver \in Version
      BY <2>1
    <3>2. [ver |-> cache[k].ver, fresh |-> FALSE] # None
      BY ONLY <3>1, EntryIsNotNone
    <3> QED BY <2>1, <3>2
  <2> QED BY <2>1, <2>2, <2>3
<1>13. CASE UNCHANGED vars
  BY <1>13 DEF vars, sourceVars, historyVars
<1> QED
  BY <1>1, <1>2, <1>3, <1>4, <1>5, <1>6, <1>7, <1>8, <1>9, <1>10, <1>11, <1>12, <1>13
  DEF Next, CacheGet, Environment, Invalidate, CacheClear

(* The empty cache is undisturbed and idle. *)
LEMMA OrderedInit == Init => Ordered
  BY LiveInit, CacheAssumption DEF Init, Ordered, OnlyRegisteredLoads, WokenFindEntry,
     LoadsInOrder, Loading

(* Until a failed or invalidated load has disturbed a key, at most one     *)
(* thread is in its loader, for any number of concurrent callers.          *)
THEOREM LoadsCoalesce == Spec => []Coalesced
<1>1. Ordered => Coalesced
  BY DEF Ordered, OnlyRegisteredLoads, Coalesced
<1> QED BY <1>1, OrderedInit, OrderedStep, PTL DEF Spec

(* Until then, publishing never puts older data over newer. *)
THEOREM EntriesNeverRegress == Spec => EntryNeverRegresses
<1> DEFINE Step == \A k \in Keys :
      ~disturbed'[k] /\ cache[k] # None /\ cache'[k] # None => cache'[k].ver >= cache[k].ver
<1>1. Ordered /\ [Next]_vars => [Step]_vars
  <2> SUFFICES ASSUME Ordered, Next, NEW k \in Keys, ~disturbed'[k],
                      cache[k] # None, cache'[k] # None
               PROVE  cache'[k].ver >= cache[k].ver
    BY DEF Ordered, Live
  <2>0. cache \in [Keys -> Entry \cup {None}] /\ cache[k] \in Entry /\ cache[k].ver \in Nat
    BY CacheAssumption DEF Ordered, Live, TypeOK, Entry, Version
  <2>1. ASSUME NEW c \in Callers, Publish(c), pc[c] = "loaded", key[c] = k
        PROVE  cache'[k].ver >= cache[k].ver
    <3>1. cache'[k].ver = got[c] /\ disturbed' = disturbed
      BY <2>0, <2>1 DEF Publish
    <3> QED BY <2>0, <2>1, <3>1 DEF Ordered, LoadsInOrder, Live, TypeOK, Version
  <2>2. ASSUME NEW c \in Callers, Publish(c), ~(pc[c] = "loaded" /\ key[c] = k)
        PROVE  cache'[k] = cache[k]
    BY <2>0, <2>2 DEF Publish
  <2>3. ASSUME NEW S, Drop(S) PROVE cache'[k] = cache[k]
    BY <2>0, <2>3 DEF Drop
  <2>4. ASSUME NEW j \in Keys, Expire(j) PROVE cache'[k].ver = cache[k].ver
    BY <2>0, <2>4 DEF Expire
  <2>5. ASSUME NEW c \in Callers, CacheGet(c), ~Publish(c) PROVE cache' = cache
    BY <2>5 DEF CacheGet, Hit, BecomeLoader, Join, Begin, WaitTimeout, Reread, LoaderReturns,
       LoaderRaises, Signal
  <2>6. ASSUME NEW j \in Keys, UpstreamChange(j) PROVE cache' = cache
    BY <2>6 DEF UpstreamChange
  <2> QED
    BY <2>0, <2>1, <2>2, <2>3, <2>4, <2>5, <2>6 DEF Next, Environment, Invalidate, CacheClear
<1> QED BY <1>1, OrderedInit, OrderedStep, PTL DEF Spec, EntryNeverRegresses

-----------------------------------------------------------------------------
(* Freshness. An invalidation that finds no load running leaves nothing    *)
(* older than itself behind: not in the cache, and not with any loader     *)
(* that has yet to publish, since each of those reads after it.            *)
NothingOlderThanFloor ==
    /\ \A k \in Keys :
         /\ floor[k] <= upstream[k]
         /\ cache[k] # None => floor[k] <= cache[k].ver
    /\ \A c \in Callers :
         /\ pc[c] # "idle" => due[c] <= floor[key[c]]
         /\ pc[c] = "loaded" => floor[key[c]] <= got[c]
         /\ pc[c] = "published" => due[c] <= got[c]

Recent == TypeOK /\ NothingOlderThanFloor /\ FreshAfterQuietInvalidation

(* Each step keeps all data that can still be returned above the floor. *)
LEMMA RecentStep == Recent /\ [Next]_vars => Recent'
<1> DEFINE Inv == NothingOlderThanFloor /\ FreshAfterQuietInvalidation
<1> SUFFICES ASSUME Recent, [Next]_vars PROVE Inv'
  BY TypeStep DEF Recent
<1>0. TypeOK'
  BY TypeStep DEF Recent
<1> USE CacheAssumption, <1>0 DEF Recent, TypeOK, Entry, Version, PC,
     NothingOlderThanFloor, FreshAfterQuietInvalidation
<1>1. ASSUME NEW c \in Callers, NEW k \in Keys, Hit(c, k) PROVE Inv'
  BY <1>1 DEF Hit, Begin, Fresh
<1>2. ASSUME NEW c \in Callers, NEW k \in Keys, BecomeLoader(c, k) PROVE Inv'
  BY <1>2 DEF BecomeLoader, Begin, Goto
<1>3. ASSUME NEW c \in Callers, NEW k \in Keys, Join(c, k) PROVE Inv'
  BY <1>3 DEF Join, Begin, Goto
<1>4. ASSUME NEW c \in Callers, WaitTimeout(c) PROVE Inv'
  BY <1>4 DEF WaitTimeout, Return, Leave
<1>5. ASSUME NEW c \in Callers, Reread(c) PROVE Inv'
  BY <1>5 DEF Reread, Return, Leave, Goto
<1>6. ASSUME NEW c \in Callers, LoaderReturns(c) PROVE Inv'
  BY <1>6 DEF LoaderReturns, Goto
<1>7. ASSUME NEW c \in Callers, LoaderRaises(c) PROVE Inv'
  BY <1>7 DEF LoaderRaises, Goto
<1>8. ASSUME NEW c \in Callers, Publish(c) PROVE Inv'
  <2>1. CASE pc[c] = "loaded"
    BY <1>8, <2>1 DEF Publish, Goto
  <2>2. CASE pc[c] = "raised"
    BY <1>8, <2>2 DEF Publish, Goto
  <2> QED BY <1>8, <2>1, <2>2 DEF Publish
<1>9. ASSUME NEW c \in Callers, Signal(c) PROVE Inv'
  BY <1>9 DEF Signal, Leave, Waiters
<1>10. ASSUME NEW S, Drop(S) PROVE Inv'
  BY <1>10 DEF Drop, Loading
<1>11. ASSUME NEW k \in Keys, UpstreamChange(k) PROVE Inv'
  BY <1>11 DEF UpstreamChange
<1>12. ASSUME NEW k \in Keys, Expire(k) PROVE Inv'
  <2>1. /\ cache[k] \in Entry
        /\ cache' = [cache EXCEPT ![k] = [ver |-> cache[k].ver, fresh |-> FALSE]]
        /\ outcome' = None
        /\ UNCHANGED <<upstream, pc, key, got, floor, due>>
    BY <1>12 DEF Expire, Fresh
  <2>2. \A j \in Keys : cache'[j] # None => cache[j] # None /\ cache'[j].ver = cache[j].ver
    BY <2>1
  <2> QED BY <2>1, <2>2
<1>13. CASE UNCHANGED vars
  BY <1>13 DEF vars, sourceVars, historyVars
<1> QED
  BY <1>1, <1>2, <1>3, <1>4, <1>5, <1>6, <1>7, <1>8, <1>9, <1>10, <1>11, <1>12, <1>13
  DEF Next, CacheGet, Environment, Invalidate, CacheClear

(* A call that begins after a quiet invalidation never returns data from   *)
(* before it, whichever thread loaded that data.                           *)
THEOREM QuietInvalidationsHold == Spec => []FreshAfterQuietInvalidation
<1>1. Init => Recent
  BY TypeCorrectInit, CacheAssumption
  DEF Init, Recent, NothingOlderThanFloor, FreshAfterQuietInvalidation
<1>2. Recent => FreshAfterQuietInvalidation
  BY DEF Recent
<1> QED BY <1>1, <1>2, RecentStep, PTL DEF Spec
=============================================================================
