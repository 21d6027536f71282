---------------------------- MODULE ResponseCache ----------------------------
(***************************************************************************)
(* The backend's in-memory response cache with in-flight coalescing        *)
(* (python-lib/adk_backend/caching.py): Flask worker threads call          *)
(* _cache_get concurrently, mutating routes invalidate entries, and the    *)
(* cached data goes stale upstream.                                        *)
(*                                                                         *)
(* A payload is abstracted to the version of the upstream data it was      *)
(* computed from; an entry's timestamp to whether its ttl has run out.     *)
(* The steps of a thread are the critical sections of _CACHE_LOCK and the  *)
(* unlocked code between them.                                             *)
(***************************************************************************)
EXTENDS Naturals, FiniteSets

CONSTANTS
    Callers,     \* the request threads
    Keys,        \* host-scoped cache keys
    Scopes,      \* the sets of keys one invalidation predicate can match
    MaxVersion,  \* bound on the number of upstream changes per key
    None         \* Python's None

Version == 0..MaxVersion
Entry == [ver : Version, fresh : BOOLEAN]

Outcome == [kind : {"value", "error", "timeout"}, ver : Version, due : Version]

ASSUME CacheAssumption ==
    /\ Scopes \subseteq SUBSET Keys
    /\ MaxVersion \in Nat
    /\ None \notin Callers
    /\ None \notin Entry \cup Outcome

(* The state the source has. *)
VARIABLES
    upstream,  \* version of the data behind each key
    cache,     \* _CACHE
    inflight,  \* _CACHE_INFLIGHT: the thread that created the registered Event
    errors,    \* _CACHE_INFLIGHT_ERRORS: whether an error is parked for the key
    pc,        \* where a thread is in _cache_get
    key,       \* its scoped_key
    event,     \* its `inflight` local: creator of the Event, None if already set
    got        \* version its loader() returned

(* History: what the properties compare. *)
VARIABLES
    outcome,    \* what the call that returned in the last step returned, or None
    floor,      \* upstream version at the last invalidation no load overlapped
    due,        \* floor of the key when the call began
    disturbed   \* a load failed, or was invalidated, under concurrent callers

sourceVars == <<upstream, cache, inflight, errors, pc, key, event, got>>
historyVars == <<outcome, floor, due, disturbed>>
vars == <<sourceVars, historyVars>>

-----------------------------------------------------------------------------

PC == {"idle", "waiting", "woken", "loading", "loaded", "raised",
       "published", "failed"}

TypeOK ==
    /\ upstream \in [Keys -> Version]
    /\ cache \in [Keys -> Entry \cup {None}]
    /\ inflight \in [Keys -> Callers \cup {None}]
    /\ errors \in [Keys -> BOOLEAN]
    /\ pc \in [Callers -> PC]
    /\ key \in [Callers -> Keys]
    /\ event \in [Callers -> Callers \cup {None}]
    /\ got \in [Callers -> Version]
    /\ outcome \in Outcome \cup {None}
    /\ floor \in [Keys -> Version]
    /\ due \in [Callers -> Version]
    /\ disturbed \in [Keys -> BOOLEAN]

Init ==
    /\ upstream = [k \in Keys |-> 0]
    /\ cache = [k \in Keys |-> None]
    /\ inflight = [k \in Keys |-> None]
    /\ errors = [k \in Keys |-> FALSE]
    /\ pc = [c \in Callers |-> "idle"]
    /\ key \in [Callers -> Keys]
    /\ event = [c \in Callers |-> None]
    /\ got = [c \in Callers |-> 0]
    /\ outcome = None
    /\ floor = [k \in Keys |-> 0]
    /\ due = [c \in Callers |-> 0]
    /\ disturbed = [k \in Keys |-> FALSE]

Busy(k) == {c \in Callers : pc[c] # "idle" /\ key[c] = k}

(* The threads inside loader() for k, or back from it and not yet in the   *)
(* critical section that publishes the outcome.                            *)
Loading(k) ==
    {c \in Callers : pc[c] \in {"loading", "loaded", "raised"} /\ key[c] = k}

Waiters(c) == {w \in Callers : pc[w] = "waiting" /\ event[w] = c}

Fresh(k) == cache[k] # None /\ cache[k].fresh

(* The thread leaves _cache_get with a value or an exception. The history *)
(* keeps what the call saw for one step and forgets the call.              *)
Leave(c, kind, v) ==
    /\ outcome' = [kind |-> kind, ver |-> v, due |-> due[c]]
    /\ due' = [due EXCEPT ![c] = 0]

Return(c, kind, v) ==
    /\ pc' = [pc EXCEPT ![c] = "idle"]
    /\ Leave(c, kind, v)

Goto(c, label) ==
    /\ pc' = [pc EXCEPT ![c] = label]
    /\ outcome' = None

Begin(c, k) ==
    /\ pc[c] = "idle"
    /\ key' = [key EXCEPT ![c] = k]
    /\ UNCHANGED <<upstream, cache, errors, got, floor, disturbed>>

(* The first critical section of _cache_get finds an unexpired entry. *)
Hit(c, k) ==
    /\ Begin(c, k)
    /\ Fresh(k)
    /\ pc' = pc
    /\ outcome' = [kind |-> "value", ver |-> cache[k].ver, due |-> floor[k]]
    /\ UNCHANGED <<inflight, event, due>>

(* Mutant: the lookup of _CACHE_INFLIGHT is forgotten. *)
BecomeLoaderAlways(c, k) ==
    /\ Begin(c, k)
    /\ ~Fresh(k)
    /\ inflight' = [inflight EXCEPT ![k] = c]
    /\ event' = [event EXCEPT ![c] = c]
    /\ due' = [due EXCEPT ![c] = floor[k]]
    /\ Goto(c, "loading")

(* No usable entry and nobody registered: become the loader. *)
BecomeLoader(c, k) ==
    /\ Begin(c, k)
    /\ ~Fresh(k)
    /\ inflight[k] = None
    /\ inflight' = [inflight EXCEPT ![k] = c]
    /\ event' = [event EXCEPT ![c] = c]
    /\ due' = [due EXCEPT ![c] = floor[k]]
    /\ Goto(c, "loading")

(* No usable entry and a load is registered: wait on its Event. *)
Join(c, k) ==
    /\ Begin(c, k)
    /\ ~Fresh(k)
    /\ inflight[k] # None
    /\ event' = [event EXCEPT ![c] = inflight[k]]
    /\ due' = [due EXCEPT ![c] = floor[k]]
    /\ Goto(c, "waiting")
    /\ UNCHANGED inflight

(* inflight.wait(timeout=_CACHE_WAIT_TIMEOUT) runs out. *)
WaitTimeout(c) ==
    /\ pc[c] = "waiting"
    /\ Return(c, "timeout", 0)
    /\ event' = [event EXCEPT ![c] = None]
    /\ UNCHANGED <<upstream, cache, inflight, errors, key, got, floor, disturbed>>

(* A woken waiter's second critical section: take a parked error, else the *)
(* entry whatever its age, else fall through and run the loader itself.    *)
(* Falling through registers nothing: the Event it holds is already set.   *)
Reread(c) ==
    /\ pc[c] = "woken"
    /\ errors' = [errors EXCEPT ![key[c]] = FALSE]
    /\ \/ errors[key[c]] /\ Return(c, "error", 0)
       \/ ~errors[key[c]] /\ cache[key[c]] # None /\ Return(c, "value", cache[key[c]].ver)
       \/ ~errors[key[c]] /\ cache[key[c]] = None /\ Goto(c, "loading") /\ UNCHANGED due
    /\ UNCHANGED <<upstream, cache, inflight, key, event, got, floor, disturbed>>

(* loader() computes its value from the data as it is now ... *)
LoaderReturns(c) ==
    /\ pc[c] = "loading"
    /\ Goto(c, "loaded")
    /\ got' = [got EXCEPT ![c] = upstream[key[c]]]
    /\ UNCHANGED <<upstream, cache, inflight, errors, key, event, floor, due, disturbed>>

(* ... or raises. *)
LoaderRaises(c) ==
    /\ pc[c] = "loading"
    /\ Goto(c, "raised")
    /\ UNCHANGED <<upstream, cache, inflight, errors, key, event, got, floor, due, disturbed>>

(* Mutant: the registration is popped on success only. *)
PublishKeepsFailedRegistration(c) ==
    LET k == key[c] IN
    /\ \/ /\ pc[c] = "loaded"
          /\ inflight' = [inflight EXCEPT ![k] = None]
          /\ cache' = [cache EXCEPT ![k] = [ver |-> got[c], fresh |-> TRUE]]
          /\ Goto(c, "published")
          /\ UNCHANGED <<errors, disturbed>>
       \/ /\ pc[c] = "raised"
          /\ errors' = [errors EXCEPT ![k] = TRUE]
          /\ Goto(c, "failed")
          /\ disturbed' = [disturbed EXCEPT ![k] = @ \/ Waiters(c) # {}]
          /\ UNCHANGED <<inflight, cache>>
    /\ UNCHANGED <<upstream, key, event, got, floor, due>>

(* The finally block's critical section: store the value or park the error *)
(* and pop the key's in-flight registration, whoever registered it.        *)
Publish(c) ==
    LET k == key[c] IN
    /\ inflight' = [inflight EXCEPT ![k] = None]
    /\ \/ /\ pc[c] = "loaded"
          /\ cache' = [cache EXCEPT ![k] = [ver |-> got[c], fresh |-> TRUE]]
          /\ Goto(c, "published")
          /\ UNCHANGED <<errors, disturbed>>
       \/ /\ pc[c] = "raised"
          /\ errors' = [errors EXCEPT ![k] = TRUE]
          /\ Goto(c, "failed")
          /\ disturbed' = [disturbed EXCEPT ![k] = @ \/ Waiters(c) # {}]
          /\ UNCHANGED cache
    /\ UNCHANGED <<upstream, key, event, got, floor, due>>

(* Mutant: a raising loader does not set its Event. *)
SignalOnSuccessOnly(c) ==
    LET woken == IF pc[c] = "published" THEN Waiters(c) ELSE {} IN
    /\ pc[c] \in {"published", "failed"}
    /\ pc' = [d \in Callers |-> IF d = c THEN "idle"
                                ELSE IF d \in woken THEN "woken" ELSE pc[d]]
    /\ event' = [d \in Callers |-> IF d = c \/ d \in woken THEN None ELSE event[d]]
    /\ Leave(c, IF pc[c] = "published" THEN "value" ELSE "error", got[c])
    /\ got' = [got EXCEPT ![c] = 0]
    /\ UNCHANGED <<upstream, cache, inflight, errors, key, floor, disturbed>>

(* inflight.set() outside the lock, then the return or the raise. *)
Signal(c) ==
    /\ pc[c] \in {"published", "failed"}
    /\ pc' = [d \in Callers |-> IF d = c THEN "idle"
                                ELSE IF d \in Waiters(c) THEN "woken" ELSE pc[d]]
    /\ event' = [d \in Callers |-> IF d = c \/ d \in Waiters(c) THEN None ELSE event[d]]
    /\ Leave(c, IF pc[c] = "published" THEN "value" ELSE "error", got[c])
    /\ got' = [got EXCEPT ![c] = 0]
    /\ UNCHANGED <<upstream, cache, inflight, errors, key, floor, disturbed>>

(* Mutant: an invalidation expires the entries instead of removing them. *)
DropExpires(S) ==
    /\ cache' = [k \in Keys |-> IF k \in S /\ cache[k] # None
                                THEN [cache[k] EXCEPT !.fresh = FALSE] ELSE cache[k]]
    /\ floor' = [k \in Keys |->
                   IF k \in S /\ Loading(k) = {} THEN upstream[k] ELSE floor[k]]
    /\ outcome' = None
    /\ disturbed' = [k \in Keys |-> disturbed[k] \/ (k \in S /\ Busy(k) # {})]
    /\ UNCHANGED <<upstream, inflight, pc, key, event, got, due>>

(* Dropping the entries of S: what the history remembers of it. *)
Drop(S) ==
    /\ cache' = [k \in Keys |-> IF k \in S THEN None ELSE cache[k]]
    /\ floor' = [k \in Keys |->
                   IF k \in S /\ Loading(k) = {} THEN upstream[k] ELSE floor[k]]
    /\ outcome' = None
    /\ disturbed' = [k \in Keys |-> disturbed[k] \/ (k \in S /\ Busy(k) # {})]
    /\ UNCHANGED <<upstream, inflight, pc, key, event, got, due>>

(* _cache_pop and _cache_pop_matching: a mutating route drops what it made *)
(* stale, within its own host's keys.                                      *)
Invalidate(S) == Drop(S) /\ UNCHANGED errors

(* POST /api/cache/clear: every entry of every host, and the parked errors *)
(* of loads already over. The route then clears the state of other         *)
(* components, ClearUsage of SharedUsageScans among them.                  *)
CacheClear ==
    /\ Drop(Keys)
    /\ errors' = [k \in Keys |-> FALSE]

(* The data behind a key changes. *)
UpstreamChange(k) ==
    /\ upstream[k] < MaxVersion
    /\ upstream' = [upstream EXCEPT ![k] = @ + 1]
    /\ outcome' = None
    /\ UNCHANGED <<cache, inflight, errors, pc, key, event, got, floor, due, disturbed>>

(* An entry's ttl runs out. *)
Expire(k) ==
    /\ Fresh(k)
    /\ cache' = [cache EXCEPT ![k] = [ver |-> @.ver, fresh |-> FALSE]]
    /\ outcome' = None
    /\ UNCHANGED <<upstream, inflight, errors, pc, key, event, got, floor, due, disturbed>>

CacheGet(c) ==
    \/ \E k \in Keys : Hit(c, k) \/ BecomeLoader(c, k) \/ Join(c, k)
    \/ WaitTimeout(c) \/ Reread(c)
    \/ LoaderReturns(c) \/ LoaderRaises(c) \/ Publish(c) \/ Signal(c)

Environment ==
    \/ \E S \in Scopes : Invalidate(S)
    \/ CacheClear
    \/ \E k \in Keys : UpstreamChange(k) \/ Expire(k)

Next == (\E c \in Callers : CacheGet(c)) \/ Environment

Spec == Init /\ [][Next]_vars

(* A loader() finishes one way or the other and a runnable thread runs.    *)
(* Nothing is assumed of timeouts, invalidations or new calls.             *)
Running(c) == LoaderReturns(c) \/ LoaderRaises(c) \/ Publish(c) \/ Signal(c) \/ Reread(c)

FairSpec == Spec /\ \A c \in Callers : WF_vars(Running(c))

-----------------------------------------------------------------------------
(* Properties. *)

(* A registration in _CACHE_INFLIGHT always belongs to a thread that still *)
(* has its publishing critical section ahead of it: an orphaned one would  *)
(* make every later caller of the key wait for an Event nobody sets, on    *)
(* each request, until the process restarts.                               *)
RegistrationIsLive ==
    \A k \in Keys : inflight[k] # None =>
        inflight[k] \in Loading(k) /\ event[inflight[k]] = inflight[k]

(* A waiter waits on the Event of a thread that has yet to set it, for the *)
(* same key, even after another load has popped that thread's              *)
(* registration (the unconditional pop of the finally block).              *)
WaiterHasLoader ==
    \A w \in Callers : pc[w] = "waiting" =>
        /\ event[w] \in Callers
        /\ event[event[w]] = event[w]
        /\ key[event[w]] = key[w]
        /\ pc[event[w]] \in {"loading", "loaded", "raised", "published", "failed"}

(* The coalescing _cache_get does give: as long as no load of the key has  *)
(* failed with waiters behind it and no invalidation has hit it under a    *)
(* call, at most one thread is in the key's loader.                        *)
Coalesced ==
    \A k \in Keys : ~disturbed[k] => \A c, d \in Loading(k) : c = d

(* A call that begins after an invalidation that found no load of the key  *)
(* running returns data at least as recent as that invalidation, through   *)
(* whichever of the three paths (hit, wait, own load) it is answered.      *)
FreshAfterQuietInvalidation ==
    outcome # None /\ outcome.kind = "value" => outcome.ver >= outcome.due

(* While coalescing holds, a finishing load never replaces an entry by     *)
(* older data: the loads of a key are then ordered, so the last to publish *)
(* was also the last to read.                                              *)
EntryNeverRegresses ==
    [][\A k \in Keys :
         ~disturbed'[k] /\ cache[k] # None /\ cache'[k] # None
            => cache'[k].ver >= cache[k].ver]_vars

(* No caller is stuck: every call of _cache_get returns or raises, with no *)
(* help from the wait timeout, although registrations are popped by loads  *)
(* that did not make them.                                                 *)
EveryCallReturns ==
    \A c \in Callers : (pc[c] # "idle") ~> (pc[c] = "idle")
=============================================================================
