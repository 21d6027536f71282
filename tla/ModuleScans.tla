----------------------------- MODULE ModuleScans -----------------------------
(***************************************************************************)
(* The scan stores of the browser's modules                                *)
(* (state/createModuleScanStore.ts) on top of the scan scheduler: load and *)
(* abort, the run of one scan with its stream, fallback, timeout and abort *)
(* signals, and the session epoch.                                         *)
(*                                                                         *)
(* Data is abstracted to the session it was fetched in.                    *)
(***************************************************************************)
EXTENDS ScanScheduler

CONSTANTS
    StreamKeys,    \* stores with a streamEndpoint
    FallbackKeys   \* stores with a fallbackEndpoint

(* createModuleScanStore refuses a store with neither endpoint. *)
ASSUME StoresAssumption == StreamKeys \cup FallbackKeys = Keys

VARIABLES
    store,    \* the ScanState of each key
    current,  \* currentController: the job whose run owns it
    scan,     \* the locals of runScan, per job
    retry     \* history: a forced load was made since the last abort

storeVars == <<store, current, scan, retry>>
vars == <<schedulerVars, storeVars>>

Phases == {"", "starting", "scanning", "complete", "aborted"}

ScanState == [started : BOOLEAN, loading : BOOLEAN, phase : Phases,
              error : BOOLEAN, data : 0..MaxEpoch \cup {None}, fresh : BOOLEAN]

(* Where a run waits: for the stream's response, its next event, or JSON.  *)
Scan == [at : {"off", "response", "event", "json"}, epoch : 0..MaxEpoch,
         aborted : BOOLEAN, timedOut : BOOLEAN]

TypeOK ==
    /\ SchedulerTypeOK
    /\ store \in [Keys -> ScanState]
    /\ current \in [Keys -> Jobs \cup {None}]
    /\ scan \in [Jobs -> Scan]
    /\ retry \in [Keys -> BOOLEAN]

InitialState == [started |-> FALSE, loading |-> FALSE, phase |-> "",
                 error |-> FALSE, data |-> None, fresh |-> FALSE]

NoScan == [at |-> "off", epoch |-> 0, aborted |-> FALSE, timedOut |-> FALSE]

Init ==
    /\ SchedulerInit
    /\ store = [k \in Keys |-> InitialState]
    /\ current = [k \in Keys |-> None]
    /\ scan = [j \in Jobs |-> NoScan]
    /\ retry = [k \in Keys |-> FALSE]

-----------------------------------------------------------------------------
(* What the pages call.                                                    *)

(* load(force, priority): nothing for a paused scan unless forced, nothing *)
(* while the data is fresh, otherwise a job of the scheduler.              *)
Satisfied(s) == s.data # None /\ ~s.error /\ s.fresh

(* Mutant: a page's load restarts a paused scan.                           *)
LoadResumes(k, force, p) ==
    /\ force \/ ~Satisfied(store[k])
    /\ Enqueue(k, p)
    /\ retry' = [retry EXCEPT ![k] = @ \/ force]
    /\ UNCHANGED <<store, current, scan>>

Load(k, force, p) ==
    /\ force \/ (store[k].phase # "aborted" /\ ~Satisfied(store[k]))
    /\ Enqueue(k, p)
    /\ retry' = [retry EXCEPT ![k] = @ \/ force]
    /\ UNCHANGED <<store, current, scan>>

(* abort(): the scheduler's signal, to which the run's controller listens, *)
(* and the controller of the run under way.                                *)
Abort(k) ==
    /\ table[k] # None \/ current[k] # None
    /\ IF table[k] # None THEN Cancel(k) ELSE UNCHANGED schedulerVars
    /\ scan' = [j \in Jobs |->
                IF j \in {current[k], table[k]} /\ scan[j].at # "off"
                THEN [scan[j] EXCEPT !.aborted = TRUE] ELSE scan[j]]
    /\ retry' = [retry EXCEPT ![k] = FALSE]
    /\ UNCHANGED <<store, current>>

(* The data grows older than its ttl. *)
Expire(k) ==
    /\ store[k].fresh
    /\ store' = [store EXCEPT ![k].fresh = FALSE]
    /\ UNCHANGED <<schedulerVars, current, scan, retry>>

(* bumpSessionEpoch: every store is as at the start, every run aborted.    *)
Bump ==
    /\ Reset
    /\ store' = [k \in Keys |-> InitialState]
    /\ current' = [k \in Keys |-> None]
    /\ scan' = [j \in Jobs |-> IF scan[j].at = "off" THEN scan[j]
                               ELSE [scan[j] EXCEPT !.aborted = TRUE]]
    /\ retry' = [k \in Keys |-> FALSE]

(* lifecycle(): the phase the pages show; a paused scan counts as running. *)
LifecyclePhase(s) ==
    IF ~s.started THEN "queued"
    ELSE IF s.phase = "aborted" \/ s.loading THEN "running"
    ELSE IF s.error THEN "error" ELSE "done"

-----------------------------------------------------------------------------
(* runScan                                                                 *)

(* Mutant: patch() without the epoch.                                      *)
PatchedAlways(j, s, new) == new

(* patch(): only into the session the run began in. *)
Patched(j, s, new) == IF scan[j].epoch = epoch THEN new ELSE s

BeginScan(j) ==
    LET k == job[j].key IN
    /\ Begin(j)
    /\ IF job[j].aborted
       THEN UNCHANGED <<store, current, scan>>
       ELSE /\ scan' = [scan EXCEPT ![j] = [NoScan EXCEPT !.epoch = epoch,
                            !.at = IF k \in StreamKeys THEN "response" ELSE "json"]]
            /\ current' = [current EXCEPT ![k] = j]
            /\ store' = [store EXCEPT ![k].loading = TRUE, ![k].error = FALSE,
                            ![k].started = TRUE, ![k].phase = "starting"]
    /\ UNCHANGED retry

(* The finally block: the store becomes s, the spinner goes, the promise   *)
(* resolves.                                                               *)
Leave(j, s) ==
    LET k == job[j].key IN
    /\ RunEnds(j)
    /\ scan' = [scan EXCEPT ![j] = NoScan]
    /\ current' = [current EXCEPT ![k] = IF @ = j THEN None ELSE @]
    /\ store' = [store EXCEPT ![k] =
                    Patched(j, @, [s EXCEPT !.loading = FALSE, !.fresh = TRUE])]
    /\ UNCHANGED retry

WithData(j, s) == [s EXCEPT !.data = scan[j].epoch, !.phase = "complete"]

(* The fallback answers (with or without a stream refused before it). *)
JsonReply(j) ==
    /\ scan[j].at = "json" /\ ~scan[j].aborted
    /\ Leave(j, WithData(j, store[job[j].key]))

(* The stream is refused and there is a fallback to ask. *)
StreamRefused(j) ==
    /\ scan[j].at = "response" /\ ~scan[j].aborted
    /\ job[j].key \in FallbackKeys
    /\ scan' = [scan EXCEPT ![j].at = "json"]
    /\ UNCHANGED <<schedulerVars, store, current, retry>>

StreamOpens(j) ==
    /\ scan[j].at = "response" /\ ~scan[j].aborted
    /\ scan' = [scan EXCEPT ![j].at = "event"]
    /\ UNCHANGED <<schedulerVars, store, current, retry>>

(* One event: partial data, the final result, or an error the scan itself  *)
(* reports.  The loop is left when the run was aborted meanwhile.          *)
StreamEvent(j) ==
    LET k == job[j].key IN
    /\ scan[j].at = "event"
    /\ IF scan[j].aborted \/ scan[j].epoch # epoch
       THEN Leave(j, store[k])
       ELSE /\ \E s \in {[store[k] EXCEPT !.data = scan[j].epoch, !.phase = "scanning"],
                         WithData(j, store[k]),
                         [store[k] EXCEPT !.error = TRUE]} :
                    store' = [store EXCEPT ![k] = Patched(j, @, s)]
            /\ UNCHANGED <<schedulerVars, current, scan, retry>>

StreamCloses(j) ==
    /\ scan[j].at = "event" /\ ~scan[j].aborted
    /\ Leave(j, store[job[j].key])

(* The catch block for anything but an abort: a failed request, a refused  *)
(* stream without a fallback, a broken connection.                         *)
Fails(j) ==
    /\ scan[j].at # "off" /\ ~scan[j].aborted
    /\ Leave(j, [store[job[j].key] EXCEPT !.error = TRUE])

Timeout(j) ==
    /\ scan[j].at # "off" /\ ~scan[j].timedOut
    /\ scan' = [scan EXCEPT ![j].aborted = TRUE, ![j].timedOut = TRUE]
    /\ UNCHANGED <<schedulerVars, store, current, retry>>

(* Mutant: the catch returns on an abort before the spinner is taken down. *)
AbortLandsEarlyReturn(j) ==
    /\ scan[j].at # "off" /\ scan[j].aborted
    /\ RunEnds(j)
    /\ scan' = [scan EXCEPT ![j] = NoScan]
    /\ UNCHANGED <<store, current, retry>>

(* The catch block for an abort: paused, or an error if the timer did it.  *)
AbortLands(j) ==
    LET s == store[job[j].key] IN
    /\ scan[j].at # "off" /\ scan[j].aborted
    /\ Leave(j, IF scan[j].timedOut
                THEN [s EXCEPT !.error = TRUE]
                ELSE [s EXCEPT !.error = FALSE, !.phase = "aborted"])

-----------------------------------------------------------------------------

(* The scheduler's own micro-tasks leave the stores alone. *)
Quietly(A) == A /\ UNCHANGED storeVars

ScanStep(j) ==
    \/ JsonReply(j) \/ StreamRefused(j) \/ StreamOpens(j) \/ StreamEvent(j)
    \/ StreamCloses(j) \/ Fails(j)

Next ==
    \/ \E k \in Keys, force \in BOOLEAN, p \in Priorities : Load(k, force, p)
    \/ \E k \in Keys : Abort(k) \/ Expire(k)
    \/ \E v \in BOOLEAN : Quietly(Enable(v))
    \/ Bump
    \/ Quietly(Drain)
    \/ \E j \in Jobs : \/ BeginScan(j) \/ ScanStep(j) \/ Timeout(j)
                       \/ AbortLands(j) \/ Quietly(Finally(j))

Spec == Init /\ [][Next]_vars

(* Micro-tasks and timers run, and an abort reaches a pending read.  The   *)
(* server is not assumed to answer.                                        *)
Fairness ==
    /\ WF_vars(Quietly(Drain))
    /\ \A j \in Jobs : /\ WF_vars(BeginScan(j))
                       /\ WF_vars(Timeout(j))
                       /\ WF_vars(AbortLands(j))
                       /\ WF_vars(Quietly(Finally(j)))

FairSpec == Spec /\ Fairness

-----------------------------------------------------------------------------
(* Properties.                                                             *)

(* A page shows this session only: its data was fetched in it, a store no  *)
(* run of this session has touched is as at the start, and the end of a    *)
(* run of an earlier session does not take down the spinner of a run under *)
(* way.                                                                    *)
OnlyThisSessionShows ==
    \A k \in Keys :
        /\ store[k].data \in {None, epoch}
        /\ ~store[k].started => store[k] = InitialState
        /\ (\E j \in Jobs : /\ scan[j].at # "off" /\ scan[j].epoch = epoch
                            /\ job[j].key = k) => store[k].loading

(* A lifecycle that says running, and not paused, is backed by a run of    *)
(* this session that abort() reaches: its controller is the current one or *)
(* the scheduler's.                                                        *)
SpinnerCanBeStopped ==
    \A k \in Keys :
      (LifecyclePhase(store[k]) = "running" /\ store[k].phase # "aborted") =>
        \E j \in Jobs : /\ job[j].stage = "running" /\ job[j].key = k
                        /\ scan[j].epoch = epoch
                        /\ j \in {current[k], table[k]}

(* Stores and runs agree, in type and in who is running.                   *)
StoresBacked == TypeOK /\ SpinnerCanBeStopped

(* A scan the user paused is resumed by a forced load or a new session,    *)
(* never by a load of a page or of the warm-up that was on its way.        *)
PausedStaysPaused ==
    [][\A k \in Keys :
        (store[k].phase = "aborted" /\ store'[k].phase # "aborted")
            => (retry[k] \/ epoch' # epoch)]_vars

=============================================================================
