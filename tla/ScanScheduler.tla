---------------------------- MODULE ScanScheduler ----------------------------
(***************************************************************************)
(* The browser's scan scheduler (state/scanScheduler.ts), the activity     *)
(* counter it feeds (state/scanActivityStore.ts) and the session epoch     *)
(* that resets both (state/sessionCache.ts).                               *)
(*                                                                         *)
(* JavaScript runs one task at a time: an action is one synchronous call   *)
(* or one callback, and the micro-tasks a call leaves behind (a queued     *)
(* drain, the start of a job that got a lane, the end of its promise) are  *)
(* actions of their own.  A job is named by the order of its creation,     *)
(* which is the order of the Map the scheduler iterates.                   *)
(***************************************************************************)
EXTENDS Naturals, FiniteSets

CONSTANTS
    Keys,       \* the scans' loading fields
    CheapKeys,  \* those whose policy says `cheap`
    MaxPriority,
    MaxJobs,    \* bound on the jobs one behaviour creates
    MaxEpoch,   \* bound on the session changes
    None

LaneNames == {"cheap", "foreground", "background"}

ASSUME SchedulerAssumption ==
    /\ CheapKeys \subseteq Keys
    /\ MaxPriority \in Nat
    /\ MaxJobs \in Nat
    /\ MaxEpoch \in Nat
    /\ None \notin 1..MaxJobs
    /\ None \notin Keys \cup LaneNames

Jobs == 1..MaxJobs
Priorities == 0..MaxPriority
Stages == {"none", "queued", "granted", "running", "ended", "over"}

VARIABLES
    table,    \* jobs: the Map from key to job
    job,      \* every job created: its fields and how far it has come
    created,  \* number of jobs created
    enabled,
    drains,   \* a drain is queued as a micro-task
    epoch,    \* _epoch of the session cache
    activity  \* scanActivityStore

schedulerVars == <<table, job, created, enabled, drains, epoch, activity>>

Job == [key : Keys \cup {None}, priority : Priorities, lane : LaneNames \cup {None},
        aborted : BOOLEAN, settled : BOOLEAN, stage : Stages, epoch : 0..MaxEpoch]

Unborn == [key |-> None, priority |-> 0, lane |-> None, aborted |-> FALSE,
           settled |-> FALSE, stage |-> "none", epoch |-> 0]

(* A job nobody refers to any more: only that it was settled is kept.      *)
Over == [Unborn EXCEPT !.settled = TRUE, !.stage = "over"]

SchedulerTypeOK ==
    /\ table \in [Keys -> Jobs \cup {None}]
    /\ job \in [Jobs -> Job]
    /\ created \in 0..MaxJobs
    /\ enabled \in BOOLEAN
    /\ drains \in BOOLEAN
    /\ epoch \in 0..MaxEpoch
    /\ activity \in Nat

SchedulerInit ==
    /\ table = [k \in Keys |-> None]
    /\ job = [j \in Jobs |-> Unborn]
    /\ created = 0
    /\ enabled = FALSE
    /\ drains = FALSE
    /\ epoch = 0
    /\ activity = 0

-----------------------------------------------------------------------------
(* drain()                                                                 *)

Listed(t) == {t[k] : k \in Keys} \ {None}

LaneOf(r) ==
    IF r.key \in CheapKeys THEN "cheap"
    ELSE IF r.priority = 0 THEN "foreground" ELSE "background"

LaneLimit(lane) == IF lane = "cheap" THEN 2 ELSE 1

(* Array.sort is stable: equal priorities keep the order of insertion.     *)
Before(js, i, j) ==
    \/ js[i].priority < js[j].priority
    \/ js[i].priority = js[j].priority /\ i < j

(* Mutant: background jobs do not wait for enable(true).                   *)
EligibleAlways(t, js, on) == {j \in Listed(t) : js[j].lane = None}

Eligible(t, js, on) ==
    {j \in Listed(t) : js[j].lane = None /\ (on \/ js[j].priority = 0)}

Holders(t, js, lane) == {j \in Listed(t) : js[j].lane = lane}

(* The jobs one pass of the loop gives a lane: in every lane the first in  *)
(* the sorted order, as many as it has free slots.                         *)
Winners(t, js, on) ==
    {j \in Eligible(t, js, on) :
        LET lane == LaneOf(js[j])
            ahead == {i \in Eligible(t, js, on) :
                        LaneOf(js[i]) = lane /\ Before(js, i, j)}
        IN  Cardinality(Holders(t, js, lane)) + Cardinality(ahead) < LaneLimit(lane)}

Drained(t, js, on) ==
    [j \in Jobs |->
        IF j \in Winners(t, js, on)
        THEN [js[j] EXCEPT !.lane = LaneOf(js[j]), !.stage = "granted"]
        ELSE js[j]]

(* Mutant: finish() looks neither at `ended` nor at the epoch.             *)
FinishUnguarded(j, e) == activity' = activity - 1

(* finish() of beginScanActivity, called by settle: once per job, and not  *)
(* for a job of another session.                                           *)
Finish(j, e) ==
    activity' = IF job[j].settled \/ job[j].epoch # e \/ activity = 0
                THEN activity ELSE activity - 1

-----------------------------------------------------------------------------
(* The scheduler's interface.                                              *)

(* Mutant: joining a job lowers its priority without a drain.              *)
EnqueueNoDrain(k, p) ==
    /\ IF table[k] # None
       THEN /\ job' = [job EXCEPT ![table[k]].priority = IF p < @ THEN p ELSE @]
            /\ UNCHANGED <<table, created, activity, drains>>
       ELSE /\ created < MaxJobs
            /\ created' = created + 1
            /\ table' = [table EXCEPT ![k] = created + 1]
            /\ job' = [job EXCEPT ![created + 1] =
                        [Unborn EXCEPT !.key = k, !.priority = p,
                                       !.stage = "queued", !.epoch = epoch]]
            /\ activity' = activity + 1
            /\ drains' = TRUE
    /\ UNCHANGED <<enabled, epoch>>

(* enqueue(key, priority, cheap, run): join the job of this key, whatever  *)
(* has become of it, or create one.                                        *)
Enqueue(k, p) ==
    /\ drains' = TRUE
    /\ IF table[k] # None
       THEN /\ job' = [job EXCEPT ![table[k]].priority = IF p < @ THEN p ELSE @]
            /\ UNCHANGED <<table, created, activity>>
       ELSE /\ created < MaxJobs
            /\ created' = created + 1
            /\ table' = [table EXCEPT ![k] = created + 1]
            /\ job' = [job EXCEPT ![created + 1] =
                        [Unborn EXCEPT !.key = k, !.priority = p,
                                       !.stage = "queued", !.epoch = epoch]]
            /\ activity' = activity + 1
    /\ UNCHANGED <<enabled, epoch>>

(* Mutant: a running job leaves the table when it is cancelled.            *)
CancelForgets(k) ==
    /\ table[k] # None
    /\ table' = [table EXCEPT ![k] = None]
    /\ job' = [job EXCEPT ![table[k]].aborted = TRUE]
    /\ UNCHANGED <<created, enabled, drains, epoch, activity>>

(* cancel(key): a job that has no lane yet is dropped and settled, a       *)
(* running one only sees its signal.                                       *)
Cancel(k) ==
    /\ table[k] # None
    /\ LET j == table[k] IN
       IF job[j].lane = None
       THEN /\ table' = [table EXCEPT ![k] = None]
            /\ job' = [job EXCEPT ![j] = Over]
            /\ Finish(j, epoch)
       ELSE /\ job' = [job EXCEPT ![j].aborted = TRUE]
            /\ UNCHANGED <<table, activity>>
    /\ UNCHANGED <<created, enabled, drains, epoch>>

Enable(v) ==
    /\ enabled' = v
    /\ job' = IF v THEN Drained(table, job, v) ELSE job
    /\ UNCHANGED <<table, created, drains, epoch, activity>>

(* bumpSessionEpoch: the epoch moves first, then its listeners: the        *)
(* counter starts again at 0 and reset() aborts, settles and forgets every *)
(* job, those that still run included.                                     *)
Reset ==
    /\ epoch < MaxEpoch
    /\ epoch' = epoch + 1
    /\ enabled' = FALSE
    /\ job' = [j \in Jobs |->
                IF j \in Listed(table)
                THEN IF job[j].lane = None THEN Over
                     ELSE [job[j] EXCEPT !.aborted = TRUE, !.settled = TRUE]
                ELSE job[j]]
    /\ table' = [k \in Keys |-> None]
    /\ activity' = 0
    /\ UNCHANGED <<created, drains>>

-----------------------------------------------------------------------------
(* The micro-tasks.                                                        *)

Drain ==
    /\ drains
    /\ drains' = FALSE
    /\ job' = Drained(table, job, enabled)
    /\ UNCHANGED <<table, created, enabled, epoch, activity>>

(* The first then(): the job runs unless it was aborted since it got its   *)
(* lane.                                                                   *)
Begin(j) ==
    /\ job[j].stage = "granted"
    /\ job' = [job EXCEPT ![j].stage = IF job[j].aborted THEN "ended" ELSE "running"]
    /\ UNCHANGED <<table, created, enabled, drains, epoch, activity>>

(* job.run's promise resolves or rejects; the catch() ignores which.       *)
RunEnds(j) ==
    /\ job[j].stage = "running"
    /\ job' = [job EXCEPT ![j].stage = "ended"]
    /\ UNCHANGED <<table, created, enabled, drains, epoch, activity>>

(* Mutant: the key is deleted whichever job it lists by now.               *)
FinallyByKey(j) ==
    /\ job[j].stage = "ended"
    /\ LET t == [table EXCEPT ![job[j].key] = None]
           js == [job EXCEPT ![j] = Over]
       IN  /\ table' = t
           /\ job' = Drained(t, js, enabled)
    /\ Finish(j, epoch)
    /\ UNCHANGED <<created, enabled, drains, epoch>>

(* Mutant: the freed slot is not offered to the jobs that wait.            *)
FinallyNoDrain(j) ==
    /\ job[j].stage = "ended"
    /\ table' = [k \in Keys |-> IF table[k] = j THEN None ELSE table[k]]
    /\ job' = [job EXCEPT ![j] = Over]
    /\ Finish(j, epoch)
    /\ UNCHANGED <<created, enabled, drains, epoch>>

(* finally(): leave the table unless it lists another job by now, settle,  *)
(* and drain.                                                              *)
Finally(j) ==
    /\ job[j].stage = "ended"
    /\ LET t == [k \in Keys |-> IF table[k] = j THEN None ELSE table[k]]
           js == [job EXCEPT ![j] = Over]
       IN  /\ table' = t
           /\ job' = Drained(t, js, enabled)
    /\ Finish(j, epoch)
    /\ UNCHANGED <<created, enabled, drains, epoch>>

SchedulerNext ==
    \/ \E k \in Keys, p \in Priorities : Enqueue(k, p)
    \/ \E k \in Keys : Cancel(k)
    \/ \E v \in BOOLEAN : Enable(v)
    \/ Reset
    \/ Drain
    \/ \E j \in Jobs : Begin(j) \/ RunEnds(j) \/ Finally(j)

SchedulerSpec == SchedulerInit /\ [][SchedulerNext]_schedulerVars

-----------------------------------------------------------------------------
(* Properties.                                                             *)

Busy(j) == job[j].stage \in {"granted", "running", "ended"}

(* "Running jobs retain their slot until cancellation actually settles":   *)
(* the jobs of this session that run, cancelled or not, never exceed the   *)
(* slots of their lane, though cancel, a second enqueue and the ends of    *)
(* earlier jobs edit the table under them.                                 *)
RunningWithinLanes ==
    \A lane \in LaneNames :
        Cardinality({j \in Jobs : Busy(j) /\ job[j].epoch = epoch
                                          /\ job[j].lane = lane}) <= LaneLimit(lane)

(* One scan of a key at a time in a session, and the table lists exactly   *)
(* the jobs of this session that are not over: a finished job cannot be    *)
(* joined, and a job that runs cannot be started again.                    *)
TableListsLiveJobs ==
    \A j \in Jobs :
        (job[j].stage \notin {"none", "over"} /\ job[j].epoch = epoch)
            <=> (\E k \in Keys : table[k] = j)

(* No lane is left idle: when no drain is pending, a job that may run and  *)
(* waits is kept waiting by a full lane.  Every way a slot or a priority   *)
(* changes must therefore end in a drain.                                  *)
NoIdleLane ==
    ~drains => \A j \in Jobs :
        (/\ job[j].stage = "queued"
         /\ enabled \/ job[j].priority = 0)
            => LET lane == IF job[j].key \in CheapKeys THEN "cheap"
                           ELSE IF job[j].priority = 0 THEN "foreground" ELSE "background"
               IN  Cardinality({i \in Jobs : /\ job[i].lane = lane /\ Busy(i)
                                             /\ job[i].epoch = epoch})
                        >= (IF lane = "cheap" THEN 2 ELSE 1)

(* The activity counter of the page is the number of unsettled jobs of     *)
(* this session, although reset settles jobs that settle again when they   *)
(* end, in a session that counts its own.                                  *)
ActivityCountsUnsettled ==
    activity = Cardinality({j \in Jobs : /\ job[j].stage # "none"
                                         /\ job[j].epoch = epoch
                                         /\ ~job[j].settled})

(* The scheduler's books are right: table, slots and counter agree with    *)
(* the jobs that exist, through cancellations and resets.                  *)
BooksBalance ==
    /\ SchedulerTypeOK
    /\ RunningWithinLanes
    /\ TableListsLiveJobs
    /\ ActivityCountsUnsettled

(* A promise handed to a caller for the page in front is settled in the    *)
(* end, whatever is cancelled, reset or queued beside it.                  *)
ForegroundSettles ==
    \A j \in Jobs : (job[j].stage = "queued" /\ job[j].priority = 0) ~> job[j].settled

(* The promise the scheduler makes, free of its table and its micro-tasks. *)
Lanes == INSTANCE ScanLanes WITH
    Requests <- Jobs,
    waiting <- {j \in Listed(table) : job[j].lane = None},
    serving <- [l \in LaneNames |-> Holders(table, job, l)],
    settled <- {j \in Jobs : job[j].settled},
    small <- {j \in Listed(table) : job[j].key \in CheapKeys},
    urgent <- {j \in Listed(table) : job[j].priority = 0},
    open <- enabled

(* The scheduler implements ScanLanes: a request is served in one lane     *)
(* with a free slot, in the background only while it is open, and settled  *)
(* once.                                                                   *)
ImplementsLanes == Lanes!LanesSpec

=============================================================================
