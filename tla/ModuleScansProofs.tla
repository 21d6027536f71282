-------------------------- MODULE ModuleScansProofs --------------------------
(* Proofs about ScanScheduler and ModuleScans, for any set of keys and any *)
(* bounds.  The scheduler comes first: nothing in its part is about the    *)
(* stores.  The stores rest on its invariant: of the jobs of a session     *)
(* that are alive the table lists at most one for a key, so a run that     *)
(* ends, fails or is aborted is the one its store shows.                   *)
EXTENDS ModuleScans, FiniteSetTheorems, TLAPS

LiveStages == {"queued", "granted", "running", "ended"}
BusyStages == {"granted", "running", "ended"}

(* What is true of each job in session e, c jobs having been created.      *)
JobFollows(r, t, j, c, e) ==
    /\ r.epoch <= e
    /\ r.stage = "none" <=> j > c
    /\ r.stage = "none" => r = Unborn
    /\ r.stage = "over" => r = Over
    /\ r.stage = "queued" => r.lane = None /\ r.epoch = e
    /\ r.stage \in BusyStages => r.lane \in LaneNames
    /\ r.stage \in LiveStages /\ r.epoch = e => ~r.settled /\ r.key \in Keys /\ t[r.key] = j
    /\ r.stage \in LiveStages /\ r.epoch # e => r.settled

(* A job the table lists is alive, of this session and of that key. *)
KeyFollows(t, js, k, e) ==
    t[k] # None => js[t[k]].key = k /\ js[t[k]].stage \in LiveStages /\ js[t[k]].epoch = e

Books(t, js, c, e) ==
    /\ t \in [Keys -> Jobs \cup {None}] /\ js \in [Jobs -> Job]
    /\ c \in 0..MaxJobs /\ e \in 0..MaxEpoch
    /\ \A j \in Jobs : JobFollows(js[j], t, j, c, e)
    /\ \A k \in Keys : KeyFollows(t, js, k, e)

(* No lane holds more jobs than it has slots ... *)
WithinLanes(t, js) ==
    \A lane \in LaneNames : Cardinality(Holders(t, js, lane)) <= LaneLimit(lane)

(* ... nor fewer while a job waits that may run in it. *)
LanesFull(t, js, on) ==
    \A j \in Eligible(t, js, on) :
        Cardinality(Holders(t, js, LaneOf(js[j]))) >= LaneLimit(LaneOf(js[j]))

SchedulerInv ==
    /\ Books(table, job, created, epoch)
    /\ enabled \in BOOLEAN /\ drains \in BOOLEAN
    /\ activity = Cardinality(Listed(table))
    /\ WithinLanes(table, job)
    /\ ~drains => LanesFull(table, job, enabled)

-----------------------------------------------------------------------------
(* Sizes of finite sets. *)

(* Sets of jobs are finite. *)
LEMMA JobSets ==
  ASSUME NEW S, S \subseteq Jobs
  PROVE  IsFiniteSet(S) /\ Cardinality(S) \in Nat
<1>1. IsFiniteSet(Jobs)
  BY FS_Interval, SchedulerAssumption DEF Jobs
<1> QED
  BY <1>1, FS_Subset, FS_CardinalityType

(* A subset is no larger. *)
LEMMA Grows ==
  ASSUME NEW S, NEW T, T \subseteq Jobs, S \subseteq T
  PROVE  Cardinality(S) <= Cardinality(T)
  BY JobSets, FS_Subset

(* Two members, or an element and a set beside it, make two. *)
LEMMA AtLeastTwo ==
  ASSUME NEW S, S \subseteq Jobs, NEW x \in S, NEW y \in S, x # y
  PROVE  Cardinality(S) >= 2
<1>1. /\ Cardinality(S \ {x}) = Cardinality(S) - 1
      /\ Cardinality((S \ {x}) \ {y}) = Cardinality(S \ {x}) - 1
  BY JobSets, FS_RemoveElement
<1>2. Cardinality((S \ {x}) \ {y}) \in Nat /\ Cardinality(S) \in Nat /\ Cardinality(S \ {x}) \in Nat
  BY JobSets
<1> QED
  BY <1>1, <1>2

(* A set with a member is not empty ... *)
LEMMA AtLeastOne ==
  ASSUME NEW S, S \subseteq Jobs, NEW x \in S
  PROVE  Cardinality(S) >= 1
<1>1. Cardinality(S \ {x}) = Cardinality(S) - 1
  BY JobSets, FS_RemoveElement
<1>2. Cardinality(S \ {x}) \in Nat /\ Cardinality(S) \in Nat
  BY JobSets
<1> QED
  BY <1>1, <1>2

(* ... and one without is. *)
LEMMA AtMostNone ==
  ASSUME NEW S, S \subseteq Jobs, S = {}
  PROVE  Cardinality(S) = 0
  BY FS_EmptySet

(* A set whose members are equal has at most one. *)
LEMMA AtMostOne ==
  ASSUME NEW S, S \subseteq Jobs, \A x, y \in S : x = y
  PROVE  Cardinality(S) <= 1
<1>1. CASE S = {}
  BY <1>1, FS_EmptySet
<1>2. CASE S # {}
  <2>1. PICK x \in S : TRUE
    BY <1>2
  <2>2. S = {x}
    BY <2>1
  <2> QED
    BY <2>2, FS_Singleton
<1> QED
  BY <1>1, <1>2

(* A set without three different members has at most two. *)
LEMMA AtMostTwo ==
  ASSUME NEW S, S \subseteq Jobs, \A x, y, z \in S : x = y \/ y = z \/ x = z
  PROVE  Cardinality(S) <= 2
<1>1. CASE S = {}
  BY <1>1, FS_EmptySet
<1>2. CASE S # {}
  <2>1. PICK x \in S : TRUE
    BY <1>2
  <2>2. Cardinality(S \ {x}) <= 1
    BY AtMostOne
  <2>3. Cardinality(S \ {x}) = Cardinality(S) - 1
    BY <2>1, JobSets, FS_RemoveElement
  <2>4. Cardinality(S \ {x}) \in Nat /\ Cardinality(S) \in Nat
    BY JobSets
  <2> QED
    BY <2>2, <2>3, <2>4
<1> QED
  BY <1>1, <1>2

(* Disjoint sets of jobs add up. *)
LEMMA Together ==
  ASSUME NEW S, NEW T, S \subseteq Jobs, T \subseteq Jobs, S \cap T = {}
  PROVE  Cardinality(S \cup T) = Cardinality(S) + Cardinality(T)
<1>1. IsFiniteSet(S) /\ IsFiniteSet(T) /\ Cardinality(S) \in Nat /\ Cardinality(T) \in Nat
  BY JobSets
<1>2. Cardinality(S \cup T) = Cardinality(S) + Cardinality(T) - Cardinality(S \cap T)
  BY <1>1, FS_Union
<1>3. Cardinality(S \cap T) = 0
  BY FS_EmptySet
<1> QED
  BY <1>1, <1>2, <1>3

-----------------------------------------------------------------------------
(* The order in which drain() offers slots. *)

(* It is total and strict, ties broken by age. *)
LEMMA BeforeIsTotal ==
  ASSUME NEW js \in [Jobs -> Job]
  PROVE  /\ \A i \in Jobs : ~Before(js, i, i)
         /\ \A i, j \in Jobs : i # j => Before(js, i, j) \/ Before(js, j, i)
         /\ \A h, i, j \in Jobs : Before(js, h, i) /\ Before(js, i, j) => Before(js, h, j)
<1>1. \A i \in Jobs : js[i].priority \in Nat /\ i \in Nat
  BY SchedulerAssumption DEF Job, Priorities, Jobs
<1> QED
  BY <1>1 DEF Before

(* Some job is the first of its set. *)
LEMMA FirstOf ==
  ASSUME NEW js \in [Jobs -> Job], NEW S, S \subseteq Jobs, S # {}
  PROVE  \E m \in S : \A i \in S : ~Before(js, i, m)
<1> DEFINE Ahead(j) == {i \in S : Before(js, i, j)}
           T == {Ahead(j) : j \in S}
<1>1. T \subseteq FiniteSubsetsOf(Jobs) /\ T # {}
  BY JobSets DEF FiniteSubsetsOf
<1>2. PICK x \in T : \A y \in T : ~(<<y, x>> \in StrictSubsetOrdering(Jobs))
  BY <1>1, FS_StrictSubsetOrderingWellFounded, WFMin
<1>3. PICK m \in S : x = Ahead(m)
  BY <1>2
<1>4. ASSUME NEW i \in S, Before(js, i, m) PROVE FALSE
  <2>1. Ahead(i) \subseteq Ahead(m) /\ i \in Ahead(m) /\ i \notin Ahead(i)
    BY <1>4, BeforeIsTotal
  <2>2. <<Ahead(i), Ahead(m)>> \in StrictSubsetOrdering(Jobs)
    BY <2>1 DEF StrictSubsetOrdering
  <2> QED
    BY <1>2, <1>3, <2>2
<1> QED
  BY <1>3, <1>4

-----------------------------------------------------------------------------
(* drain(). *)

(* What the table lists. *)
LEMMA ListedJobs ==
  ASSUME NEW t, NEW js, NEW c, NEW e, Books(t, js, c, e)
  PROVE  /\ Listed(t) \subseteq Jobs
         /\ \A lane : Holders(t, js, lane) \subseteq Jobs
         /\ \A j \in Listed(t) : /\ js[j].stage \in LiveStages /\ js[j].epoch = e
                                 /\ t[js[j].key] = j /\ js[j].key \in Keys
                                 /\ js[j].lane \in LaneNames \cup {None}
                                 /\ js[j].lane = None <=> js[j].stage = "queued"
<1>1. Listed(t) \subseteq Jobs
  BY DEF Books, Listed
<1>2. ASSUME NEW j \in Listed(t)
      PROVE  js[j].stage \in LiveStages /\ js[j].epoch = e
  BY <1>2 DEF Listed, Books, KeyFollows
<1>3. ASSUME NEW j \in Listed(t)
      PROVE  /\ t[js[j].key] = j /\ js[j].key \in Keys
             /\ js[j].lane \in LaneNames \cup {None}
             /\ js[j].lane = None <=> js[j].stage = "queued"
  <2>1. JobFollows(js[j], t, j, c, e) /\ js[j] \in Job
    BY <1>1, <1>3 DEF Books
  <2> QED
    BY <1>2, <2>1, SchedulerAssumption DEF JobFollows, LiveStages, BusyStages, Job
<1>4. \A lane : Holders(t, js, lane) \subseteq Jobs
  BY <1>1 DEF Holders
<1> QED
  BY <1>1, <1>2, <1>3, <1>4

(* Who waits in it, and who gets a lane. *)
LEMMA ListedFacts ==
  ASSUME NEW t, NEW js, NEW c, NEW e, NEW on, Books(t, js, c, e)
  PROVE  /\ Listed(t) \subseteq Jobs
         /\ \A lane : Holders(t, js, lane) \subseteq Jobs
         /\ Eligible(t, js, on) \subseteq Listed(t)
         /\ Winners(t, js, on) \subseteq Eligible(t, js, on)
         /\ \A j \in Eligible(t, js, on) : js[j].lane = None /\ js[j].stage = "queued"
<1>1. Listed(t) \subseteq Jobs /\ \A lane : Holders(t, js, lane) \subseteq Jobs
  BY ListedJobs
<1>2. Eligible(t, js, on) \subseteq Listed(t) /\ Winners(t, js, on) \subseteq Eligible(t, js, on)
  BY DEF Winners, Eligible
<1>3. \A j \in Eligible(t, js, on) : js[j].lane = None /\ js[j].stage = "queued"
  BY ListedJobs DEF Eligible
<1> QED
  BY <1>1, <1>2, <1>3

(* A drain only gives lanes to jobs that wait for one. *)
LEMMA DrainedJob ==
  ASSUME NEW t, NEW js, NEW c, NEW e, NEW on, Books(t, js, c, e), NEW j \in Jobs
  PROVE  LET d == Drained(t, js, on)
         IN  /\ d[j] \in Job
             /\ j \notin Winners(t, js, on) => d[j] = js[j]
             /\ j \in Winners(t, js, on) =>
                   /\ js[j].stage = "queued" /\ d[j].stage = "granted"
                   /\ d[j].lane = LaneOf(js[j]) /\ d[j].lane \in LaneNames
             /\ d[j].key = js[j].key /\ d[j].priority = js[j].priority
             /\ d[j].settled = js[j].settled /\ d[j].epoch = js[j].epoch
<1> DEFINE d == Drained(t, js, on)
<1>0. js[j] \in Job
  BY DEF Books
<1>1. CASE j \notin Winners(t, js, on)
  BY <1>0, <1>1 DEF Drained
<1>2. CASE j \in Winners(t, js, on)
  <2>1. d[j] = [js[j] EXCEPT !.lane = LaneOf(js[j]), !.stage = "granted"]
    BY <1>2 DEF Drained
  <2>2. LaneOf(js[j]) \in LaneNames
    BY DEF LaneOf, LaneNames
  <2>3. js[j].stage = "queued"
    BY <1>2, ListedFacts DEF Eligible
  <2> HIDE DEF d
  <2>4. d[j] \in Job
    BY <1>0, <2>1, <2>2 DEF Job, Stages
  <2> QED
    BY <1>0, <1>2, <2>1, <2>2, <2>3, <2>4 DEF Job, d
<1> QED
  BY <1>1, <1>2

(* The books are right after a drain if they were before it. *)
LEMMA DrainKeepsBooks ==
  ASSUME NEW t, NEW js, NEW c, NEW e, NEW on, Books(t, js, c, e)
  PROVE  Books(t, Drained(t, js, on), c, e)
<1> DEFINE d == Drained(t, js, on)
<1>1. d \in [Jobs -> Job]
  <2>1. d = [j \in Jobs |-> d[j]]
    BY DEF Drained
  <2> HIDE DEF d
  <2>2. \A j \in Jobs : d[j] \in Job
    BY DrainedJob DEF d
  <2> QED
    BY <2>1, <2>2
<1>2. ASSUME NEW j \in Jobs PROVE JobFollows(d[j], t, j, c, e)
  <2>0. JobFollows(js[j], t, j, c, e)
    BY DEF Books
  <2>1. CASE d[j] = js[j]
    BY <2>0, <2>1
  <2>2. CASE j \in Winners(t, js, on)
    <3> HIDE DEF d
    <3>1. /\ js[j].stage = "queued" /\ d[j].stage = "granted" /\ d[j].lane \in LaneNames
          /\ d[j].key = js[j].key /\ d[j].settled = js[j].settled /\ d[j].epoch = js[j].epoch
      BY <2>2, DrainedJob DEF d
    <3> QED
      BY <2>0, <3>1 DEF JobFollows, LiveStages, BusyStages
  <2> QED
    BY <2>1, <2>2, DrainedJob
<1>3. ASSUME NEW k \in Keys PROVE KeyFollows(t, d, k, e)
  <2>1. CASE t[k] = None
    BY <2>1 DEF KeyFollows
  <2>2. CASE t[k] # None
    <3>1. t[k] \in Jobs /\ KeyFollows(t, js, k, e)
      BY <2>2 DEF Books
    <3> HIDE DEF d
    <3>2. /\ d[t[k]].key = js[t[k]].key /\ d[t[k]].epoch = js[t[k]].epoch
          /\ d[t[k]].stage \in {js[t[k]].stage, "granted"}
      BY <3>1, DrainedJob DEF d
    <3> QED
      BY <3>1, <3>2 DEF KeyFollows, LiveStages
  <2> QED
    BY <2>1, <2>2
<1> QED
  BY <1>1, <1>2, <1>3 DEF Books

LaneWinners(t, js, on, lane) == {j \in Winners(t, js, on) : LaneOf(js[j]) = lane}

(* After a drain a lane has its holders and its winners. *)
LEMMA DrainedHolders ==
  ASSUME NEW t, NEW js, NEW c, NEW e, NEW on, Books(t, js, c, e), NEW lane \in LaneNames,
         NEW d, d = Drained(t, js, on)
  PROVE  /\ Holders(t, d, lane)
              = Holders(t, js, lane) \cup LaneWinners(t, js, on, lane)
         /\ LaneWinners(t, js, on, lane) \subseteq Jobs
         /\ Cardinality(Holders(t, d, lane))
              = Cardinality(Holders(t, js, lane))
                  + Cardinality(LaneWinners(t, js, on, lane))
<1> DEFINE W == LaneWinners(t, js, on, lane)
<1>1. W \subseteq Jobs /\ \A j \in W : js[j].lane = None /\ j \in Listed(t)
  BY ListedFacts DEF Eligible, LaneWinners
<1>2. Holders(t, js, lane) \cap W = {}
  BY <1>1, SchedulerAssumption DEF Holders
<1>3. ASSUME NEW j \in Listed(t)
      PROVE  d[j].lane = lane <=> js[j].lane = lane \/ j \in W
  <2>1. j \in Jobs
    BY ListedFacts
  <2>2. CASE j \in Winners(t, js, on)
    <3>1. js[j].lane = None
      BY <2>2, ListedFacts DEF Eligible
    <3>2. d[j].lane = LaneOf(js[j])
      BY <2>1, <2>2, DrainedJob
    <3> QED
      BY <2>2, <3>1, <3>2, SchedulerAssumption DEF LaneWinners
  <2>3. CASE j \notin Winners(t, js, on)
    BY <2>1, <2>3, DrainedJob DEF LaneWinners
  <2> QED
    BY <2>2, <2>3
<1> HIDE DEF W
<1>4. Holders(t, d, lane) = Holders(t, js, lane) \cup W
  BY <1>1, <1>3 DEF Holders
<1>5. Cardinality(Holders(t, d, lane)) = Cardinality(Holders(t, js, lane)) + Cardinality(W)
  BY <1>1, <1>2, <1>4, Together, ListedFacts
<1> QED
  BY <1>1, <1>4, <1>5 DEF W

(* The jobs before j in the queue of its lane. *)
Queue(t, js, on, lane) == {i \in Eligible(t, js, on) : LaneOf(js[i]) = lane}
Ahead(t, js, on, lane, j) == {i \in Queue(t, js, on, lane) : Before(js, i, j)}

(* A job wins when the holders of its lane and the jobs ahead of it leave a slot. *)
LEMMA WinnerIff ==
  ASSUME NEW t, NEW js, NEW c, NEW e, NEW on, Books(t, js, c, e), NEW lane,
         NEW j \in Queue(t, js, on, lane)
  PROVE  /\ j \in Winners(t, js, on) <=>
              Cardinality(Holders(t, js, lane)) + Cardinality(Ahead(t, js, on, lane, j))
                  < LaneLimit(lane)
         /\ j \in Jobs
         /\ Queue(t, js, on, lane) \subseteq Jobs /\ Ahead(t, js, on, lane, j) \subseteq Jobs
         /\ Cardinality(Holders(t, js, lane)) \in Nat
         /\ Cardinality(Ahead(t, js, on, lane, j)) \in Nat
<1>1. Queue(t, js, on, lane) \subseteq Jobs /\ Ahead(t, js, on, lane, j) \subseteq Jobs
  BY ListedFacts DEF Queue, Ahead
<1>2. Cardinality(Holders(t, js, lane)) \in Nat /\ Cardinality(Ahead(t, js, on, lane, j)) \in Nat
  BY <1>1, ListedFacts, JobSets
<1>3. {i \in Eligible(t, js, on) : LaneOf(js[i]) = LaneOf(js[j]) /\ Before(js, i, j)}
        = Ahead(t, js, on, lane, j)
  BY DEF Queue, Ahead
<1>4. j \in Eligible(t, js, on) /\ LaneOf(js[j]) = lane
  BY DEF Queue
<1>5. j \in Winners(t, js, on) <=>
        Cardinality(Holders(t, js, LaneOf(js[j])))
          + Cardinality({i \in Eligible(t, js, on) : LaneOf(js[i]) = LaneOf(js[j])
                                                        /\ Before(js, i, j)})
            < LaneLimit(LaneOf(js[j]))
  BY <1>4 DEF Winners
<1> QED
  BY <1>1, <1>2, <1>3, <1>4, <1>5

(* drain() never hands out more slots than a lane has. *)
LEMMA DrainStaysWithin ==
  ASSUME NEW t, NEW js, NEW c, NEW e, NEW on, Books(t, js, c, e), WithinLanes(t, js)
  PROVE  WithinLanes(t, Drained(t, js, on))
<1> SUFFICES ASSUME NEW lane \in LaneNames
             PROVE  Cardinality(Holders(t, Drained(t, js, on), lane)) <= LaneLimit(lane)
  BY DEF WithinLanes
<1> DEFINE W == LaneWinners(t, js, on, lane)
           H == Holders(t, js, lane)
           A(j) == Ahead(t, js, on, lane, j)
<1>0. /\ W \subseteq Jobs
      /\ Cardinality(Holders(t, Drained(t, js, on), lane)) = Cardinality(H) + Cardinality(W)
  BY DrainedHolders
<1>1. Cardinality(H) <= LaneLimit(lane) /\ Cardinality(H) \in Nat /\ Cardinality(W) \in Nat
  BY <1>0, ListedFacts, JobSets DEF WithinLanes
<1>2. W \subseteq Queue(t, js, on, lane)
  BY ListedFacts DEF Queue, LaneWinners
<1>3. ASSUME NEW j \in W
      PROVE  /\ Cardinality(H) + Cardinality(A(j)) < LaneLimit(lane)
             /\ Cardinality(A(j)) \in Nat /\ A(j) \subseteq Jobs
  BY <1>2, <1>3, WinnerIff DEF LaneWinners
<1>4. js \in [Jobs -> Job]
  BY DEF Books
<1>5. ASSUME NEW i \in W, NEW j \in W, i # j PROVE i \in A(j) \/ j \in A(i)
  BY <1>0, <1>2, <1>4, <1>5, BeforeIsTotal DEF Ahead
<1> HIDE DEF W, H, A
<1>6. LaneLimit(lane) \in {1, 2}
  BY DEF LaneLimit
<1>7. CASE W = {}
  BY <1>0, <1>1, <1>6, <1>7, AtMostNone
<1>8. CASE W # {} /\ (LaneLimit(lane) = 1 \/ Cardinality(H) # 0)
  <2>1. PICK w \in W : TRUE
    BY <1>8
  <2>2. Cardinality(H) < LaneLimit(lane) /\ Cardinality(H) + 1 = LaneLimit(lane)
    BY <1>1, <1>3, <1>6, <1>8, <2>1
  <2>3. ASSUME NEW i \in W, NEW j \in W, i # j PROVE FALSE
    <3>1. Cardinality(A(i)) >= 1 \/ Cardinality(A(j)) >= 1
      BY <1>3, <1>5, <2>3, AtLeastOne
    <3> QED
      BY <1>1, <1>3, <1>6, <2>2, <3>1
  <2>4. Cardinality(W) <= 1
    BY <1>0, <2>3, AtMostOne
  <2> QED
    BY <1>0, <1>1, <1>6, <2>2, <2>4
<1>9. CASE LaneLimit(lane) = 2 /\ Cardinality(H) = 0
  <2>1. ASSUME NEW x \in W, NEW y \in W, NEW z \in W, x # y, y # z, x # z PROVE FALSE
    <3>1. \A j \in W : Cardinality(A(j)) < 2
      BY <1>1, <1>3, <1>9
    <3>2. \A j \in W : \A u, v \in A(j) : u = v
      <4> SUFFICES ASSUME NEW j \in W, NEW u \in A(j), NEW v \in A(j), u # v PROVE FALSE
        OBVIOUS
      <4>1. Cardinality(A(j)) >= 2
        BY <1>3, AtLeastTwo
      <4> QED
        BY <1>3, <3>1, <4>1
    <3>3. ASSUME NEW u \in W, NEW v \in W, NEW w \in W, u \in A(v), v \in A(w) PROVE u \in A(w)
      <4>1. u \in Jobs /\ v \in Jobs /\ w \in Jobs
        BY <1>0
      <4> QED
        BY <1>4, <3>3, <4>1, BeforeIsTotal DEF A, Ahead
    <3>4. x \in A(y) \/ y \in A(x)
      BY <1>5, <2>1
    <3>5. y \in A(z) \/ z \in A(y)
      BY <1>5, <2>1
    <3>6. x \in A(z) \/ z \in A(x)
      BY <1>5, <2>1
    <3> QED
      BY <2>1, <3>2, <3>3, <3>4, <3>5, <3>6
  <2>2. Cardinality(W) <= 2
    BY <1>0, <2>1, AtMostTwo
  <2> QED
    BY <1>0, <1>1, <1>9, <2>2
<1> QED
  BY <1>6, <1>7, <1>8, <1>9 DEF H

(* drain() leaves no slot free that a waiting job could have. *)
LEMMA DrainFillsLanes ==
  ASSUME NEW t, NEW js, NEW c, NEW e, NEW on, Books(t, js, c, e)
  PROVE  LanesFull(t, Drained(t, js, on), on)
<1> DEFINE d == Drained(t, js, on)
<1> SUFFICES ASSUME NEW j \in Eligible(t, d, on)
             PROVE  Cardinality(Holders(t, d, LaneOf(d[j]))) >= LaneLimit(LaneOf(d[j]))
  BY DEF LanesFull
<1>1. j \in Jobs /\ j \in Listed(t)
  BY ListedFacts DEF Eligible
<1>2. j \notin Winners(t, js, on) /\ d[j] = js[j]
  <2>1. d[j].lane = None
    BY DEF Eligible
  <2> HIDE DEF d
  <2>2. j \notin Winners(t, js, on)
    BY <1>1, <2>1, DrainedJob, SchedulerAssumption DEF d
  <2> QED
    BY <1>1, <2>2, DrainedJob DEF d
<1>3. j \in Eligible(t, js, on)
  BY <1>2 DEF Eligible
<1> DEFINE lane == LaneOf(js[j])
           W == LaneWinners(t, js, on, lane)
           H == Holders(t, js, lane)
           E == Queue(t, js, on, lane)
           A(i) == Ahead(t, js, on, lane, i)
<1>4. lane \in LaneNames /\ lane = LaneOf(d[j])
  BY <1>2 DEF LaneOf, LaneNames
<1>5. /\ W \subseteq Jobs
      /\ Cardinality(Holders(t, d, lane)) = Cardinality(H) + Cardinality(W)
  BY <1>4, DrainedHolders
<1>6. j \in E /\ E \subseteq Jobs
  BY <1>3, ListedFacts DEF Queue
<1>7. ASSUME NEW i \in E
      PROVE  /\ i \in W <=> Cardinality(H) + Cardinality(A(i)) < LaneLimit(lane)
             /\ Cardinality(H) \in Nat /\ Cardinality(A(i)) \in Nat /\ A(i) \subseteq Jobs
  <2>1. LaneOf(js[i]) = lane
    BY <1>7 DEF Queue
  <2> QED
    BY <1>7, <2>1, WinnerIff DEF LaneWinners
<1>8. Cardinality(H) \in Nat /\ Cardinality(W) \in Nat
  BY <1>5, <1>6, <1>7, JobSets
<1>9. LaneLimit(lane) \in {1, 2}
  BY DEF LaneLimit
<1>10. js \in [Jobs -> Job]
  BY DEF Books
<1>11. PICK m \in E : A(m) = {}
  <2>1. PICK m \in E : \A i \in E : ~Before(js, i, m)
    BY <1>6, <1>10, FirstOf
  <2> QED
    BY <2>1 DEF Ahead
<1>12. j \notin W
  BY <1>2 DEF LaneWinners
<1>13. \A x \in E \ {m} : (\A i \in E \ {m} : ~Before(js, i, x)) => A(x) \subseteq {m}
  BY DEF Ahead
<1> HIDE DEF d, lane, W, H, E, A
<1>14. CASE Cardinality(H) >= LaneLimit(lane)
  BY <1>4, <1>5, <1>8, <1>9, <1>14
<1>15. CASE Cardinality(H) < LaneLimit(lane)
  <2>1. Cardinality(A(m)) = 0
    BY <1>7, <1>11, AtMostNone
  <2>2. m \in W /\ m # j
    BY <1>7, <1>8, <1>11, <1>12, <1>15, <2>1
  <2>3. Cardinality(W) >= 1
    BY <1>5, <2>2, AtLeastOne
  <2>4. CASE Cardinality(H) + 1 >= LaneLimit(lane)
    BY <1>4, <1>5, <1>8, <1>9, <2>3, <2>4
  <2>5. CASE Cardinality(H) + 1 < LaneLimit(lane)
    <3>1. PICK n \in E \ {m} : \A i \in E \ {m} : ~Before(js, i, n)
      <4>1. E \ {m} \subseteq Jobs /\ E \ {m} # {}
        BY <1>6, <2>2
      <4> QED
        BY <1>10, <4>1, FirstOf
    <3>2. A(n) \subseteq {m}
      BY <1>13, <3>1
    <3>3. Cardinality(A(n)) <= 1
      BY <1>7, <3>1, <3>2, AtMostOne
    <3>4. n \in W
      BY <1>7, <1>8, <1>9, <2>5, <3>1, <3>3
    <3>5. Cardinality(W) >= 2
      BY <1>5, <2>2, <3>1, <3>4, AtLeastTwo
    <3> QED
      BY <1>4, <1>5, <1>8, <1>9, <2>5, <3>5
  <2> QED
    BY <1>8, <1>9, <2>4, <2>5
<1> QED
  BY <1>4, <1>8, <1>9, <1>14, <1>15 DEF lane

-----------------------------------------------------------------------------
(* One job changes. *)

(* A job is rewritten in place. *)
LEMMA JobChanges ==
  ASSUME NEW t, NEW js, NEW c, NEW e, Books(t, js, c, e), NEW j \in Jobs, NEW r \in Job,
         JobFollows(r, t, j, c, e),
         j \in Listed(t) => r.key = js[j].key /\ r.stage \in LiveStages /\ r.epoch = e
  PROVE  Books(t, [js EXCEPT ![j] = r], c, e)
<1> DEFINE d == [js EXCEPT ![j] = r]
<1>1. d \in [Jobs -> Job] /\ d[j] = r /\ \A i \in Jobs \ {j} : d[i] = js[i]
  BY DEF Books
<1> HIDE DEF d
<1>2. \A i \in Jobs : JobFollows(d[i], t, i, c, e)
  BY <1>1 DEF Books
<1>3. ASSUME NEW k \in Keys PROVE KeyFollows(t, d, k, e)
  <2>1. t[k] # None => t[k] \in Jobs /\ t[k] \in Listed(t)
    BY DEF Books, Listed
  <2>2. KeyFollows(t, js, k, e)
    BY DEF Books
  <2> QED
    BY <1>1, <2>1, <2>2 DEF KeyFollows
<1>4. Books(t, d, c, e)
  BY <1>1, <1>2, <1>3 DEF Books
<1> QED
  BY <1>4 DEF d

(* What is left of a job that is over. *)
LEMMA OverIsJob == Over \in Job /\ Over.stage = "over" /\ Over.lane = None /\ Over.epoch = 0
<1>1. Unborn \in Job
  BY SchedulerAssumption DEF Unborn, Job, Priorities, Stages
<1> QED
  BY <1>1 DEF Over, Unborn, Job, Stages

(* A job is over and leaves the table. *)
LEMMA JobLeaves ==
  ASSUME NEW t, NEW js, NEW c, NEW e, Books(t, js, c, e), NEW j \in Jobs, js[j].stage # "none",
         NEW u \in [Keys -> Jobs \cup {None}], \A k \in Keys : u[k] = IF t[k] = j THEN None ELSE t[k],
         NEW d \in [Jobs -> Job], d[j] = Over, \A i \in Jobs \ {j} : d[i] = js[i]
  PROVE  /\ Books(u, d, c, e)
         /\ Listed(u) = Listed(t) \ {j}
         /\ \A i \in Jobs \ {j} : d[i] = js[i]
         /\ \A lane : Holders(u, d, lane) = Holders(t, js, lane) \ {j}
<1>0. t \in [Keys -> Jobs \cup {None}] /\ js \in [Jobs -> Job]
  BY DEF Books
<1>1. Over \in Job /\ Over.stage = "over" /\ Over.lane = None /\ Over.epoch = 0
  BY OverIsJob
<1>2. d \in [Jobs -> Job] /\ d[j] = Over /\ \A i \in Jobs \ {j} : d[i] = js[i]
  OBVIOUS
<1>3. u \in [Keys -> Jobs \cup {None}] /\ \A k \in Keys : u[k] = IF t[k] = j THEN None ELSE t[k]
  OBVIOUS
<1>4. Listed(u) = Listed(t) \ {j}
  BY <1>3, SchedulerAssumption DEF Listed, Jobs
<1>5. ASSUME NEW i \in Jobs PROVE JobFollows(d[i], u, i, c, e)
  <2>1. JobFollows(js[i], t, i, c, e)
    BY DEF Books
  <2>2. CASE i = j
    <3>1. e \in 0..MaxEpoch
      BY DEF Books
    <3> QED
      BY <1>1, <1>2, <2>1, <2>2, <3>1 DEF JobFollows, LiveStages, BusyStages
  <2>3. CASE i # j
    BY <1>2, <1>3, <2>1, <2>3 DEF JobFollows
  <2> QED
    BY <2>2, <2>3
<1>6. ASSUME NEW k \in Keys PROVE KeyFollows(u, d, k, e)
  <2>1. KeyFollows(t, js, k, e)
    BY DEF Books
  <2> QED
    BY <1>0, <1>2, <1>3, <2>1 DEF KeyFollows
<1>7. Books(u, d, c, e)
  BY <1>2, <1>3, <1>5, <1>6 DEF Books
<1>8. \A lane : Holders(u, d, lane) = Holders(t, js, lane) \ {j}
  <2>1. Listed(t) \subseteq Jobs
    BY <1>0 DEF Listed
  <2> QED
    BY <1>2, <1>4, <2>1 DEF Holders
<1> QED
  BY <1>2, <1>4, <1>7, <1>8

(* The job that cancel(key) and finally() take out of the table. *)
LEMMA OnlyItsKey ==
  ASSUME NEW t, NEW js, NEW c, NEW e, Books(t, js, c, e), NEW k \in Keys, t[k] # None
  PROVE  /\ t[k] \in Jobs /\ t[k] \in Listed(t)
         /\ [t EXCEPT ![k] = None] = [l \in Keys |-> IF t[l] = t[k] THEN None ELSE t[l]]
<1>1. t \in [Keys -> Jobs \cup {None}]
  BY DEF Books
<1>2. t[k] \in Jobs /\ t[k] \in Listed(t)
  BY <1>1 DEF Listed
<1>3. \A l \in Keys : t[l] = t[k] => l = k
  BY <1>2 DEF Books, KeyFollows
<1> QED
  BY <1>1, <1>2, <1>3

(* A table that loses a listed job loses one. *)
LEMMA OneFewer ==
  ASSUME NEW S, S \subseteq Jobs, NEW x \in S
  PROVE  /\ Cardinality(S \ {x}) = Cardinality(S) - 1
         /\ Cardinality(S) \in Nat /\ Cardinality(S \ {x}) \in Nat /\ Cardinality(S) # 0
<1>1. Cardinality(S \ {x}) = Cardinality(S) - 1
  BY JobSets, FS_RemoveElement
<1>2. Cardinality(S) \in Nat /\ Cardinality(S \ {x}) \in Nat
  BY JobSets
<1> QED
  BY <1>1, <1>2

(* A new member counts one. *)
LEMMA OneMore ==
  ASSUME NEW S, S \subseteq Jobs, NEW x \in Jobs, x \notin S
  PROVE  Cardinality(S \cup {x}) = Cardinality(S) + 1
  BY JobSets, FS_AddElement

-----------------------------------------------------------------------------
(* The scheduler's steps. *)

(* Joining a job lowers its priority only; a new one is listed and counted. *)
LEMMA EnqueueKeepsInv ==
  ASSUME SchedulerInv, NEW k \in Keys, NEW p \in Priorities, Enqueue(k, p)
  PROVE  SchedulerInv'
<1>0. Books(table, job, created, epoch) /\ job \in [Jobs -> Job]
  BY DEF SchedulerInv, Books
<1>1. CASE table[k] # None
  <2> DEFINE j == table[k]
             r == [job[j] EXCEPT !.priority = IF p < @ THEN p ELSE @]
  <2>1. j \in Jobs /\ j \in Listed(table)
    BY <1>0, <1>1, OnlyItsKey
  <2>2. JobFollows(job[j], table, j, created, epoch) /\ job[j] \in Job
    BY <1>0, <2>1 DEF Books
  <2>3. job[j].stage \in LiveStages /\ job[j].epoch = epoch
    BY <1>0, <2>1, ListedJobs
  <2>4. /\ r \in Job /\ r.lane = job[j].lane /\ r.key = job[j].key /\ r.stage = job[j].stage
        /\ r.epoch = job[j].epoch /\ r.settled = job[j].settled
    BY <2>2 DEF Job
  <2>5. job' = [job EXCEPT ![j] = r] /\ UNCHANGED <<table, created, activity, enabled, epoch>>
        /\ drains' = TRUE
    BY <1>0, <1>1, <2>1 DEF Enqueue
  <2> HIDE DEF r
  <2>6. JobFollows(r, table, j, created, epoch)
    BY <2>2, <2>3, <2>4 DEF JobFollows, LiveStages
  <2>7. Books(table, job', created, epoch)
    BY <1>0, <2>1, <2>3, <2>4, <2>5, <2>6, JobChanges
  <2>8. \A lane : Holders(table, job', lane) = Holders(table, job, lane)
    BY <1>0, <2>1, <2>4, <2>5, ListedJobs DEF Holders
  <2>9. WithinLanes(table, job')
    BY <2>8 DEF WithinLanes, SchedulerInv
  <2> QED
    BY <2>5, <2>7, <2>9 DEF SchedulerInv
<1>2. CASE table[k] = None
  <2> DEFINE j == created + 1
             r == [Unborn EXCEPT !.key = k, !.priority = p, !.stage = "queued", !.epoch = epoch]
  <2>1. /\ j \in Jobs /\ created' = j /\ table' = [table EXCEPT ![k] = j]
        /\ job' = [job EXCEPT ![j] = r] /\ activity' = activity + 1
        /\ UNCHANGED <<enabled, epoch>> /\ drains' = TRUE
    BY <1>0, <1>2, SchedulerAssumption DEF Enqueue, Books, Jobs
  <2>2. /\ r \in Job /\ r.key = k /\ r.stage = "queued" /\ r.epoch = epoch /\ r.lane = None
        /\ r.settled = FALSE
    BY <1>0, SchedulerAssumption DEF Unborn, Job, Priorities, Stages, Books
  <2> HIDE DEF r
  <2>3. table \in [Keys -> Jobs \cup {None}] /\ created \in Nat
    BY <1>0 DEF Books
  <2>4. job[j].stage = "none" /\ j \notin Listed(table) /\ \A l \in Keys : table[l] # j
    <3>1. JobFollows(job[j], table, j, created, epoch)
      BY <1>0, <2>1 DEF Books
    <3>2. job[j].stage = "none"
      BY <2>3, <3>1 DEF JobFollows
    <3>3. j \notin Listed(table)
      BY <1>0, <3>2, ListedJobs DEF LiveStages
    <3> QED
      BY <2>1, <3>2, <3>3, SchedulerAssumption DEF Listed, Jobs
  <2>5. job' \in [Jobs -> Job] /\ job'[j] = r /\ \A i \in Jobs \ {j} : job'[i] = job[i]
    BY <1>0, <2>1, <2>2
  <2>6. /\ table' \in [Keys -> Jobs \cup {None}] /\ table'[k] = j
        /\ \A l \in Keys \ {k} : table'[l] = table[l]
    BY <2>1, <2>3
  <2>7. ASSUME NEW i \in Jobs PROVE JobFollows(job'[i], table', i, created', epoch)
    <3>1. CASE i = j
      <4>1. epoch \in Nat
        BY <1>0 DEF Books
      <4> QED
        BY <2>1, <2>2, <2>3, <2>5, <2>6, <3>1, <4>1 DEF JobFollows, LiveStages, BusyStages
    <3>2. CASE i # j
      <4>1. JobFollows(job[i], table, i, created, epoch)
        BY <1>0 DEF Books
      <4>2. i > j <=> i > created
        BY <2>3, <3>2 DEF Jobs
      <4>3. table[job[i].key] = i => job[i].key # k
        BY <1>2, SchedulerAssumption DEF Jobs
      <4> QED
        BY <2>1, <2>5, <2>6, <3>2, <4>1, <4>2, <4>3 DEF JobFollows
    <3> QED
      BY <3>1, <3>2
  <2>8. ASSUME NEW l \in Keys PROVE KeyFollows(table', job', l, epoch)
    <3>1. CASE l = k
      BY <2>2, <2>5, <2>6, <3>1 DEF KeyFollows, LiveStages
    <3>2. CASE l # k
      <4>1. KeyFollows(table, job, l, epoch)
        BY <1>0 DEF Books
      <4> QED
        BY <2>3, <2>4, <2>5, <2>6, <3>2, <4>1 DEF KeyFollows
    <3> QED
      BY <3>1, <3>2
  <2>9. Books(table', job', created', epoch')
    <3>1. created' \in 0..MaxJobs /\ epoch' = epoch /\ epoch \in 0..MaxEpoch
      BY <1>0, <2>1, SchedulerAssumption DEF Books, Jobs
    <3> QED
      BY <2>5, <2>6, <2>7, <2>8, <3>1 DEF Books
  <2>10. Listed(table') = Listed(table) \cup {j}
    BY <1>2, <2>1, <2>6, SchedulerAssumption DEF Listed, Jobs
  <2>11. activity' = Cardinality(Listed(table'))
    <3>1. Cardinality(Listed(table) \cup {j}) = Cardinality(Listed(table)) + 1
      BY <1>0, <2>1, <2>4, OneMore, ListedJobs
    <3> QED
      BY <2>1, <2>10, <3>1 DEF SchedulerInv
  <2>12. \A lane \in LaneNames : Holders(table', job', lane) = Holders(table, job, lane)
    <3>1. Listed(table) \subseteq Jobs \ {j}
      BY <1>0, <2>4, ListedJobs
    <3>2. job'[j].lane = None /\ None \notin LaneNames
      BY <2>2, <2>5, SchedulerAssumption
    <3> QED
      BY <2>5, <2>10, <3>1, <3>2 DEF Holders
  <2>13. WithinLanes(table', job')
    BY <2>12 DEF WithinLanes, SchedulerInv
  <2> QED
    BY <2>1, <2>9, <2>11, <2>13 DEF SchedulerInv
<1> QED
  BY <1>1, <1>2

(* A step that changes one job's stage or signal, and no lane. *)
LEMMA InPlaceKeepsInv ==
  ASSUME SchedulerInv, NEW j \in Jobs, NEW r \in Job, job' = [job EXCEPT ![j] = r],
         UNCHANGED <<table, created, enabled, drains, epoch, activity>>,
         r.key = job[j].key, r.lane = job[j].lane, r.priority = job[j].priority,
         r.epoch = job[j].epoch, r.settled = job[j].settled,
         job[j].stage \in BusyStages, r.stage \in BusyStages
  PROVE  SchedulerInv'
<1>0. Books(table, job, created, epoch) /\ job \in [Jobs -> Job]
  BY DEF SchedulerInv, Books
<1>1. JobFollows(job[j], table, j, created, epoch)
  BY <1>0 DEF Books
<1>2. JobFollows(r, table, j, created, epoch)
  BY <1>1 DEF JobFollows, BusyStages, LiveStages
<1>3. Books(table, job', created, epoch)
  <2>1. j \in Listed(table) => r.key = job[j].key /\ r.stage \in LiveStages /\ r.epoch = epoch
    BY <1>0, ListedJobs DEF BusyStages, LiveStages
  <2> QED
    BY <1>0, <1>2, <2>1, JobChanges
<1>4. \A i \in Jobs : /\ job'[i].lane = job[i].lane /\ job'[i].priority = job[i].priority
                      /\ job'[i].key = job[i].key
  BY <1>0
<1>5. \A lane : Holders(table, job', lane) = Holders(table, job, lane)
  BY <1>0, <1>4, ListedJobs DEF Holders
<1>6. WithinLanes(table, job')
  BY <1>5 DEF WithinLanes, SchedulerInv
<1>7. LanesFull(table, job, enabled) => LanesFull(table, job', enabled)
  <2>1. Eligible(table, job', enabled) = Eligible(table, job, enabled)
    BY <1>0, <1>4, ListedJobs DEF Eligible
  <2>2. \A i \in Eligible(table, job, enabled) : LaneOf(job'[i]) = LaneOf(job[i])
    BY <1>0, <1>4, ListedFacts DEF LaneOf
  <2> QED
    BY <1>5, <2>1, <2>2 DEF LanesFull
<1> QED
  BY <1>3, <1>6, <1>7 DEF SchedulerInv

(* A job that begins keeps its slot ... *)
LEMMA BeginKeepsInv ==
  ASSUME SchedulerInv, NEW j \in Jobs, Begin(j)
  PROVE  SchedulerInv'
<1> DEFINE r == [job[j] EXCEPT !.stage = IF job[j].aborted THEN "ended" ELSE "running"]
<1>1. job \in [Jobs -> Job]
  BY DEF SchedulerInv, Books
<1>2. job' = [job EXCEPT ![j] = r] /\ UNCHANGED <<table, created, enabled, drains, epoch, activity>>
  BY <1>1 DEF Begin
<1>3. /\ r \in Job /\ r.stage \in BusyStages /\ r.key = job[j].key /\ r.lane = job[j].lane
      /\ r.priority = job[j].priority /\ r.epoch = job[j].epoch /\ r.settled = job[j].settled
  BY <1>1 DEF Job, BusyStages, Stages
<1>4. job[j].stage \in BusyStages
  BY DEF Begin, BusyStages
<1> HIDE DEF r
<1> QED
  BY <1>2, <1>3, <1>4, InPlaceKeepsInv

(* ... and so does one whose run ends. *)
LEMMA RunEndsKeepsInv ==
  ASSUME SchedulerInv, NEW j \in Jobs, RunEnds(j)
  PROVE  SchedulerInv'
<1> DEFINE r == [job[j] EXCEPT !.stage = "ended"]
<1>1. job \in [Jobs -> Job]
  BY DEF SchedulerInv, Books
<1>2. job' = [job EXCEPT ![j] = r] /\ UNCHANGED <<table, created, enabled, drains, epoch, activity>>
  BY <1>1 DEF RunEnds
<1>3. /\ r \in Job /\ r.stage \in BusyStages /\ r.key = job[j].key /\ r.lane = job[j].lane
      /\ r.priority = job[j].priority /\ r.epoch = job[j].epoch /\ r.settled = job[j].settled
  BY <1>1 DEF Job, BusyStages, Stages
<1>4. job[j].stage \in BusyStages
  BY DEF RunEnds, BusyStages
<1> HIDE DEF r
<1> QED
  BY <1>2, <1>3, <1>4, InPlaceKeepsInv

(* A cancelled job without a lane leaves table and count; another keeps its slot. *)
LEMMA CancelKeepsInv ==
  ASSUME SchedulerInv, NEW k \in Keys, Cancel(k)
  PROVE  SchedulerInv'
<1> DEFINE j == table[k]
<1>0. Books(table, job, created, epoch) /\ job \in [Jobs -> Job] /\ table[k] # None
  BY DEF SchedulerInv, Books, Cancel
<1>1. j \in Jobs /\ j \in Listed(table)
  BY <1>0, OnlyItsKey
<1>2. /\ job[j].stage \in LiveStages /\ job[j].epoch = epoch
      /\ job[j].lane = None <=> job[j].stage = "queued"
  BY <1>0, <1>1, ListedJobs
<1>3. CASE job[j].lane # None
  <2> DEFINE r == [job[j] EXCEPT !.aborted = TRUE]
  <2>1. /\ job' = [job EXCEPT ![j] = r]
        /\ UNCHANGED <<table, created, enabled, drains, epoch, activity>>
    BY <1>0, <1>1, <1>3 DEF Cancel
  <2>2. job[j].stage \in BusyStages /\ job[j] \in Job
    BY <1>0, <1>1, <1>2, <1>3 DEF LiveStages, BusyStages
  <2>3. /\ r \in Job /\ r.stage = job[j].stage /\ r.key = job[j].key /\ r.lane = job[j].lane
        /\ r.priority = job[j].priority /\ r.epoch = job[j].epoch /\ r.settled = job[j].settled
    BY <2>2 DEF Job
  <2> HIDE DEF r, j
  <2> QED
    BY <1>1, <2>1, <2>2, <2>3, InPlaceKeepsInv
<1>4. CASE job[j].lane = None
  <2> DEFINE u == [l \in Keys |-> IF table[l] = j THEN None ELSE table[l]]
             d == [job EXCEPT ![j] = Over]
  <2>1. /\ table' = u /\ job' = d /\ Finish(j, epoch)
        /\ UNCHANGED <<created, enabled, drains, epoch>>
    <3>1. [table EXCEPT ![k] = None] = u
      BY <1>0, OnlyItsKey
    <3> HIDE DEF u
    <3>2. table' = [table EXCEPT ![k] = None] /\ job' = d /\ Finish(j, epoch)
      BY <1>4 DEF Cancel
    <3> QED
      BY <3>1, <3>2 DEF Cancel
  <2>2. /\ Books(u, d, created, epoch) /\ Listed(u) = Listed(table) \ {j}
        /\ \A i \in Jobs \ {j} : d[i] = job[i]
        /\ \A lane : Holders(u, d, lane) = Holders(table, job, lane) \ {j}
    <3>1. job[j].stage # "none"
      BY <1>2 DEF LiveStages
    <3>2. /\ u \in [Keys -> Jobs \cup {None}]
          /\ \A l \in Keys : u[l] = IF table[l] = j THEN None ELSE table[l]
      BY <1>0 DEF Books
    <3>3. d \in [Jobs -> Job] /\ d[j] = Over /\ \A i \in Jobs \ {j} : d[i] = job[i]
      BY <1>0, <1>1, OverIsJob
    <3> HIDE DEF u, d, j
    <3> QED
      BY <1>0, <1>1, <3>1, <3>2, <3>3, JobLeaves
  <2> HIDE DEF u, d, j
  <2>3. activity' = Cardinality(Listed(u))
    <3>1. ~job[j].settled
      BY <1>0, <1>1, <1>2 DEF Books, JobFollows
    <3>2. /\ Cardinality(Listed(u)) = Cardinality(Listed(table)) - 1
          /\ Cardinality(Listed(table)) # 0
      BY <1>0, <1>1, <2>2, ListedJobs, OneFewer
    <3>3. activity # 0 /\ activity' = activity - 1
      BY <1>2, <2>1, <3>1, <3>2 DEF Finish, SchedulerInv
    <3> QED
      BY <3>2, <3>3 DEF SchedulerInv
  <2>4. \A lane \in LaneNames : Holders(u, d, lane) = Holders(table, job, lane)
    BY <1>4, <2>2, SchedulerAssumption DEF Holders
  <2>5. WithinLanes(u, d)
    BY <2>4 DEF WithinLanes, SchedulerInv
  <2>6. LanesFull(table, job, enabled) => LanesFull(u, d, enabled)
    <3>1. /\ Eligible(u, d, enabled) \subseteq Eligible(table, job, enabled)
          /\ \A i \in Eligible(u, d, enabled) : d[i] = job[i]
      BY <1>0, <2>2, ListedJobs DEF Eligible
    <3>2. \A r : LaneOf(r) \in LaneNames
      BY DEF LaneOf, LaneNames
    <3> QED
      BY <2>4, <3>1, <3>2 DEF LanesFull
  <2> QED
    BY <2>1, <2>2, <2>3, <2>5, <2>6 DEF SchedulerInv
<1> QED
  BY <1>3, <1>4

(* A drain, at once or as a micro-task. *)
LEMMA DrainedKeepsInv ==
  ASSUME NEW t, NEW js, NEW c, NEW e, NEW on, Books(t, js, c, e), WithinLanes(t, js)
  PROVE  /\ Books(t, Drained(t, js, on), c, e) /\ WithinLanes(t, Drained(t, js, on))
         /\ LanesFull(t, Drained(t, js, on), on)
  BY DrainKeepsBooks, DrainStaysWithin, DrainFillsLanes

(* Opening the background drains at once. *)
LEMMA EnableKeepsInv ==
  ASSUME SchedulerInv, NEW v \in BOOLEAN, Enable(v)
  PROVE  SchedulerInv'
<1>0. Books(table, job, created, epoch) /\ WithinLanes(table, job)
  BY DEF SchedulerInv
<1>1. enabled' = v /\ UNCHANGED <<table, created, drains, epoch, activity>>
  BY DEF Enable
<1>2. CASE v
  <2>1. job' = Drained(table, job, v)
    BY <1>2 DEF Enable
  <2>2. Books(table, job', created, epoch) /\ WithinLanes(table, job') /\ LanesFull(table, job', v)
    BY <1>0, <2>1, DrainedKeepsInv
  <2> QED
    BY <1>1, <2>2 DEF SchedulerInv
<1>3. CASE ~v
  <2>1. job' = job
    BY <1>3 DEF Enable
  <2>2. LanesFull(table, job, enabled) => LanesFull(table, job, v)
    BY <1>3 DEF LanesFull, Eligible
  <2> QED
    BY <1>0, <1>1, <2>1, <2>2 DEF SchedulerInv
<1> QED
  BY <1>2, <1>3

(* A drain fills every lane it can. *)
LEMMA DrainKeepsInv ==
  ASSUME SchedulerInv, Drain
  PROVE  SchedulerInv'
<1>0. Books(table, job, created, epoch) /\ WithinLanes(table, job)
  BY DEF SchedulerInv
<1>1. /\ Books(table, job', created, epoch) /\ WithinLanes(table, job')
      /\ LanesFull(table, job', enabled)
  BY <1>0, DrainedKeepsInv DEF Drain
<1> QED
  BY <1>1 DEF Drain, SchedulerInv

(* A job that is over frees its slot, and what waits is offered it. *)
LEMMA FinallyKeepsInv ==
  ASSUME SchedulerInv, NEW j \in Jobs, Finally(j)
  PROVE  SchedulerInv'
<1> DEFINE t == [k \in Keys |-> IF table[k] = j THEN None ELSE table[k]]
           js == [job EXCEPT ![j] = Over]
<1>0. Books(table, job, created, epoch) /\ WithinLanes(table, job) /\ job[j].stage = "ended"
  BY DEF SchedulerInv, Finally
<1>1. /\ table' = t /\ job' = Drained(t, js, enabled) /\ Finish(j, epoch)
      /\ UNCHANGED <<created, enabled, drains, epoch>>
  BY DEF Finally
<1>2. /\ Books(t, js, created, epoch) /\ Listed(t) = Listed(table) \ {j}
      /\ \A lane : Holders(t, js, lane) = Holders(table, job, lane) \ {j}
  <2>1. job[j].stage # "none"
    BY <1>0
  <2>2. /\ t \in [Keys -> Jobs \cup {None}]
        /\ \A k \in Keys : t[k] = IF table[k] = j THEN None ELSE table[k]
    BY <1>0 DEF Books
  <2>3. js \in [Jobs -> Job] /\ js[j] = Over /\ \A i \in Jobs \ {j} : js[i] = job[i]
    BY <1>0, OverIsJob DEF Books
  <2> HIDE DEF t, js
  <2> QED
    BY <1>0, <2>1, <2>2, <2>3, JobLeaves
<1> HIDE DEF t, js
<1>3. WithinLanes(t, js)
  <2> SUFFICES ASSUME NEW lane \in LaneNames
               PROVE  Cardinality(Holders(t, js, lane)) <= LaneLimit(lane)
    BY DEF WithinLanes
  <2>1. Holders(table, job, lane) \subseteq Jobs /\ Holders(t, js, lane) \subseteq Jobs
    BY <1>0, <1>2, ListedJobs
  <2>2. Cardinality(Holders(t, js, lane)) <= Cardinality(Holders(table, job, lane))
    BY <1>2, <2>1, Grows
  <2>3. Cardinality(Holders(t, js, lane)) \in Nat /\ Cardinality(Holders(table, job, lane)) \in Nat
    BY <2>1, JobSets
  <2> QED
    BY <1>0, <2>2, <2>3 DEF WithinLanes, LaneLimit
<1>4. activity' = Cardinality(Listed(t))
  <2>0. JobFollows(job[j], table, j, created, epoch)
    BY <1>0 DEF Books
  <2>1. CASE j \in Listed(table)
    <3>1. ~job[j].settled /\ job[j].epoch = epoch
      BY <1>0, <2>0, <2>1, ListedJobs DEF JobFollows, LiveStages
    <3>2. /\ Cardinality(Listed(t)) = Cardinality(Listed(table)) - 1
          /\ Cardinality(Listed(table)) # 0
      BY <1>0, <1>2, <2>1, ListedJobs, OneFewer
    <3>3. activity # 0 /\ activity' = activity - 1
      BY <1>1, <3>1, <3>2 DEF Finish, SchedulerInv
    <3> QED
      BY <3>2, <3>3 DEF SchedulerInv
  <2>2. CASE j \notin Listed(table)
    <3>1. job[j].epoch # epoch
      BY <1>0, <2>0, <2>2, SchedulerAssumption DEF JobFollows, LiveStages, Listed, Jobs
    <3>2. activity' = activity
      BY <1>1, <3>1 DEF Finish
    <3>3. Listed(t) = Listed(table)
      BY <1>2, <2>2
    <3> QED
      BY <3>2, <3>3 DEF SchedulerInv
  <2> QED
    BY <2>1, <2>2
<1>5. Books(t, job', created, epoch) /\ WithinLanes(t, job') /\ LanesFull(t, job', enabled)
  BY <1>1, <1>2, <1>3, DrainedKeepsInv
<1> QED
  BY <1>1, <1>4, <1>5 DEF SchedulerInv

(* A reset forgets every job; those that run are of an earlier session from now on. *)
LEMMA ResetKeepsInv ==
  ASSUME SchedulerInv, Reset
  PROVE  SchedulerInv'
<1>0. Books(table, job, created, epoch) /\ epoch \in 0..MaxEpoch
  BY DEF SchedulerInv, Books
<1>1. /\ table' = [k \in Keys |-> None] /\ activity' = 0 /\ enabled' = FALSE
      /\ epoch' = epoch + 1 /\ epoch' \in 0..MaxEpoch /\ UNCHANGED <<created, drains>>
  <2>1. /\ table' = [k \in Keys |-> None] /\ activity' = 0 /\ enabled' = FALSE
        /\ epoch' = epoch + 1 /\ epoch < MaxEpoch /\ UNCHANGED <<created, drains>>
    BY DEF Reset
  <2>2. epoch' \in 0..MaxEpoch
    BY <1>0, <2>1, SchedulerAssumption
  <2> QED
    BY <2>1, <2>2
<1>2. Over \in Job
  BY OverIsJob
<1>3. ASSUME NEW j \in Jobs
      PROVE  job'[j] \in Job /\ JobFollows(job'[j], table', j, created, epoch')
  <2>0. JobFollows(job[j], table, j, created, epoch) /\ job[j] \in Job
    BY <1>0 DEF Books
  <2>1. CASE j \in Listed(table) /\ job[j].lane = None
    <3>1. job'[j] = Over
      BY <2>1 DEF Reset
    <3>2. Over.stage = "over" /\ Over.epoch = 0 /\ job[j].stage = "queued"
      BY <1>0, <2>1, ListedJobs, OverIsJob
    <3> QED
      BY <1>1, <1>2, <2>0, <3>1, <3>2 DEF JobFollows, LiveStages, BusyStages
  <2>2. CASE j \in Listed(table) /\ job[j].lane # None
    <3> DEFINE r == [job[j] EXCEPT !.aborted = TRUE, !.settled = TRUE]
    <3>1. job'[j] = r
      BY <2>2 DEF Reset
    <3>2. /\ r \in Job /\ r.stage = job[j].stage /\ r.lane = job[j].lane /\ r.epoch = job[j].epoch
          /\ r.settled = TRUE
      BY <2>0 DEF Job
    <3>3. job[j].stage \in BusyStages /\ job[j].epoch = epoch
      BY <1>0, <2>2, ListedJobs DEF LiveStages, BusyStages
    <3> HIDE DEF r
    <3> QED
      BY <1>0, <1>1, <2>0, <3>1, <3>2, <3>3 DEF JobFollows, LiveStages, BusyStages
  <2>3. CASE j \notin Listed(table)
    <3>1. job'[j] = job[j]
      BY <2>3 DEF Reset
    <3>2. job[j].stage \in LiveStages => job[j].epoch # epoch
      BY <2>0, <2>3, SchedulerAssumption DEF JobFollows, Listed, Jobs
    <3>3. job[j].epoch \in Nat /\ job[j].epoch <= epoch
      BY <2>0 DEF Job, JobFollows
    <3>4. job[j].epoch # epoch' /\ job[j].epoch <= epoch'
      BY <1>0, <1>1, <3>3
    <3> QED
      BY <2>0, <3>1, <3>2, <3>4 DEF JobFollows, LiveStages
  <2> QED
    BY <2>1, <2>2, <2>3
<1>4. job' \in [Jobs -> Job]
  <2>1. job' = [j \in Jobs |-> job'[j]]
    BY DEF Reset
  <2> QED
    BY <1>3, <2>1
<1>5. \A k \in Keys : table'[k] = None
  BY <1>1
<1>6. Books(table', job', created', epoch')
  BY <1>0, <1>1, <1>3, <1>4, <1>5 DEF Books, KeyFollows
<1>7. Listed(table') = {}
  BY <1>5 DEF Listed
<1>8. Cardinality({}) = 0
  BY FS_EmptySet
<1>9. WithinLanes(table', job')
  BY <1>7, <1>8 DEF WithinLanes, Holders, LaneLimit
<1>10. LanesFull(table', job', enabled')
  BY <1>7 DEF LanesFull, Eligible
<1> QED
  BY <1>1, <1>6, <1>7, <1>8, <1>9, <1>10 DEF SchedulerInv

-----------------------------------------------------------------------------
(* The invariant. *)

(* The invariant holds at the start, ... *)
LEMMA SchedulerStarts == SchedulerInit => SchedulerInv
<1> SUFFICES ASSUME SchedulerInit PROVE SchedulerInv
  OBVIOUS
<1>1. /\ \A j \in Jobs : job[j] = Unborn
      /\ \A k \in Keys : table[k] = None
      /\ created = 0 /\ epoch = 0 /\ activity = 0 /\ enabled = FALSE /\ drains = FALSE
  BY DEF SchedulerInit
<1>2. Unborn \in Job /\ Unborn.stage = "none" /\ Unborn.epoch = 0
  BY SchedulerAssumption DEF Unborn, Job, Priorities, Stages
<1>3. table \in [Keys -> Jobs \cup {None}] /\ job \in [Jobs -> Job]
  BY <1>2 DEF SchedulerInit
<1>4. ASSUME NEW j \in Jobs PROVE JobFollows(job[j], table, j, created, epoch)
  BY <1>1, <1>2 DEF JobFollows, LiveStages, BusyStages, Jobs
<1>5. Books(table, job, created, epoch)
  BY <1>1, <1>3, <1>4, SchedulerAssumption DEF Books, KeyFollows
<1>6. Listed(table) = {} /\ Cardinality({}) = 0
  BY <1>1, FS_EmptySet DEF Listed
<1>7. WithinLanes(table, job)
  BY <1>6 DEF WithinLanes, Holders, LaneLimit
<1>8. LanesFull(table, job, enabled)
  BY <1>6 DEF LanesFull, Eligible
<1> QED
  BY <1>1, <1>5, <1>6, <1>7, <1>8 DEF SchedulerInv

(* ... is kept by every step ... *)
LEMMA SchedulerSteps == SchedulerInv /\ [SchedulerNext]_schedulerVars => SchedulerInv'
<1> SUFFICES ASSUME SchedulerInv, [SchedulerNext]_schedulerVars PROVE SchedulerInv'
  OBVIOUS
<1>1. CASE UNCHANGED schedulerVars
  BY <1>1 DEF schedulerVars, SchedulerInv
<1> QED
  BY <1>1, EnqueueKeepsInv, CancelKeepsInv, EnableKeepsInv, ResetKeepsInv, DrainKeepsInv,
     BeginKeepsInv, RunEndsKeepsInv, FinallyKeepsInv
  DEF SchedulerNext

(* ... and so holds always. *)
LEMMA SchedulerAlways == SchedulerSpec => []SchedulerInv
  BY SchedulerStarts, SchedulerSteps, PTL DEF SchedulerSpec

(* The jobs of this session that hold a lane are the table's holders. *)
LEMMA BusyJobs ==
  ASSUME SchedulerInv, NEW lane \in LaneNames
  PROVE  {j \in Jobs : Busy(j) /\ job[j].epoch = epoch /\ job[j].lane = lane}
            = Holders(table, job, lane)
<1>0. Books(table, job, created, epoch)
  BY DEF SchedulerInv
<1>1. ASSUME NEW j \in Jobs, Busy(j), job[j].epoch = epoch, job[j].lane = lane
      PROVE  j \in Holders(table, job, lane)
  <2>1. JobFollows(job[j], table, j, created, epoch)
    BY <1>0 DEF Books
  <2>2. job[j].key \in Keys /\ table[job[j].key] = j
    BY <1>1, <2>1 DEF JobFollows, Busy, LiveStages
  <2> QED
    BY <1>1, <2>2, SchedulerAssumption DEF Holders, Listed, Jobs
<1>2. ASSUME NEW j \in Holders(table, job, lane)
      PROVE  j \in Jobs /\ Busy(j) /\ job[j].epoch = epoch /\ job[j].lane = lane
  <2>1. j \in Listed(table) /\ job[j].lane = lane
    BY DEF Holders
  <2> QED
    BY <1>0, <2>1, ListedJobs, SchedulerAssumption DEF Busy, LiveStages
<1> QED
  BY <1>1, <1>2

(* The invariant says that the books balance. *)
LEMMA InvBalances == SchedulerInv => BooksBalance
<1> SUFFICES ASSUME SchedulerInv PROVE BooksBalance
  OBVIOUS
<1>0. Books(table, job, created, epoch) /\ WithinLanes(table, job)
  BY DEF SchedulerInv
<1>1. Listed(table) \subseteq Jobs /\ Cardinality(Listed(table)) \in Nat
  BY <1>0, ListedJobs, JobSets
<1>2. SchedulerTypeOK
  BY <1>1 DEF SchedulerInv, Books, SchedulerTypeOK
<1>3. RunningWithinLanes
  BY <1>0, BusyJobs DEF RunningWithinLanes, WithinLanes
<1>4. ASSUME NEW j \in Jobs
      PROVE  /\ (job[j].stage \notin {"none", "over"} /\ job[j].epoch = epoch)
                   <=> j \in Listed(table)
             /\ (job[j].stage # "none" /\ job[j].epoch = epoch /\ ~job[j].settled)
                   <=> j \in Listed(table)
  <2>1. JobFollows(job[j], table, j, created, epoch) /\ job[j].stage \in Stages
    BY <1>0 DEF Books, Job
  <2>2. Over.settled
    BY DEF Over, Unborn
  <2>3. CASE j \in Listed(table)
    BY <1>0, <2>1, <2>3, ListedJobs DEF JobFollows, LiveStages
  <2>4. CASE j \notin Listed(table)
    <3>1. job[j].stage \in LiveStages => job[j].epoch # epoch
      BY <2>1, <2>4, SchedulerAssumption DEF JobFollows, Listed, Jobs
    <3> QED
      BY <2>1, <2>2, <2>4, <3>1 DEF JobFollows, Stages, LiveStages
  <2> QED
    BY <2>3, <2>4
<1>5. TableListsLiveJobs
  BY <1>4, SchedulerAssumption DEF TableListsLiveJobs, Listed, Jobs
<1>6. {j \in Jobs : job[j].stage # "none" /\ job[j].epoch = epoch /\ ~job[j].settled}
         = Listed(table)
  BY <1>1, <1>4
<1>7. ActivityCountsUnsettled
  BY <1>6 DEF ActivityCountsUnsettled, SchedulerInv
<1> QED
  BY <1>2, <1>3, <1>5, <1>7 DEF BooksBalance

(* The scheduler's books are right in every session, for any keys, policy, *)
(* priorities and number of jobs: no lane holds more than its slots, the   *)
(* table lists the live jobs, and the counter counts them.                 *)
THEOREM BooksStayBalanced == SchedulerSpec => []BooksBalance
BY InvBalances, SchedulerAlways, PTL

(* Whenever no drain is pending, a job that waits although it may run is   *)
(* kept waiting by a full lane: no order of enqueue, cancel, enable, reset *)
(* and endings loses a wake-up.                                            *)
THEOREM LanesAreNeverIdle == SchedulerSpec => []NoIdleLane
<1>1. SchedulerInv => NoIdleLane
  <2> SUFFICES ASSUME SchedulerInv, ~drains, NEW j \in Jobs, job[j].stage = "queued",
                      enabled \/ job[j].priority = 0
               PROVE  Cardinality({i \in Jobs : /\ job[i].lane = LaneOf(job[j]) /\ Busy(i)
                                                /\ job[i].epoch = epoch})
                         >= LaneLimit(LaneOf(job[j]))
    BY DEF NoIdleLane, LaneOf, LaneLimit
  <2>1. Books(table, job, created, epoch) /\ LanesFull(table, job, enabled)
    BY DEF SchedulerInv
  <2>2. job[j].lane = None /\ j \in Listed(table)
    BY <2>1, SchedulerAssumption DEF Books, JobFollows, LiveStages, Listed, Jobs
  <2>3. Cardinality(Holders(table, job, LaneOf(job[j]))) >= LaneLimit(LaneOf(job[j]))
    BY <2>1, <2>2 DEF LanesFull, Eligible
  <2>4. LaneOf(job[j]) \in LaneNames
    BY DEF LaneOf, LaneNames
  <2>5. {i \in Jobs : job[i].lane = LaneOf(job[j]) /\ Busy(i) /\ job[i].epoch = epoch}
          = Holders(table, job, LaneOf(job[j]))
    BY <2>4, BusyJobs
  <2> QED
    BY <2>3, <2>5
<1> QED
  BY <1>1, SchedulerAlways, PTL

-----------------------------------------------------------------------------
(* The scheduler implements ScanLanes. *)

(* The refinement mapping: initial states are initial states of the lanes. *)
LEMMA LanesStart == SchedulerInit => Lanes!LanesInit
<1> SUFFICES ASSUME SchedulerInit PROVE Lanes!LanesInit
  OBVIOUS
<1>1. Listed(table) = {}
  BY DEF SchedulerInit, Listed
<1>2. \A j \in Jobs : job[j].settled = FALSE
  BY DEF SchedulerInit, Unborn
<1>3. enabled = FALSE
  BY DEF SchedulerInit
<1> QED
  BY <1>1, <1>2, <1>3 DEF Lanes!LanesInit, Lanes!Lanes, LaneNames, Holders

(* Begin and RunEnds, and a cancelled job that goes on running: nothing    *)
(* the callers were promised changes.                                      *)
LEMMA InPlaceIsStutter ==
  ASSUME SchedulerInv, NEW j \in Jobs, NEW r \in Job, job' = [job EXCEPT ![j] = r],
         UNCHANGED <<table, enabled>>,
         r.key = job[j].key, r.lane = job[j].lane, r.priority = job[j].priority,
         r.settled = job[j].settled
  PROVE  UNCHANGED Lanes!lanesVars
<1>0. Books(table, job, created, epoch) /\ job \in [Jobs -> Job] /\ Listed(table) \subseteq Jobs
  BY ListedJobs DEF SchedulerInv, Books
<1>1. \A i \in Jobs : /\ job'[i].lane = job[i].lane /\ job'[i].priority = job[i].priority
                      /\ job'[i].key = job[i].key /\ job'[i].settled = job[i].settled
  BY <1>0
<1>2. {i \in Listed(table) : job'[i].lane = None} = {i \in Listed(table) : job[i].lane = None}
  BY <1>0, <1>1
<1>3. [l \in LaneNames |-> Holders(table, job', l)] = [l \in LaneNames |-> Holders(table, job, l)]
  BY <1>0, <1>1 DEF Holders
<1>4. {i \in Jobs : job'[i].settled} = {i \in Jobs : job[i].settled}
  BY <1>1
<1>5. {i \in Listed(table) : job'[i].key \in CheapKeys} = {i \in Listed(table) : job[i].key \in CheapKeys}
  BY <1>0, <1>1
<1>6. {i \in Listed(table) : job'[i].priority = 0} = {i \in Listed(table) : job[i].priority = 0}
  BY <1>0, <1>1
<1> QED
  BY <1>2, <1>3, <1>4, <1>5, <1>6 DEF Lanes!lanesVars

(* What the mapping shows of a table and its jobs. *)
Waiting(t, js) == {j \in Listed(t) : js[j].lane = None}
Serving(t, js) == [l \in LaneNames |-> Holders(t, js, l)]
Settled(js) == {j \in Jobs : js[j].settled}
Small(t, js) == {j \in Listed(t) : js[j].key \in CheapKeys}
Urgent(t, js) == {j \in Listed(t) : js[j].priority = 0}

(* Every listed job waits or is served. *)
LEMMA ServedJobs ==
  ASSUME SchedulerInv
  PROVE  /\ Lanes!Served = Listed(table) \ Waiting(table, job)
         /\ Waiting(table, job) \cup Lanes!Served = Listed(table)
<1>0. Books(table, job, created, epoch)
  BY DEF SchedulerInv
<1>1. Lanes!Served = UNION {Holders(table, job, l) : l \in LaneNames}
  BY DEF Lanes!Served, Lanes!Lanes, LaneNames
<1>2. \A j : j \in Lanes!Served <=> \E l \in LaneNames : j \in Holders(table, job, l)
  BY <1>1
<1>3. \A j \in Listed(table) : job[j].lane \in LaneNames \cup {None}
  BY <1>0, ListedJobs
<1>4. Lanes!Served = Listed(table) \ Waiting(table, job)
  BY <1>2, <1>3, SchedulerAssumption DEF Holders, Waiting
<1> QED
  BY <1>4 DEF Waiting

(* enqueue() of a key that is listed: its scan may become urgent. *)
LEMMA JoinIsPromote ==
  ASSUME SchedulerInv, NEW k \in Keys, NEW p \in Priorities, Enqueue(k, p), table[k] # None,
         NEW j, j = table[k]
  PROVE  Lanes!Promote(j) \/ UNCHANGED Lanes!lanesVars
<1> DEFINE r == [job[j] EXCEPT !.priority = IF p < @ THEN p ELSE @]
<1>0. Books(table, job, created, epoch) /\ job \in [Jobs -> Job]
  BY DEF SchedulerInv, Books
<1>1. j \in Jobs /\ j \in Listed(table) /\ Listed(table) \subseteq Jobs
  BY <1>0, OnlyItsKey, ListedJobs
<1>2. job' = [job EXCEPT ![j] = r] /\ UNCHANGED <<table, enabled>>
  BY <1>0, <1>1 DEF Enqueue
<1>3. /\ r.lane = job[j].lane /\ r.key = job[j].key /\ r.settled = job[j].settled
      /\ r.priority = IF p < job[j].priority THEN p ELSE job[j].priority
      /\ job[j].priority \in Nat /\ p \in Nat
  BY <1>0, <1>1 DEF Job, Priorities
<1> HIDE DEF r
<1>4. /\ \A i \in Jobs : /\ job'[i].lane = job[i].lane /\ job'[i].key = job[i].key
                         /\ job'[i].settled = job[i].settled
      /\ \A i \in Jobs \ {j} : job'[i].priority = job[i].priority
      /\ job'[j].priority = r.priority
  BY <1>0, <1>1, <1>2, <1>3
<1>5. Waiting(table, job') = Waiting(table, job)
  BY <1>1, <1>4 DEF Waiting
<1>6. Serving(table, job') = Serving(table, job)
  BY <1>1, <1>4 DEF Serving, Holders
<1>7. Settled(job') = Settled(job)
  BY <1>4 DEF Settled
<1>8. Small(table, job') = Small(table, job)
  BY <1>1, <1>4 DEF Small
<1>9. CASE r.priority = 0
  <2>1. Urgent(table, job') = Urgent(table, job) \cup {j}
    BY <1>1, <1>4, <1>9 DEF Urgent
  <2>2. j \in Waiting(table, job) \cup Lanes!Served
    BY <1>1, ServedJobs
  <2>3. Lanes!Promote(j)
    BY <1>2, <1>5, <1>6, <1>7, <1>8, <2>1, <2>2
    DEF Lanes!Promote, Waiting, Serving, Settled, Small, Urgent
  <2> QED
    BY <2>3
<1>10. CASE r.priority # 0
  <2>1. job[j].priority # 0
    BY <1>3, <1>10
  <2>2. Urgent(table, job') = Urgent(table, job)
    BY <1>1, <1>4, <1>10, <2>1 DEF Urgent
  <2> QED
    BY <1>2, <1>5, <1>6, <1>7, <1>8, <2>2
    DEF Lanes!lanesVars, Waiting, Serving, Settled, Small, Urgent
<1> QED
  BY <1>9, <1>10

(* enqueue() of a key that is not: a new request. *)
LEMMA CreateIsSubmit ==
  ASSUME SchedulerInv, NEW k \in Keys, NEW p \in Priorities, Enqueue(k, p), table[k] = None,
         NEW j, j = created + 1
  PROVE  j \in Jobs /\ Lanes!Submit(j)
<1> DEFINE r == [Unborn EXCEPT !.key = k, !.priority = p, !.stage = "queued", !.epoch = epoch]
<1>0. /\ Books(table, job, created, epoch) /\ job \in [Jobs -> Job]
      /\ table \in [Keys -> Jobs \cup {None}] /\ created \in Nat
  BY DEF SchedulerInv, Books
<1>1. /\ j \in Jobs /\ table' = [table EXCEPT ![k] = j]
      /\ job' = [job EXCEPT ![j] = r] /\ enabled' = enabled
  BY <1>0, SchedulerAssumption DEF Enqueue, Books, Jobs
<1>2. r.key = k /\ r.lane = None /\ r.settled = FALSE /\ r.priority = p
  BY DEF Unborn
<1> HIDE DEF r
<1>3. job[j].settled = FALSE /\ job[j].stage = "none"
  BY <1>0, <1>1 DEF Books, JobFollows, Unborn
<1>4. Listed(table) \subseteq Jobs \ {j}
  BY <1>0, <1>3, ListedJobs DEF LiveStages
<1>5. Listed(table') = Listed(table) \cup {j}
  BY <1>0, <1>1, SchedulerAssumption DEF Listed, Jobs
<1>6. job'[j] = r /\ \A i \in Jobs \ {j} : job'[i] = job[i]
  BY <1>0, <1>1
<1>7. Waiting(table', job') = Waiting(table, job) \cup {j}
  BY <1>2, <1>4, <1>5, <1>6 DEF Waiting
<1>8. Serving(table', job') = Serving(table, job)
  BY <1>2, <1>4, <1>5, <1>6, SchedulerAssumption DEF Serving, Holders
<1>9. Settled(job') = Settled(job)
  BY <1>1, <1>2, <1>3, <1>6 DEF Settled
<1>10. Small(table', job') \in {Small(table, job), Small(table, job) \cup {j}}
  BY <1>4, <1>5, <1>6 DEF Small
<1>11. Urgent(table', job') \in {Urgent(table, job), Urgent(table, job) \cup {j}}
  BY <1>4, <1>5, <1>6 DEF Urgent
<1>12. j \notin Waiting(table, job) \cup Lanes!Served \cup Settled(job)
  BY <1>3, <1>4, ServedJobs DEF Settled
<1>13. Lanes!Submit(j)
  BY <1>1, <1>7, <1>8, <1>9, <1>10, <1>11, <1>12
  DEF Lanes!Submit, Waiting, Serving, Settled, Small, Urgent
<1> QED
  BY <1>1, <1>13

(* cancel() of a job without a lane: a request is withdrawn. *)
LEMMA CancelIsWithdraw ==
  ASSUME SchedulerInv, NEW k \in Keys, Cancel(k), job[table[k]].lane = None,
         NEW j, j = table[k]
  PROVE  j \in Jobs /\ Lanes!Withdraw(j)
<1>0. Books(table, job, created, epoch) /\ job \in [Jobs -> Job] /\ table[k] # None
  BY DEF SchedulerInv, Books, Cancel
<1>1. j \in Jobs /\ j \in Listed(table) /\ Listed(table) \subseteq Jobs
  BY <1>0, OnlyItsKey, ListedJobs
<1>2. table' = [l \in Keys |-> IF table[l] = j THEN None ELSE table[l]]
  <2>1. table' = [table EXCEPT ![k] = None]
    BY DEF Cancel
  <2>2. [table EXCEPT ![k] = None] = [l \in Keys |-> IF table[l] = table[k] THEN None ELSE table[l]]
    BY <1>0, OnlyItsKey
  <2> QED
    BY <2>1, <2>2
<1>3. job' = [job EXCEPT ![j] = Over] /\ enabled' = enabled
  BY DEF Cancel
<1>4. Listed(table') = Listed(table) \ {j}
  BY <1>1, <1>2, SchedulerAssumption DEF Listed, Jobs
<1>5. Over.settled /\ job'[j] = Over /\ \A i \in Jobs \ {j} : job'[i] = job[i]
  BY <1>0, <1>1, <1>3 DEF Over, Unborn
<1>6. j \in Waiting(table, job)
  BY <1>1 DEF Waiting
<1>7. Waiting(table', job') = Waiting(table, job) \ {j}
  BY <1>1, <1>4, <1>5 DEF Waiting
<1>8. Serving(table', job') = Serving(table, job)
  <2>1. ASSUME NEW l \in LaneNames PROVE Holders(table', job', l) = Holders(table, job, l)
    <3>1. job[j].lane # l
      BY SchedulerAssumption
    <3> QED
      BY <1>1, <1>4, <1>5, <3>1 DEF Holders
  <2> QED
    BY <2>1 DEF Serving
<1>9. Settled(job') = Settled(job) \cup {j}
  BY <1>1, <1>5 DEF Settled
<1>10. Small(table', job') = Small(table, job) \ {j}
  BY <1>1, <1>4, <1>5 DEF Small
<1>11. Urgent(table', job') = Urgent(table, job) \ {j}
  BY <1>1, <1>4, <1>5 DEF Urgent
<1>12. Lanes!Withdraw(j)
  BY <1>3, <1>6, <1>7, <1>8, <1>9, <1>10, <1>11
  DEF Lanes!Withdraw, Lanes!Settle, Waiting, Serving, Settled, Small, Urgent
<1> QED
  BY <1>1, <1>12

(* reset(): everything is settled. *)
LEMMA ResetIsFlush ==
  ASSUME SchedulerInv, Reset
  PROVE  Lanes!Flush
<1>0. Books(table, job, created, epoch) /\ Listed(table) \subseteq Jobs
  BY ListedJobs DEF SchedulerInv
<1>1. Listed(table') = {} /\ enabled' = FALSE
  BY DEF Reset, Listed
<1>2. ASSUME NEW j \in Jobs
      PROVE  job'[j].settled <=> job[j].settled \/ j \in Listed(table)
  <2>1. job[j] \in Job
    BY <1>0 DEF Books
  <2>2. Over.settled
    BY DEF Over, Unborn
  <2> QED
    BY <2>1, <2>2 DEF Reset, Job
<1>3. Waiting(table', job') = {} /\ Small(table', job') = {} /\ Urgent(table', job') = {}
  BY <1>1 DEF Waiting, Small, Urgent
<1>4. Serving(table', job') = [l \in LaneNames |-> {}]
  BY <1>1 DEF Serving, Holders
<1>5. Settled(job') = Settled(job) \cup (Waiting(table, job) \cup Lanes!Served)
  <2>1. Settled(job') = Settled(job) \cup Listed(table)
    BY <1>0, <1>2 DEF Settled
  <2> QED
    BY <2>1, ServedJobs
<1>6. /\ Small(table, job) \ (Waiting(table, job) \cup Lanes!Served) = {}
      /\ Urgent(table, job) \ (Waiting(table, job) \cup Lanes!Served) = {}
  BY ServedJobs DEF Small, Urgent
<1> QED
  BY <1>1, <1>3, <1>4, <1>5, <1>6
  DEF Lanes!Flush, Lanes!Settle, Lanes!Lanes, LaneNames, Waiting, Serving, Settled, Small, Urgent

(* A drain serves its winners. *)
LEMMA DrainServes ==
  ASSUME NEW t, NEW js, NEW c, NEW e, NEW on, Books(t, js, c, e), WithinLanes(t, js),
         NEW d, d = Drained(t, js, on)
  PROVE  /\ Winners(t, js, on) \subseteq Waiting(t, js)
         /\ Waiting(t, d) = Waiting(t, js) \ Winners(t, js, on)
         /\ \A r \in Winners(t, js, on) : on \/ js[r].priority = 0
         /\ \A l \in LaneNames :
               /\ Holders(t, d, l)
                    = Holders(t, js, l) \cup LaneWinners(t, js, on, l)
               /\ Cardinality(Holders(t, d, l)) <= LaneLimit(l)
<1>1. Winners(t, js, on) \subseteq Eligible(t, js, on) /\ Eligible(t, js, on) \subseteq Listed(t)
      /\ Listed(t) \subseteq Jobs
  BY ListedFacts
<1>2. Winners(t, js, on) \subseteq Waiting(t, js)
  BY <1>1 DEF Eligible, Waiting
<1>3. \A r \in Winners(t, js, on) : on \/ js[r].priority = 0
  BY <1>1 DEF Eligible
<1>4. \A j \in Listed(t) : d[j].lane = None <=> js[j].lane = None /\ j \notin Winners(t, js, on)
  BY <1>1, <1>2, DrainedJob, SchedulerAssumption DEF Waiting
<1>5. Waiting(t, d) = Waiting(t, js) \ Winners(t, js, on)
  BY <1>4 DEF Waiting
<1>6. ASSUME NEW l \in LaneNames
      PROVE  /\ Holders(t, d, l)
                  = Holders(t, js, l) \cup LaneWinners(t, js, on, l)
             /\ Cardinality(Holders(t, d, l)) <= LaneLimit(l)
  <2>1. Holders(t, d, l) = Holders(t, js, l) \cup LaneWinners(t, js, on, l)
    BY DrainedHolders
  <2>2. Cardinality(Holders(t, d, l)) <= LaneLimit(l)
    BY DrainStaysWithin DEF WithinLanes
  <2> QED
    BY <2>1, <2>2
<1> QED
  BY <1>2, <1>3, <1>5, <1>6

(* ScanLanes counts as ScanScheduler does. *)
LEMMA SameCardinality == \A S : Lanes!Cardinality(S) = Cardinality(S)
  BY DEF Lanes!Cardinality, Cardinality

(* A Serve step of ScanLanes, as a relation between what it reads (w, s,   *)
(* sm, ur, on) and what it leaves (w2, s2).                                *)
ServesTo(w, s, on, sm, ur, w2, s2) ==
    \E chosen \in SUBSET w :
        /\ \A r \in chosen : on \/ r \in ur
        /\ w2 = w \ chosen
        /\ s2 = [l \in LaneNames |->
                    s[l] \cup {r \in chosen : (IF r \in sm THEN "cheap"
                                               ELSE IF r \in ur THEN "foreground"
                                               ELSE "background") = l}]
        /\ \A l \in LaneNames : Cardinality(s2[l]) <= LaneLimit(l)

(* A drain of a table whose jobs are as they were serves its winners. *)
LEMMA DrainServesTo ==
  ASSUME NEW t, NEW js, NEW c, NEW e, NEW on, Books(t, js, c, e), WithinLanes(t, js),
         NEW d, d = Drained(t, js, on), NEW sm, NEW ur,
         \A j \in Listed(t) : /\ j \in sm <=> js[j].key \in CheapKeys
                              /\ j \in ur <=> js[j].priority = 0
  PROVE  ServesTo(Waiting(t, js), Serving(t, js), on, sm, ur, Waiting(t, d), Serving(t, d))
<1> DEFINE chosen == Winners(t, js, on)
           LaneFor(r) == IF r \in sm THEN "cheap"
                         ELSE IF r \in ur THEN "foreground" ELSE "background"
<1>1. /\ chosen \subseteq Waiting(t, js) /\ Waiting(t, d) = Waiting(t, js) \ chosen
      /\ \A r \in chosen : on \/ js[r].priority = 0
      /\ \A l \in LaneNames :
            /\ Holders(t, d, l) = Holders(t, js, l) \cup LaneWinners(t, js, on, l)
            /\ Cardinality(Holders(t, d, l)) <= LaneLimit(l)
  BY DrainServes
<1>2. chosen \subseteq Listed(t)
  BY <1>1 DEF Waiting
<1>3. \A r \in chosen : LaneFor(r) = LaneOf(js[r])
  BY <1>2 DEF LaneOf
<1>4. \A r \in chosen : on \/ r \in ur
  BY <1>1, <1>2
<1>5. \A l \in LaneNames : LaneWinners(t, js, on, l) = {r \in chosen : LaneFor(r) = l}
  BY <1>3 DEF LaneWinners
<1> HIDE DEF chosen, LaneFor
<1>6. Serving(t, d) = [l \in LaneNames |-> Serving(t, js)[l] \cup {r \in chosen : LaneFor(r) = l}]
  BY <1>1, <1>5 DEF Serving
<1>7. \A l \in LaneNames : Cardinality(Serving(t, d)[l]) <= LaneLimit(l)
  BY <1>1 DEF Serving
<1>8. chosen \in SUBSET Waiting(t, js)
  BY <1>1
<1> QED
  BY <1>1, <1>4, <1>6, <1>7, <1>8 DEF ServesTo, LaneFor

(* A drain settles nobody. *)
LEMMA DrainShows ==
  ASSUME NEW t, NEW js, NEW c, NEW e, NEW on, Books(t, js, c, e)
  PROVE  /\ Small(t, Drained(t, js, on)) = Small(t, js)
         /\ Urgent(t, Drained(t, js, on)) = Urgent(t, js)
         /\ Settled(Drained(t, js, on)) = Settled(js)
<1> DEFINE d == Drained(t, js, on)
<1>1. Listed(t) \subseteq Jobs
  BY ListedJobs
<1>2. \A j \in Jobs : /\ d[j].key = js[j].key /\ d[j].priority = js[j].priority
                      /\ d[j].settled = js[j].settled
  BY DrainedJob
<1> HIDE DEF d
<1>3. Small(t, d) = Small(t, js) /\ Urgent(t, d) = Urgent(t, js) /\ Settled(d) = Settled(js)
  BY <1>1, <1>2 DEF Small, Urgent, Settled
<1> QED
  BY <1>3 DEF d

(* A drain is a grant of free slots. *)
LEMMA DrainIsGrant ==
  ASSUME SchedulerInv, Drain
  PROVE  Lanes!Grant
<1>0. Books(table, job, created, epoch) /\ WithinLanes(table, job)
  BY DEF SchedulerInv
<1>1. table' = table /\ job' = Drained(table, job, enabled) /\ enabled' = enabled
  BY DEF Drain
<1>2. Lanes!Serve(Waiting(table, job), Serving(table, job), enabled)
  <2>1. ServesTo(Waiting(table, job), Serving(table, job), enabled, Small(table, job),
                 Urgent(table, job), Waiting(table', job'), Serving(table', job'))
    BY <1>0, <1>1, DrainServesTo DEF Small, Urgent
  <2> QED
    BY <2>1, SameCardinality
    DEF ServesTo, Lanes!Serve, Lanes!LaneFor, Lanes!Lanes, LaneNames, Lanes!Slots, LaneLimit,
        Waiting, Serving, Small, Urgent
<1>3. /\ Small(table', job') = Small(table, job) /\ Urgent(table', job') = Urgent(table, job)
      /\ Settled(job') = Settled(job)
  BY <1>0, <1>1, DrainShows
<1> QED
  BY <1>1, <1>2, <1>3 DEF Lanes!Grant, Waiting, Serving, Small, Urgent, Settled

(* Enable opens or closes the background. *)
LEMMA EnableIsAdmit ==
  ASSUME SchedulerInv, NEW v \in BOOLEAN, Enable(v)
  PROVE  Lanes!Admit(v)
<1>0. Books(table, job, created, epoch) /\ WithinLanes(table, job)
  BY DEF SchedulerInv
<1>1. CASE v
  <2>1. table' = table /\ job' = Drained(table, job, v) /\ enabled' = v
    BY <1>1 DEF Enable
  <2>2. Lanes!Serve(Waiting(table, job), Serving(table, job), v)
    <3>1. ServesTo(Waiting(table, job), Serving(table, job), v, Small(table, job),
                   Urgent(table, job), Waiting(table', job'), Serving(table', job'))
      BY <1>0, <2>1, DrainServesTo DEF Small, Urgent
    <3> QED
      BY <3>1, SameCardinality
      DEF ServesTo, Lanes!Serve, Lanes!LaneFor, Lanes!Lanes, LaneNames, Lanes!Slots, LaneLimit,
          Waiting, Serving, Small, Urgent
  <2>3. /\ Small(table', job') = Small(table, job) /\ Urgent(table', job') = Urgent(table, job)
        /\ Settled(job') = Settled(job)
    BY <1>0, <2>1, DrainShows
  <2> QED
    BY <2>1, <2>2, <2>3 DEF Lanes!Admit, Waiting, Serving, Small, Urgent, Settled
<1>2. CASE ~v
  <2>1. table' = table /\ job' = job /\ enabled' = v
    BY <1>2 DEF Enable
  <2>2. Lanes!Serve(Waiting(table, job), Serving(table, job), v)
    <3>1. Serving(table, job)
            = [l \in LaneNames |-> Serving(table, job)[l] \cup
                 {r \in {} : (IF r \in Small(table, job) THEN "cheap"
                              ELSE IF r \in Urgent(table, job) THEN "foreground"
                              ELSE "background") = l}]
      BY DEF Serving
    <3>2. \A l \in LaneNames : Cardinality(Serving(table, job)[l]) <= LaneLimit(l)
      BY <1>0 DEF WithinLanes, Serving
    <3>3. /\ {} \in SUBSET Waiting(table, job) /\ Waiting(table, job) = Waiting(table, job) \ {}
          /\ \A r \in {} : v \/ r \in Urgent(table, job)
      OBVIOUS
    <3>4. ServesTo(Waiting(table, job), Serving(table, job), v, Small(table, job),
                   Urgent(table, job), Waiting(table', job'), Serving(table', job'))
      BY <2>1, <3>1, <3>2, <3>3 DEF ServesTo
    <3> QED
      BY <3>4, SameCardinality
      DEF ServesTo, Lanes!Serve, Lanes!LaneFor, Lanes!Lanes, LaneNames, Lanes!Slots, LaneLimit,
          Waiting, Serving, Small, Urgent
  <2> QED
    BY <2>1, <2>2 DEF Lanes!Admit, Waiting, Serving
<1> QED
  BY <1>1, <1>2

(* finally(): a listed job is complete; one of an earlier session was      *)
(* settled with it, and only the drain is seen.                            *)
LEMMA FinallyIsComplete ==
  ASSUME SchedulerInv, NEW j \in Jobs, Finally(j)
  PROVE  Lanes!Complete(j) \/ Lanes!Grant
<1> DEFINE t == [k \in Keys |-> IF table[k] = j THEN None ELSE table[k]]
           js == [job EXCEPT ![j] = Over]
<1>0. Books(table, job, created, epoch) /\ WithinLanes(table, job) /\ job[j].stage = "ended"
  BY DEF SchedulerInv, Finally
<1>1. table' = t /\ job' = Drained(t, js, enabled) /\ enabled' = enabled
  BY DEF Finally
<1>2. /\ Books(t, js, created, epoch) /\ Listed(t) = Listed(table) \ {j}
      /\ \A i \in Jobs \ {j} : js[i] = job[i]
      /\ \A lane : Holders(t, js, lane) = Holders(table, job, lane) \ {j}
      /\ js[j] = Over
  <2>1. job[j].stage # "none"
    BY <1>0
  <2>2. /\ t \in [Keys -> Jobs \cup {None}]
        /\ \A k \in Keys : t[k] = IF table[k] = j THEN None ELSE table[k]
    BY <1>0 DEF Books
  <2>3. js \in [Jobs -> Job] /\ js[j] = Over /\ \A i \in Jobs \ {j} : js[i] = job[i]
    BY <1>0, OverIsJob DEF Books
  <2> HIDE DEF t, js
  <2> QED
    BY <1>0, <2>1, <2>2, <2>3, JobLeaves
<1> HIDE DEF t, js
<1>3. WithinLanes(t, js)
  <2> SUFFICES ASSUME NEW lane \in LaneNames
               PROVE  Cardinality(Holders(t, js, lane)) <= LaneLimit(lane)
    BY DEF WithinLanes
  <2>1. Holders(table, job, lane) \subseteq Jobs /\ Holders(t, js, lane) \subseteq Jobs
    BY <1>0, <1>2, ListedJobs
  <2>2. Cardinality(Holders(t, js, lane)) <= Cardinality(Holders(table, job, lane))
    BY <1>2, <2>1, Grows
  <2>3. Cardinality(Holders(t, js, lane)) \in Nat /\ Cardinality(Holders(table, job, lane)) \in Nat
    BY <2>1, JobSets
  <2> QED
    BY <1>0, <2>2, <2>3 DEF WithinLanes, LaneLimit
<1>4. Listed(table) \subseteq Jobs
  BY <1>0, ListedJobs
<1>5. Lanes!Serve(Waiting(t, js), Serving(t, js), enabled)
  <2>1. \A i \in Listed(t) : /\ i \in Small(table, job) <=> js[i].key \in CheapKeys
                             /\ i \in Urgent(table, job) <=> js[i].priority = 0
    BY <1>2, <1>4 DEF Small, Urgent
  <2>2. ServesTo(Waiting(t, js), Serving(t, js), enabled, Small(table, job),
                 Urgent(table, job), Waiting(table', job'), Serving(table', job'))
    BY <1>1, <1>2, <1>3, <2>1, DrainServesTo
  <2> QED
    BY <2>2, SameCardinality
    DEF ServesTo, Lanes!Serve, Lanes!LaneFor, Lanes!Lanes, LaneNames, Lanes!Slots, LaneLimit,
        Waiting, Serving, Small, Urgent
<1>6. /\ Small(table', job') = Small(t, js) /\ Urgent(table', job') = Urgent(t, js)
      /\ Settled(job') = Settled(js)
  BY <1>1, <1>2, DrainShows
<1>7. /\ Small(t, js) = Small(table, job) \ {j} /\ Urgent(t, js) = Urgent(table, job) \ {j}
      /\ Settled(js) = Settled(job) \cup {j}
  <2>1. Over.settled
    BY DEF Over, Unborn
  <2> QED
    BY <1>2, <1>4, <2>1 DEF Small, Urgent, Settled
<1>8. Waiting(t, js) = Waiting(table, job)
  <2>1. j \notin Waiting(table, job)
    BY <1>0, ListedJobs DEF Waiting
  <2> QED
    BY <1>2, <1>4, <2>1 DEF Waiting
<1>9. Serving(t, js) = [l \in LaneNames |-> Serving(table, job)[l] \ {j}]
  BY <1>2 DEF Serving
<1>10. CASE j \in Listed(table)
  <2>1. j \in Lanes!Served
    BY <1>0, <1>10, ServedJobs, ListedJobs DEF Waiting
  <2>2. Lanes!Lanes = LaneNames
    BY DEF Lanes!Lanes, LaneNames
  <2>3. Lanes!Serve(Waiting(table, job), [l \in LaneNames |-> Serving(table, job)[l] \ {j}], enabled)
    BY <1>5, <1>8, <1>9
  <2>4. /\ Small(table', job') = Small(table, job) \ {j}
        /\ Urgent(table', job') = Urgent(table, job) \ {j}
        /\ Settled(job') = Settled(job) \cup {j}
    BY <1>6, <1>7
  <2> QED
    BY <1>1, <2>1, <2>2, <2>3, <2>4
    DEF Lanes!Complete, Lanes!Settle, Waiting, Serving, Small, Urgent, Settled
<1>11. CASE j \notin Listed(table)
  <2>1. job[j].settled
    BY <1>0, <1>11, SchedulerAssumption DEF Books, JobFollows, LiveStages, Listed, Jobs
  <2>2. Settled(js) = Settled(job) /\ Small(t, js) = Small(table, job)
        /\ Urgent(t, js) = Urgent(table, job)
    BY <1>7, <1>11, <2>1 DEF Settled, Small, Urgent
  <2>3. Serving(t, js) = Serving(table, job)
    BY <1>2, <1>11 DEF Serving, Holders
  <2>4. Lanes!Serve(Waiting(table, job), Serving(table, job), enabled)
    BY <1>5, <1>8, <2>3
  <2> QED
    BY <1>1, <1>6, <2>2, <2>4 DEF Lanes!Grant, Waiting, Serving, Small, Urgent, Settled
<1> QED
  BY <1>10, <1>11

(* Every step of the scheduler is a step of ScanLanes or a stutter. *)
LEMMA StepRefines ==
  SchedulerInv /\ [SchedulerNext]_schedulerVars => [Lanes!LanesNext]_(Lanes!lanesVars)
<1> SUFFICES ASSUME SchedulerInv, [SchedulerNext]_schedulerVars
             PROVE  Lanes!LanesNext \/ UNCHANGED Lanes!lanesVars
  OBVIOUS
<1>0. job \in [Jobs -> Job] /\ Books(table, job, created, epoch)
  BY DEF SchedulerInv, Books
<1>1. CASE UNCHANGED schedulerVars
  BY <1>1 DEF schedulerVars, Lanes!lanesVars
<1>2. ASSUME NEW k \in Keys, NEW p \in Priorities, Enqueue(k, p)
      PROVE  Lanes!LanesNext \/ UNCHANGED Lanes!lanesVars
  <2>1. CASE table[k] = None
    <3>1. PICK j : j = created + 1
      OBVIOUS
    <3>2. j \in Jobs /\ Lanes!Submit(j)
      BY <1>2, <2>1, <3>1, CreateIsSubmit
    <3> QED
      BY <3>2 DEF Lanes!LanesNext
  <2>2. CASE table[k] # None
    <3>1. PICK j : j = table[k]
      OBVIOUS
    <3>2. j \in Jobs
      BY <1>0, <2>2, <3>1, OnlyItsKey
    <3>3. Lanes!Promote(j) \/ UNCHANGED Lanes!lanesVars
      BY <1>2, <2>2, <3>1, JoinIsPromote
    <3> QED
      BY <3>2, <3>3 DEF Lanes!LanesNext
  <2> QED
    BY <2>1, <2>2
<1>3. ASSUME NEW k \in Keys, Cancel(k)
      PROVE  Lanes!LanesNext \/ UNCHANGED Lanes!lanesVars
  <2>1. CASE job[table[k]].lane = None
    <3>1. PICK j : j = table[k]
      OBVIOUS
    <3>2. j \in Jobs /\ Lanes!Withdraw(j)
      BY <1>3, <2>1, <3>1, CancelIsWithdraw
    <3> QED
      BY <3>2 DEF Lanes!LanesNext
  <2>2. CASE job[table[k]].lane # None
    <3> DEFINE j == table[k]
               r == [job[j] EXCEPT !.aborted = TRUE]
    <3>1. j \in Jobs
      BY <1>0, <1>3, OnlyItsKey DEF Cancel
    <3>2. job' = [job EXCEPT ![j] = r] /\ UNCHANGED <<table, enabled>>
      BY <1>0, <1>3, <2>2, <3>1 DEF Cancel
    <3>3. /\ r \in Job /\ r.key = job[j].key /\ r.lane = job[j].lane
          /\ r.priority = job[j].priority /\ r.settled = job[j].settled
      BY <1>0, <3>1 DEF Job
    <3> HIDE DEF r, j
    <3> QED
      BY <3>1, <3>2, <3>3, InPlaceIsStutter
  <2> QED
    BY <2>1, <2>2
<1>4. ASSUME NEW v \in BOOLEAN, Enable(v) PROVE Lanes!LanesNext
  <2>1. Lanes!Admit(v)
    BY <1>4, EnableIsAdmit
  <2> QED
    BY <2>1 DEF Lanes!LanesNext
<1>5. CASE Reset
  BY <1>5, ResetIsFlush DEF Lanes!LanesNext
<1>6. CASE Drain
  BY <1>6, DrainIsGrant DEF Lanes!LanesNext
<1>7. ASSUME NEW j \in Jobs, Begin(j) PROVE UNCHANGED Lanes!lanesVars
  <2> DEFINE r == [job[j] EXCEPT !.stage = IF job[j].aborted THEN "ended" ELSE "running"]
  <2>1. job' = [job EXCEPT ![j] = r] /\ UNCHANGED <<table, enabled>>
    BY <1>0, <1>7 DEF Begin
  <2>2. /\ r \in Job /\ r.key = job[j].key /\ r.lane = job[j].lane
        /\ r.priority = job[j].priority /\ r.settled = job[j].settled
    BY <1>0 DEF Job, Stages
  <2> HIDE DEF r
  <2> QED
    BY <2>1, <2>2, InPlaceIsStutter
<1>8. ASSUME NEW j \in Jobs, RunEnds(j) PROVE UNCHANGED Lanes!lanesVars
  <2> DEFINE r == [job[j] EXCEPT !.stage = "ended"]
  <2>1. job' = [job EXCEPT ![j] = r] /\ UNCHANGED <<table, enabled>>
    BY <1>0, <1>8 DEF RunEnds
  <2>2. /\ r \in Job /\ r.key = job[j].key /\ r.lane = job[j].lane
        /\ r.priority = job[j].priority /\ r.settled = job[j].settled
    BY <1>0 DEF Job, Stages
  <2> HIDE DEF r
  <2> QED
    BY <2>1, <2>2, InPlaceIsStutter
<1>9. ASSUME NEW j \in Jobs, Finally(j) PROVE Lanes!LanesNext
  <2>1. Lanes!Complete(j) \/ Lanes!Grant
    BY <1>9, FinallyIsComplete
  <2> QED
    BY <2>1 DEF Lanes!LanesNext
<1> QED
  BY <1>1, <1>2, <1>3, <1>4, <1>5, <1>6, <1>7, <1>8, <1>9 DEF SchedulerNext

(* The scheduler keeps the promise of ScanLanes: whatever its table, its   *)
(* priorities and its micro-tasks do, callers see requests wait, be served *)
(* in one lane with a free slot, and be settled once.                      *)
THEOREM SchedulerImplementsLanes == SchedulerSpec => ImplementsLanes
  BY LanesStart, StepRefines, SchedulerAlways, PTL
  DEF SchedulerSpec, ImplementsLanes, Lanes!LanesSpec

-----------------------------------------------------------------------------
(* The stores. *)

(* A job that will run a scan of key k unless it is aborted first. *)
Waits(t, js, k) ==
    t[k] # None /\ js[t[k]].stage \in {"queued", "granted"} /\ ~js[t[k]].aborted

(* A job left over from an earlier session has been aborted. *)
OldIsAborted(r, e) == r.stage \in {"granted", "running"} /\ r.epoch # e => r.aborted

(* A run and its job: it goes on while the job runs, in the session of the *)
(* job, and the controller of its store is its own.                        *)
RunFollows(j) ==
    /\ scan[j].at # "off" <=> job[j].stage = "running"
    /\ scan[j].at # "off" => job[j].key \in Keys
    /\ scan[j].at # "off" => scan[j].epoch = job[j].epoch
    /\ scan[j].at # "off" /\ scan[j].epoch = epoch => current[job[j].key] = j
    /\ OldIsAborted(job[j], epoch)

(* A store and its run: it shows a spinner while one of this session goes  *)
(* on, and once paused only a forced load has a job waiting for it.        *)
StoreFollows(k) ==
    /\ store[k].loading <=> current[k] # None
    /\ current[k] # None => /\ scan[current[k]].at # "off" /\ scan[current[k]].epoch = epoch
                            /\ job[current[k]].key = k
    /\ store[k].data \in {None, epoch}
    /\ ~store[k].started => store[k] = InitialState
    /\ store[k].phase = "aborted" => current[k] = None /\ (Waits(table, job, k) => retry[k])

StoreTypes ==
    /\ store \in [Keys -> ScanState]
    /\ current \in [Keys -> Jobs \cup {None}]
    /\ scan \in [Jobs -> Scan]
    /\ retry \in [Keys -> BOOLEAN]

ScansInv ==
    /\ SchedulerInv /\ StoreTypes
    /\ \A j \in Jobs : RunFollows(j)
    /\ \A k \in Keys : StoreFollows(k)

-----------------------------------------------------------------------------
(* What the scheduler's own steps do to the jobs. *)

(* No job begins or ends to run. *)
RunsGoOn(js, js2, e2) ==
    \A j \in Jobs : /\ js2[j].stage = "running" <=> js[j].stage = "running"
                    /\ js[j].stage = "running" => js2[j].key = js[j].key /\ js2[j].epoch = js[j].epoch
                    /\ OldIsAborted(js2[j], e2)

(* Giving out slots begins and ends no run. *)
LEMMA DrainMoves ==
  ASSUME NEW t, NEW js, NEW c, NEW e, NEW on, Books(t, js, c, e),
         \A j \in Jobs : OldIsAborted(js[j], e), NEW d, d = Drained(t, js, on)
  PROVE  RunsGoOn(js, d, e) /\ \A k \in Keys : Waits(t, d, k) => Waits(t, js, k)
<1>1. ASSUME NEW j \in Jobs
      PROVE  \/ d[j] = js[j]
             \/ /\ js[j].stage = "queued" /\ d[j].stage = "granted" /\ js[j].epoch = e
                /\ d[j].aborted = js[j].aborted /\ d[j].key = js[j].key /\ d[j].epoch = js[j].epoch
  <2>1. js[j] \in Job /\ JobFollows(js[j], t, j, c, e)
    BY DEF Books
  <2>2. CASE j \in Winners(t, js, on)
    <3>1. d[j] = [js[j] EXCEPT !.lane = LaneOf(js[j]), !.stage = "granted"]
      BY <2>2 DEF Drained
    <3>2. js[j].stage = "queued"
      BY <2>2, ListedFacts DEF Eligible
    <3> QED
      BY <2>1, <3>1, <3>2 DEF Job, JobFollows
  <2>3. CASE j \notin Winners(t, js, on)
    BY <2>3 DEF Drained
  <2> QED
    BY <2>2, <2>3
<1>2. RunsGoOn(js, d, e)
  BY <1>1 DEF RunsGoOn, OldIsAborted
<1>3. \A k \in Keys : t[k] # None => t[k] \in Jobs
  BY DEF Books
<1>4. \A k \in Keys : Waits(t, d, k) => Waits(t, js, k)
  BY <1>1, <1>3 DEF Waits
<1> QED
  BY <1>2, <1>4

(* Nor do the scheduler's micro-tasks, which leave no job waiting that did not wait before. *)
LEMMA QuietMoves ==
  ASSUME ScansInv, Drain \/ (\E v \in BOOLEAN : Enable(v)) \/ (\E j \in Jobs : Finally(j))
  PROVE  /\ RunsGoOn(job, job', epoch') /\ epoch' = epoch
         /\ \A k \in Keys : Waits(table', job', k) => Waits(table, job, k)
<1>1. Books(table, job, created, epoch) /\ \A j \in Jobs : OldIsAborted(job[j], epoch)
  BY DEF ScansInv, SchedulerInv, RunFollows
<1>2. CASE Drain
  BY <1>1, <1>2, DrainMoves DEF Drain
<1>3. ASSUME NEW v \in BOOLEAN, Enable(v)
      PROVE  /\ RunsGoOn(job, job', epoch') /\ epoch' = epoch
             /\ \A k \in Keys : Waits(table', job', k) => Waits(table, job, k)
  <2>1. table' = table /\ epoch' = epoch /\ job' = IF v THEN Drained(table, job, v) ELSE job
    BY <1>3 DEF Enable
  <2>2. CASE v
    BY <1>1, <2>1, <2>2, DrainMoves
  <2>3. CASE ~v
    BY <1>1, <2>1, <2>3 DEF RunsGoOn
  <2> QED
    BY <2>2, <2>3
<1>4. ASSUME NEW j \in Jobs, Finally(j)
      PROVE  /\ RunsGoOn(job, job', epoch') /\ epoch' = epoch
             /\ \A k \in Keys : Waits(table', job', k) => Waits(table, job, k)
  <2> DEFINE t == [k \in Keys |-> IF table[k] = j THEN None ELSE table[k]]
             js == [job EXCEPT ![j] = Over]
  <2>1. job[j].stage = "ended" /\ table' = t /\ job' = Drained(t, js, enabled) /\ epoch' = epoch
    BY <1>4 DEF Finally
  <2>2. /\ t \in [Keys -> Jobs \cup {None}] /\ \A k \in Keys : t[k] = IF table[k] = j THEN None ELSE table[k]
        /\ js \in [Jobs -> Job] /\ js[j] = Over /\ \A i \in Jobs \ {j} : js[i] = job[i]
    BY <1>1, OverIsJob DEF Books
  <2> HIDE DEF t, js
  <2>3. Books(t, js, created, epoch)
    BY <1>1, <2>1, <2>2, JobLeaves
  <2>4. \A i \in Jobs : OldIsAborted(js[i], epoch)
    BY <1>1, <2>2, OverIsJob DEF OldIsAborted
  <2>5. RunsGoOn(js, job', epoch) /\ \A k \in Keys : Waits(t, job', k) => Waits(t, js, k)
    BY <2>1, <2>3, <2>4, DrainMoves
  <2>6. RunsGoOn(job, job', epoch)
    BY <2>1, <2>2, <2>5, OverIsJob DEF RunsGoOn
  <2>7. \A k \in Keys : Waits(t, js, k) => Waits(table, job, k)
    BY <2>2 DEF Waits
  <2> QED
    BY <2>1, <2>5, <2>6, <2>7
<1> QED
  BY <1>2, <1>3, <1>4

(* A load touches the job of its own key only. *)
LEMMA EnqueueMoves ==
  ASSUME ScansInv, NEW k \in Keys, NEW p \in Priorities, Enqueue(k, p)
  PROVE  /\ RunsGoOn(job, job', epoch') /\ epoch' = epoch
         /\ \A l \in Keys \ {k} : Waits(table', job', l) => Waits(table, job, l)
<1>1. Books(table, job, created, epoch) /\ \A j \in Jobs : OldIsAborted(job[j], epoch)
  BY DEF ScansInv, SchedulerInv, RunFollows
<1>2. job \in [Jobs -> Job] /\ table \in [Keys -> Jobs \cup {None}]
  BY <1>1 DEF Books
<1>3. CASE table[k] # None
  <2> DEFINE j == table[k]
             r == [job[j] EXCEPT !.priority = IF p < @ THEN p ELSE @]
  <2>1. j \in Jobs /\ job' = [job EXCEPT ![j] = r] /\ table' = table /\ epoch' = epoch
    BY <1>2, <1>3 DEF Enqueue
  <2>2. r.stage = job[j].stage /\ r.aborted = job[j].aborted /\ r.key = job[j].key /\ r.epoch = job[j].epoch
    BY <1>2, <2>1 DEF Job
  <2>3. \A i \in Jobs : /\ job'[i].stage = job[i].stage /\ job'[i].aborted = job[i].aborted
                        /\ job'[i].key = job[i].key /\ job'[i].epoch = job[i].epoch
    BY <1>2, <2>1, <2>2
  <2> QED
    BY <1>1, <1>2, <2>1, <2>3 DEF RunsGoOn, OldIsAborted, Waits
<1>4. CASE table[k] = None
  <2> DEFINE j == created + 1
             r == [Unborn EXCEPT !.key = k, !.priority = p, !.stage = "queued", !.epoch = epoch]
  <2>1. /\ j \in Jobs /\ job' = [job EXCEPT ![j] = r] /\ table' = [table EXCEPT ![k] = j] /\ epoch' = epoch
    BY <1>1, <1>4, SchedulerAssumption DEF Enqueue, Books, Jobs
  <2>2. r.stage = "queued"
    BY DEF Unborn
  <2>3. job[j].stage = "none"
    BY <1>1, <2>1, SchedulerAssumption DEF Books, JobFollows
  <2>4. \A l \in Keys : table[l] # j
    BY <1>1, <2>1, <2>3, ListedJobs, SchedulerAssumption DEF Listed, LiveStages, Jobs
  <2>5. job'[j] = r /\ \A i \in Jobs \ {j} : job'[i] = job[i]
    BY <1>2, <2>1
  <2> HIDE DEF r, j
  <2>6. RunsGoOn(job, job', epoch')
    BY <1>1, <2>1, <2>2, <2>3, <2>5 DEF RunsGoOn, OldIsAborted
  <2>7. \A l \in Keys \ {k} : Waits(table', job', l) => Waits(table, job, l)
    BY <1>2, <2>1, <2>4, <2>5 DEF Waits
  <2> QED
    BY <2>1, <2>6, <2>7
<1> QED
  BY <1>3, <1>4

(* After a cancel no job of the key waits to run. *)
LEMMA CancelMoves ==
  ASSUME ScansInv, NEW k \in Keys, Cancel(k)
  PROVE  /\ RunsGoOn(job, job', epoch') /\ epoch' = epoch
         /\ \A l \in Keys \ {k} : Waits(table', job', l) => Waits(table, job, l)
         /\ ~Waits(table', job', k)
<1> DEFINE j == table[k]
<1>1. Books(table, job, created, epoch) /\ \A i \in Jobs : OldIsAborted(job[i], epoch)
  BY DEF ScansInv, SchedulerInv, RunFollows
<1>2. /\ job \in [Jobs -> Job] /\ table \in [Keys -> Jobs \cup {None}]
      /\ j \in Jobs /\ j # None /\ j \in Listed(table)
  BY <1>1, OnlyItsKey DEF Books, Cancel
<1>3. \A l \in Keys \ {k} : table[l] # j
  BY <1>1, <1>2 DEF Books, KeyFollows
<1>4. CASE job[j].lane = None
  <2>1. /\ table' = [table EXCEPT ![k] = None] /\ job' = [job EXCEPT ![j] = Over] /\ epoch' = epoch
    BY <1>4 DEF Cancel
  <2>2. job[j].stage = "queued"
    BY <1>1, <1>2, <1>4, ListedJobs
  <2>3. job'[j] = Over /\ \A i \in Jobs \ {j} : job'[i] = job[i]
    BY <1>2, <2>1
  <2> HIDE DEF j
  <2>4. RunsGoOn(job, job', epoch')
    BY <1>1, <2>1, <2>2, <2>3, OverIsJob DEF RunsGoOn, OldIsAborted
  <2>5. \A l \in Keys \ {k} : Waits(table', job', l) => Waits(table, job, l)
    BY <1>2, <1>3, <2>1, <2>3 DEF Waits
  <2>6. ~Waits(table', job', k)
    BY <1>2, <2>1 DEF Waits
  <2> QED
    BY <2>1, <2>4, <2>5, <2>6
<1>5. CASE job[j].lane # None
  <2> DEFINE r == [job[j] EXCEPT !.aborted = TRUE]
  <2>1. job' = [job EXCEPT ![j] = r] /\ table' = table /\ epoch' = epoch
    BY <1>5 DEF Cancel
  <2>2. r.stage = job[j].stage /\ r.aborted /\ r.key = job[j].key /\ r.epoch = job[j].epoch
    BY <1>2 DEF Job
  <2>3. job'[j] = r /\ \A i \in Jobs \ {j} : job'[i] = job[i]
    BY <1>2, <2>1
  <2> HIDE DEF r
  <2>4. RunsGoOn(job, job', epoch')
    BY <1>1, <2>1, <2>2, <2>3 DEF RunsGoOn, OldIsAborted
  <2>5. \A l \in Keys \ {k} : Waits(table', job', l) => Waits(table, job, l)
    BY <1>2, <1>3, <2>1, <2>3 DEF Waits
  <2>6. ~Waits(table', job', k)
    BY <2>1, <2>2, <2>3 DEF Waits
  <2> QED
    BY <2>1, <2>4, <2>5, <2>6
<1> QED
  BY <1>4, <1>5

-----------------------------------------------------------------------------
(* The stores' steps. *)

(* The running jobs of a session, and who their store's controller is. *)
LEMMA RunsOfSession ==
  ASSUME ScansInv, NEW j \in Jobs, scan[j].at # "off"
  PROVE  /\ job[j].stage = "running" /\ job[j].key \in Keys /\ scan[j].epoch \in 0..MaxEpoch
         /\ scan[j].epoch <= epoch
         /\ scan[j].epoch = epoch =>
               /\ current[job[j].key] = j /\ table[job[j].key] = j
               /\ store[job[j].key].loading /\ store[job[j].key].started
         /\ scan[j].epoch # epoch => \A k \in Keys : current[k] # j
<1> DEFINE k == job[j].key
<1>1. RunFollows(j) /\ Books(table, job, created, epoch) /\ scan[j] \in Scan
  BY DEF ScansInv, SchedulerInv, StoreTypes
<1>2. job[j].stage = "running" /\ k \in Keys /\ scan[j].epoch = job[j].epoch /\ scan[j].epoch \in 0..MaxEpoch
  BY <1>1 DEF RunFollows, Scan
<1>3. JobFollows(job[j], table, j, created, epoch)
  BY <1>1 DEF Books
<1>4. scan[j].epoch <= epoch
  BY <1>2, <1>3 DEF JobFollows
<1>5. ASSUME scan[j].epoch = epoch
      PROVE  current[k] = j /\ table[k] = j /\ store[k].loading /\ store[k].started
  <2>1. current[k] = j /\ table[k] = j
    BY <1>1, <1>2, <1>3, <1>5 DEF RunFollows, JobFollows, LiveStages
  <2>2. StoreFollows(k) /\ current[k] # None
    BY <1>2, <2>1, SchedulerAssumption DEF ScansInv, Jobs
  <2>3. store[k].loading
    BY <2>2 DEF StoreFollows
  <2>4. InitialState.loading = FALSE
    BY DEF InitialState
  <2>5. store[k].started
    BY <2>2, <2>3, <2>4 DEF StoreFollows
  <2> QED
    BY <2>1, <2>3, <2>5
<1>6. scan[j].epoch # epoch => \A l \in Keys : current[l] # j
  BY SchedulerAssumption DEF ScansInv, StoreFollows, Jobs
<1> QED
  BY <1>2, <1>4, <1>5, <1>6

(* The stores wait: runs may be aborted or go on to another request, loads *)
(* may be made, and the scheduler may take a step.                         *)
LEMMA StoresWait ==
  ASSUME ScansInv, SchedulerInv', RunsGoOn(job, job', epoch'), epoch' = epoch,
         store' = store, current' = current,
         scan' \in [Jobs -> Scan], retry' \in [Keys -> BOOLEAN],
         \A j \in Jobs : /\ scan'[j].at # "off" <=> scan[j].at # "off"
                         /\ scan'[j].epoch = scan[j].epoch,
         \A k \in Keys : store[k].phase = "aborted" /\ Waits(table', job', k) => retry'[k]
  PROVE  ScansInv'
<1>1. StoreTypes'
  BY DEF ScansInv, StoreTypes
<1>2. ASSUME NEW j \in Jobs PROVE RunFollows(j)'
  <2>1. RunFollows(j)
    BY DEF ScansInv
  <2>2. /\ job'[j].stage = "running" <=> job[j].stage = "running"
        /\ job[j].stage = "running" => job'[j].key = job[j].key /\ job'[j].epoch = job[j].epoch
        /\ OldIsAborted(job'[j], epoch')
    BY DEF RunsGoOn
  <2>3. /\ scan'[j].at # "off" <=> scan[j].at # "off"
        /\ scan'[j].epoch = scan[j].epoch
    OBVIOUS
  <2> QED
    BY <2>1, <2>2, <2>3 DEF RunFollows
<1>3. ASSUME NEW k \in Keys PROVE StoreFollows(k)'
  <2>1. StoreFollows(k) /\ current[k] \in Jobs \cup {None}
    BY DEF ScansInv, StoreTypes
  <2>2. current[k] # None => job'[current[k]].key = job[current[k]].key
    <3>1. ASSUME current[k] # None PROVE job'[current[k]].key = job[current[k]].key
      <4>1. current[k] \in Jobs /\ scan[current[k]].at # "off"
        BY <2>1, <3>1 DEF StoreFollows
      <4>2. job[current[k]].stage = "running"
        BY <4>1 DEF ScansInv, RunFollows
      <4>3. \A i \in Jobs : job[i].stage = "running" => job'[i].key = job[i].key
        BY DEF RunsGoOn
      <4> QED
        BY <4>1, <4>2, <4>3
    <3> QED
      BY <3>1
  <2> QED
    BY <2>1, <2>2 DEF StoreFollows
<1> QED
  BY <1>1, <1>2, <1>3 DEF ScansInv

(* The scheduler's own steps keep the invariant. *)
LEMMA QuietKeepsInv ==
  ASSUME ScansInv, UNCHANGED storeVars,
         Drain \/ (\E v \in BOOLEAN : Enable(v)) \/ (\E j \in Jobs : Finally(j))
  PROVE  ScansInv'
<1>1. SchedulerInv'
  BY DrainKeepsInv, EnableKeepsInv, FinallyKeepsInv DEF ScansInv
<1>2. /\ RunsGoOn(job, job', epoch') /\ epoch' = epoch
      /\ \A k \in Keys : Waits(table', job', k) => Waits(table, job, k)
  BY QuietMoves
<1>3. store' = store /\ current' = current /\ scan' = scan /\ retry' = retry
  BY DEF storeVars
<1>4. \A k \in Keys : store[k].phase = "aborted" /\ Waits(table', job', k) => retry[k]
  BY <1>2 DEF ScansInv, StoreFollows
<1> QED
  BY <1>1, <1>2, <1>3, <1>4, StoresWait DEF ScansInv, StoreTypes

(* A load of a paused store is forced, so its job may run. *)
LEMMA LoadKeepsInv ==
  ASSUME ScansInv, NEW k \in Keys, NEW force \in BOOLEAN, NEW p \in Priorities, Load(k, force, p)
  PROVE  ScansInv'
<1>1. SchedulerInv'
  BY EnqueueKeepsInv DEF ScansInv, Load
<1>2. /\ RunsGoOn(job, job', epoch') /\ epoch' = epoch
      /\ \A l \in Keys \ {k} : Waits(table', job', l) => Waits(table, job, l)
  BY EnqueueMoves DEF Load
<1>3. store' = store /\ current' = current /\ scan' = scan /\ retry' = [retry EXCEPT ![k] = @ \/ force]
  BY DEF Load
<1>4. retry \in [Keys -> BOOLEAN] /\ scan \in [Jobs -> Scan]
  BY DEF ScansInv, StoreTypes
<1>5. retry' \in [Keys -> BOOLEAN]
  BY <1>3, <1>4
<1>6. retry'[k] = (retry[k] \/ force) /\ \A l \in Keys \ {k} : retry'[l] = retry[l]
  BY <1>3, <1>4
<1>7. store[k].phase = "aborted" => force
  BY DEF Load
<1>8. \A l \in Keys : store[l].phase = "aborted" /\ Waits(table', job', l) => retry'[l]
  BY <1>2, <1>6, <1>7 DEF ScansInv, StoreFollows
<1> QED
  BY <1>1, <1>2, <1>3, <1>4, <1>5, <1>8, StoresWait

(* An abort takes back earlier forced loads together with their job. *)
LEMMA AbortKeepsInv ==
  ASSUME ScansInv, NEW k \in Keys, Abort(k)
  PROVE  ScansInv'
<1>1. SchedulerInv'
  <2>1. CASE table[k] # None
    BY <2>1, CancelKeepsInv DEF ScansInv, Abort
  <2>2. CASE table[k] = None
    BY <2>2 DEF ScansInv, Abort, schedulerVars, SchedulerInv
  <2> QED
    BY <2>1, <2>2
<1>2. /\ RunsGoOn(job, job', epoch') /\ epoch' = epoch
      /\ \A l \in Keys \ {k} : Waits(table', job', l) => Waits(table, job, l)
      /\ ~Waits(table', job', k)
  <2>1. CASE table[k] # None
    BY <2>1, CancelMoves DEF Abort
  <2>2. CASE table[k] = None
    BY <2>2 DEF ScansInv, RunFollows, Abort, schedulerVars, RunsGoOn, Waits
  <2> QED
    BY <2>1, <2>2
<1>3. store' = store /\ current' = current /\ retry' = [retry EXCEPT ![k] = FALSE]
  BY DEF Abort
<1>4. retry \in [Keys -> BOOLEAN] /\ scan \in [Jobs -> Scan]
  BY DEF ScansInv, StoreTypes
<1>5. retry' \in [Keys -> BOOLEAN] /\ \A l \in Keys \ {k} : retry'[l] = retry[l]
  BY <1>3, <1>4
<1>6. /\ scan' \in [Jobs -> Scan]
      /\ \A j \in Jobs : scan'[j].at = scan[j].at /\ scan'[j].epoch = scan[j].epoch
  <2>1. scan' = [j \in Jobs |->
                  IF j \in {current[k], table[k]} /\ scan[j].at # "off"
                  THEN [scan[j] EXCEPT !.aborted = TRUE] ELSE scan[j]]
    BY DEF Abort
  <2>2. \A j \in Jobs : /\ scan'[j] \in Scan
                        /\ scan'[j].at = scan[j].at /\ scan'[j].epoch = scan[j].epoch
    BY <1>4, <2>1 DEF Scan
  <2> QED
    BY <2>1, <2>2
<1>7. \A l \in Keys : store[l].phase = "aborted" /\ Waits(table', job', l) => retry'[l]
  BY <1>2, <1>5 DEF ScansInv, StoreFollows
<1> QED
  BY <1>1, <1>2, <1>3, <1>5, <1>6, <1>7, StoresWait

(* The steps of a run that leave its store alone. *)
LEMMA RunGoesOn ==
  ASSUME ScansInv, NEW j \in Jobs, StreamRefused(j) \/ StreamOpens(j) \/ Timeout(j)
  PROVE  ScansInv'
<1>1. UNCHANGED <<schedulerVars, store, current, retry>> /\ scan[j].at # "off"
  BY DEF StreamRefused, StreamOpens, Timeout
<1>2. SchedulerInv'
  BY <1>1 DEF ScansInv, schedulerVars, SchedulerInv
<1>3. RunsGoOn(job, job', epoch') /\ epoch' = epoch /\ table' = table /\ job' = job
  BY <1>1 DEF ScansInv, RunFollows, schedulerVars, RunsGoOn
<1>4. retry \in [Keys -> BOOLEAN] /\ scan \in [Jobs -> Scan]
  BY DEF ScansInv, StoreTypes
<1>5. PICK r \in Scan : scan' = [scan EXCEPT ![j] = r] /\ r.at # "off" /\ r.epoch = scan[j].epoch
  <2>1. CASE StreamRefused(j)
    <3> DEFINE r == [scan[j] EXCEPT !.at = "json"]
    <3>1. scan' = [scan EXCEPT ![j] = r]
      BY <2>1 DEF StreamRefused
    <3>2. r \in Scan /\ r.at = "json" /\ r.epoch = scan[j].epoch
      BY <1>4 DEF Scan
    <3> QED
      BY <3>1, <3>2
  <2>2. CASE StreamOpens(j)
    <3> DEFINE r == [scan[j] EXCEPT !.at = "event"]
    <3>1. scan' = [scan EXCEPT ![j] = r]
      BY <2>2 DEF StreamOpens
    <3>2. r \in Scan /\ r.at = "event" /\ r.epoch = scan[j].epoch
      BY <1>4 DEF Scan
    <3> QED
      BY <3>1, <3>2
  <2>3. CASE Timeout(j)
    BY <1>4, <2>3 DEF Timeout, Scan
  <2> QED
    BY <2>1, <2>2, <2>3
<1>6. \A k \in Keys : store[k].phase = "aborted" /\ Waits(table', job', k) => retry'[k]
  BY <1>1, <1>3 DEF ScansInv, StoreFollows
<1>7. /\ scan' \in [Jobs -> Scan]
      /\ \A i \in Jobs : /\ scan'[i].at # "off" <=> scan[i].at # "off"
                         /\ scan'[i].epoch = scan[i].epoch
  BY <1>1, <1>4, <1>5
<1> QED
  BY <1>1, <1>2, <1>3, <1>4, <1>6, <1>7, StoresWait

(* A run begins: its job is of this session, for the others were aborted,  *)
(* and no other run of its key is under way.                               *)
LEMMA BeginScanKeepsInv ==
  ASSUME ScansInv, NEW j \in Jobs, BeginScan(j)
  PROVE  ScansInv'
<1> DEFINE k == job[j].key
           r == [job[j] EXCEPT !.stage = IF job[j].aborted THEN "ended" ELSE "running"]
<1>1. SchedulerInv'
  BY BeginKeepsInv DEF ScansInv, BeginScan
<1>2. /\ Books(table, job, created, epoch) /\ StoreTypes /\ RunFollows(j)
      /\ job \in [Jobs -> Job] /\ JobFollows(job[j], table, j, created, epoch)
  BY DEF ScansInv, SchedulerInv, Books
<1>3. /\ job[j].stage = "granted" /\ job' = [job EXCEPT ![j] = r]
      /\ table' = table /\ epoch' = epoch /\ retry' = retry
  BY <1>2 DEF BeginScan, Begin
<1>4. /\ r.stage = IF job[j].aborted THEN "ended" ELSE "running"
      /\ r.key = job[j].key /\ r.epoch = job[j].epoch /\ r.aborted = job[j].aborted
  BY <1>2 DEF Job
<1>5. job'[j] = r /\ \A i \in Jobs \ {j} : job'[i] = job[i]
  BY <1>2, <1>3
<1> HIDE DEF r
<1>6. \A l \in Keys : ~Waits(table', job', l) \/ Waits(table, job, l)
  <2>1. table \in [Keys -> Jobs \cup {None}]
    BY <1>2 DEF StoreTypes, Books
  <2> QED
    BY <1>3, <1>4, <1>5, <2>1 DEF Waits
<1>7. \A i \in Jobs : OldIsAborted(job[i], epoch)
  BY DEF ScansInv, RunFollows
<1>8. CASE job[j].aborted
  <2>1. store' = store /\ current' = current /\ scan' = scan
    BY <1>8 DEF BeginScan
  <2>2. RunsGoOn(job, job', epoch')
    BY <1>3, <1>4, <1>5, <1>7, <1>8 DEF RunsGoOn, OldIsAborted
  <2>3. \A l \in Keys : store[l].phase = "aborted" /\ Waits(table', job', l) => retry'[l]
    BY <1>3, <1>6 DEF ScansInv, StoreFollows
  <2> QED
    BY <1>1, <1>2, <1>3, <2>1, <2>2, <2>3, StoresWait DEF StoreTypes
<1>9. CASE ~job[j].aborted
  <2> DEFINE n == [NoScan EXCEPT !.epoch = epoch, !.at = IF k \in StreamKeys THEN "response" ELSE "json"]
             st == [store[k] EXCEPT !.loading = TRUE, !.error = FALSE, !.started = TRUE, !.phase = "starting"]
  <2>1. job[j].epoch = epoch /\ k \in Keys /\ table[k] = j /\ epoch \in 0..MaxEpoch
    BY <1>2, <1>3, <1>7, <1>9 DEF OldIsAborted, JobFollows, LiveStages, Books
  <2>2. scan' = [scan EXCEPT ![j] = n] /\ current' = [current EXCEPT ![k] = j]
        /\ store' = [store EXCEPT ![k] = st]
    BY <1>9 DEF BeginScan
  <2>3. n \in Scan /\ n.at # "off" /\ n.epoch = epoch
    BY <2>1 DEF NoScan, Scan
  <2>4. /\ st \in ScanState /\ st.loading /\ st.started /\ st.phase = "starting" /\ st.data = store[k].data
    <3>1. store[k] \in ScanState
      BY <1>2, <2>1 DEF StoreTypes
    <3> QED
      BY <3>1 DEF ScanState, Phases
  <2> HIDE DEF n, st
  <2>5. StoreTypes'
    BY <1>2, <1>3, <2>2, <2>3, <2>4 DEF StoreTypes
  <2>6. /\ scan'[j] = n /\ \A i \in Jobs \ {j} : scan'[i] = scan[i]
        /\ current'[k] = j /\ \A l \in Keys \ {k} : current'[l] = current[l]
        /\ store'[k] = st /\ \A l \in Keys \ {k} : store'[l] = store[l]
    BY <1>2, <2>1, <2>2 DEF StoreTypes
  <2>7. ASSUME NEW i \in Jobs PROVE RunFollows(i)'
    <3>1. CASE i = j
      BY <1>3, <1>4, <1>5, <1>9, <2>1, <2>3, <2>6, <3>1 DEF RunFollows, OldIsAborted
    <3>2. CASE i # j
      <4>1. RunFollows(i) /\ job'[i] = job[i] /\ scan'[i] = scan[i] /\ epoch' = epoch
        BY <1>3, <1>5, <2>6, <3>2 DEF ScansInv
      <4>2. scan[i].at # "off" /\ scan[i].epoch = epoch => job[i].key # k
        BY <2>1, <3>2, RunsOfSession
      <4>3. scan[i].at # "off" /\ scan[i].epoch = epoch => current'[job[i].key] = i
        BY <2>6, <4>1, <4>2 DEF RunFollows
      <4> QED
        BY <4>1, <4>3 DEF RunFollows
    <3> QED
      BY <3>1, <3>2
  <2>8. ASSUME NEW l \in Keys PROVE StoreFollows(l)'
    <3>1. StoreFollows(l) /\ current[l] \in Jobs \cup {None}
      BY <1>2 DEF ScansInv, StoreTypes
    <3>2. CASE l = k
      BY <1>3, <1>4, <1>5, <2>1, <2>3, <2>4, <2>6, <3>1, <3>2, SchedulerAssumption DEF StoreFollows, Jobs
    <3>3. CASE l # k
      <4>1. current[l] # j
        BY <3>1, <3>3, SchedulerAssumption DEF StoreFollows, Jobs
      <4>2. /\ current'[l] = current[l] /\ store'[l] = store[l]
            /\ current[l] # None => scan'[current[l]] = scan[current[l]] /\ job'[current[l]] = job[current[l]]
        BY <1>5, <2>6, <3>1, <3>3, <4>1
      <4> QED
        BY <1>3, <1>6, <3>1, <4>2 DEF StoreFollows
    <3> QED
      BY <3>2, <3>3
  <2> QED
    BY <1>1, <2>5, <2>7, <2>8 DEF ScansInv
<1> QED
  BY <1>8, <1>9

(* The finally block of a run: n is what becomes of its store. *)
LEMMA RunLeaves ==
  ASSUME ScansInv, NEW j \in Jobs, scan[j].at # "off", RunEnds(j), retry' = retry,
         scan' = [scan EXCEPT ![j] = NoScan],
         current' = [current EXCEPT ![job[j].key] = IF @ = j THEN None ELSE @],
         NEW n, store' = [store EXCEPT ![job[j].key] = n],
         scan[j].epoch # epoch => n = store[job[j].key],
         scan[j].epoch = epoch => n \in ScanState /\ ~n.loading /\ n.started /\ n.data \in {None, epoch}
  PROVE  ScansInv'
<1> DEFINE k == job[j].key
           r == [job[j] EXCEPT !.stage = "ended"]
<1>1. SchedulerInv'
  BY RunEndsKeepsInv DEF ScansInv
<1>2. Books(table, job, created, epoch) /\ StoreTypes /\ job \in [Jobs -> Job] /\ StoreFollows(k) /\ k \in Keys
  BY RunsOfSession DEF ScansInv, SchedulerInv, Books
<1>3. job' = [job EXCEPT ![j] = r] /\ table' = table /\ epoch' = epoch /\ job[j].stage = "running"
  BY DEF RunEnds
<1>4. r.stage = "ended" /\ r.key = k
  BY <1>2 DEF Job
<1>5. job'[j] = r /\ \A i \in Jobs \ {j} : job'[i] = job[i]
  BY <1>2, <1>3
<1> HIDE DEF r
<1>6. /\ scan'[j] = NoScan /\ \A i \in Jobs \ {j} : scan'[i] = scan[i]
      /\ current'[k] = (IF current[k] = j THEN None ELSE current[k])
      /\ \A l \in Keys \ {k} : current'[l] = current[l]
      /\ store'[k] = n /\ \A l \in Keys \ {k} : store'[l] = store[l]
  BY <1>2 DEF StoreTypes
<1>7. NoScan \in Scan /\ NoScan.at = "off"
  BY SchedulerAssumption DEF NoScan, Scan
<1>8. n \in ScanState
  BY <1>2 DEF StoreTypes
<1>9. StoreTypes'
  BY <1>2, <1>7, <1>8 DEF StoreTypes
<1>10. /\ scan[j].epoch = epoch => current[k] = j
       /\ scan[j].epoch # epoch => \A l \in Keys : current[l] # j
       /\ \A l \in Keys \ {k} : current[l] # j
  BY RunsOfSession, SchedulerAssumption DEF ScansInv, StoreFollows, Jobs
<1>11. \A l \in Keys : ~Waits(table', job', l) \/ Waits(table, job, l)
  <2>1. table \in [Keys -> Jobs \cup {None}]
    BY <1>2 DEF Books
  <2> QED
    BY <1>3, <1>4, <1>5, <2>1 DEF Waits
<1>12. ASSUME NEW i \in Jobs PROVE RunFollows(i)'
  <2>1. CASE i = j
    BY <1>4, <1>5, <1>6, <1>7, <2>1 DEF RunFollows, OldIsAborted
  <2>2. CASE i # j
    <3>1. RunFollows(i) /\ job'[i] = job[i] /\ scan'[i] = scan[i] /\ epoch' = epoch
      BY <1>3, <1>5, <1>6, <2>2 DEF ScansInv
    <3>2. scan[i].at # "off" /\ scan[i].epoch = epoch => current'[job[i].key] = i
      BY <1>6, <2>2, <3>1 DEF RunFollows
    <3> QED
      BY <3>1, <3>2 DEF RunFollows
  <2> QED
    BY <2>1, <2>2
<1>13. ASSUME NEW l \in Keys PROVE StoreFollows(l)'
  <2>1. StoreFollows(l) /\ current[l] \in Jobs \cup {None}
    BY <1>2 DEF ScansInv, StoreTypes
  <2>2. CASE l = k /\ scan[j].epoch = epoch
    <3>1. current'[k] = None /\ store'[k] = n
      BY <1>6, <1>10, <2>2
    <3>2. ~Waits(table', job', k)
      BY <1>3, <1>4, <1>5, <2>2, RunsOfSession DEF Waits
    <3> QED
      BY <1>3, <2>2, <3>1, <3>2 DEF StoreFollows
  <2>3. CASE l # k \/ scan[j].epoch # epoch
    <3>1. current'[l] = current[l] /\ store'[l] = store[l] /\ current[l] # j
      BY <1>6, <1>10, <2>3
    <3>2. current[l] # None => scan'[current[l]] = scan[current[l]] /\ job'[current[l]] = job[current[l]]
      BY <1>5, <1>6, <2>1, <3>1
    <3> QED
      BY <1>3, <1>11, <2>1, <3>1, <3>2 DEF StoreFollows
  <2> QED
    BY <2>2, <2>3
<1> QED
  BY <1>1, <1>9, <1>12, <1>13 DEF ScansInv
(* What the blocks of runScan leave in the store of a run of this session. *)
LEMMA LeavesWell ==
  ASSUME ScansInv, NEW j \in Jobs, scan[j].at # "off", NEW s, Leave(j, s),
         scan[j].epoch = epoch => s \in ScanState /\ s.started /\ s.data \in {None, epoch}
  PROVE  ScansInv'
<1> DEFINE k == job[j].key
           m == [s EXCEPT !.loading = FALSE, !.fresh = TRUE]
           n == IF scan[j].epoch = epoch THEN m ELSE store[k]
<1>1. /\ RunEnds(j) /\ retry' = retry /\ scan' = [scan EXCEPT ![j] = NoScan]
      /\ current' = [current EXCEPT ![k] = IF @ = j THEN None ELSE @]
      /\ store' = [store EXCEPT ![k] = n]
  BY DEF Leave, Patched
<1>2. scan[j].epoch = epoch => m \in ScanState /\ ~m.loading /\ m.started /\ m.data = s.data
  BY DEF ScanState
<1> HIDE DEF m
<1>3. /\ scan[j].epoch # epoch => n = store[k]
      /\ scan[j].epoch = epoch => n \in ScanState /\ ~n.loading /\ n.started /\ n.data \in {None, epoch}
  BY <1>2
<1> HIDE DEF n
<1> QED
  BY <1>1, <1>3, RunLeaves

(* The store of a run of this session, as each block finds it. *)
LEMMA StoreOfRun ==
  ASSUME ScansInv, NEW j \in Jobs, scan[j].at # "off"
  PROVE  /\ job[j].key \in Keys /\ store[job[j].key] \in ScanState
         /\ store[job[j].key].data \in {None, epoch} /\ epoch \in 0..MaxEpoch
         /\ scan[j].epoch = epoch => /\ store[job[j].key].started /\ store[job[j].key].loading
                                     /\ store[job[j].key].phase # "aborted"
                                     /\ current[job[j].key] = j
<1>1. job[j].key \in Keys
  BY RunsOfSession
<1>2. StoreFollows(job[j].key) /\ StoreTypes /\ epoch \in 0..MaxEpoch
  BY <1>1 DEF ScansInv, SchedulerInv, Books
<1> QED
  BY <1>1, <1>2, RunsOfSession, SchedulerAssumption DEF StoreFollows, StoreTypes, Jobs

(* A run ends: with an answer, with its stream, in an error or aborted. *)
LEMMA EndingKeepsInv ==
  ASSUME ScansInv, NEW j \in Jobs,
         \/ JsonReply(j) \/ StreamCloses(j) \/ Fails(j) \/ AbortLands(j)
         \/ StreamEvent(j) /\ (scan[j].aborted \/ scan[j].epoch # epoch)
  PROVE  ScansInv'
<1> DEFINE u == store[job[j].key]
<1>1. scan[j].at # "off"
  BY DEF JsonReply, StreamCloses, Fails, AbortLands, StreamEvent
<1>2. u \in ScanState /\ u.data \in {None, epoch} /\ epoch \in 0..MaxEpoch /\ (scan[j].epoch = epoch => u.started)
  BY <1>1, StoreOfRun
<1>3. PICK s : /\ Leave(j, s)
               /\ scan[j].epoch = epoch => s \in ScanState /\ s.started /\ s.data \in {None, epoch}
  <2>1. CASE JsonReply(j)
    <3>1. Leave(j, WithData(j, u))
      BY <2>1 DEF JsonReply
    <3>2. scan[j].epoch = epoch => /\ WithData(j, u) \in ScanState /\ WithData(j, u).started
                                   /\ WithData(j, u).data \in {None, epoch}
      BY <1>2 DEF WithData, ScanState, Phases
    <3> QED
      BY <3>1, <3>2
  <2>2. CASE StreamCloses(j) \/ (StreamEvent(j) /\ (scan[j].aborted \/ scan[j].epoch # epoch))
    <3>1. Leave(j, u)
      BY <2>2 DEF StreamCloses, StreamEvent
    <3> QED
      BY <1>2, <3>1
  <2>3. CASE Fails(j)
    <3> DEFINE s == [u EXCEPT !.error = TRUE]
    <3>1. Leave(j, s)
      BY <2>3 DEF Fails
    <3>2. s \in ScanState /\ s.started = u.started /\ s.data = u.data
      BY <1>2 DEF ScanState
    <3> QED
      BY <1>2, <3>1, <3>2
  <2>4. CASE AbortLands(j)
    <3> DEFINE s == IF scan[j].timedOut THEN [u EXCEPT !.error = TRUE]
                    ELSE [u EXCEPT !.error = FALSE, !.phase = "aborted"]
    <3>1. Leave(j, s)
      BY <2>4 DEF AbortLands
    <3>2. s \in ScanState /\ s.started = u.started /\ s.data = u.data
      BY <1>2 DEF ScanState, Phases
    <3> QED
      BY <1>2, <3>1, <3>2
  <2> QED
    BY <2>1, <2>2, <2>3, <2>4
<1> QED
  BY <1>1, <1>3, LeavesWell

(* A store changes on its own, its runs and jobs as they were. *)
LEMMA StoreChanges ==
  ASSUME ScansInv, NEW k \in Keys, NEW n, store' = [store EXCEPT ![k] = n],
         UNCHANGED <<schedulerVars, current, scan, retry>>,
         n \in ScanState, n.loading = store[k].loading, n.data \in {None, epoch},
         n.started, n.phase = "aborted" => store[k].phase = "aborted"
  PROVE  ScansInv'
<1>1. /\ table' = table /\ job' = job /\ epoch' = epoch
      /\ current' = current /\ scan' = scan /\ retry' = retry
  BY DEF schedulerVars
<1>2. SchedulerInv' /\ \A j \in Jobs : RunFollows(j)'
  BY DEF ScansInv, schedulerVars, SchedulerInv, RunFollows
<1>3. StoreTypes'
  BY <1>1 DEF ScansInv, StoreTypes
<1>4. store'[k] = n /\ \A l \in Keys \ {k} : store'[l] = store[l]
  BY DEF ScansInv, StoreTypes
<1>5. ASSUME NEW l \in Keys PROVE StoreFollows(l)'
  <2>1. StoreFollows(l)
    BY DEF ScansInv
  <2>2. CASE l = k
    BY <1>1, <1>4, <2>1, <2>2 DEF StoreFollows
  <2>3. CASE l # k
    BY <1>1, <1>4, <2>1, <2>3 DEF StoreFollows
  <2> QED
    BY <2>2, <2>3
<1> QED
  BY <1>2, <1>3, <1>5 DEF ScansInv

(* An event of the stream reaches the store. *)
LEMMA EventKeepsInv ==
  ASSUME ScansInv, NEW j \in Jobs, StreamEvent(j), ~scan[j].aborted, scan[j].epoch = epoch
  PROVE  ScansInv'
<1> DEFINE k == job[j].key
           u == store[k]
<1>1. scan[j].at # "off"
  BY DEF StreamEvent
<1>2. /\ k \in Keys /\ u \in ScanState /\ u.data \in {None, epoch} /\ epoch \in 0..MaxEpoch
      /\ u.started /\ u.phase # "aborted"
  BY <1>1, StoreOfRun
<1>3. PICK n \in {[u EXCEPT !.data = scan[j].epoch, !.phase = "scanning"], WithData(j, u),
                  [u EXCEPT !.error = TRUE]} :
         store' = [store EXCEPT ![k] = n]
  BY DEF StreamEvent, Patched
<1>4. UNCHANGED <<schedulerVars, current, scan, retry>>
  BY DEF StreamEvent
<1>5. /\ n \in ScanState /\ n.loading = u.loading /\ n.data \in {None, epoch}
      /\ n.started /\ n.phase # "aborted"
  BY <1>2, <1>3 DEF WithData, ScanState, Phases
<1> QED
  BY <1>2, <1>3, <1>4, <1>5, StoreChanges

(* The data grows old: only a store that some run has touched has any. *)
LEMMA ExpireKeepsInv ==
  ASSUME ScansInv, NEW k \in Keys, Expire(k)
  PROVE  ScansInv'
<1> DEFINE n == [store[k] EXCEPT !.fresh = FALSE]
<1>1. store' = [store EXCEPT ![k] = n] /\ UNCHANGED <<schedulerVars, current, scan, retry>> /\ store[k].fresh
  BY DEF Expire
<1>2. store[k] \in ScanState /\ StoreFollows(k)
  BY DEF ScansInv, StoreTypes
<1>3. store[k].started
  <2>1. ~InitialState.fresh
    BY DEF InitialState
  <2> QED
    BY <1>1, <1>2, <2>1 DEF StoreFollows
<1>4. /\ n \in ScanState /\ n.loading = store[k].loading /\ n.data = store[k].data
      /\ n.started = store[k].started /\ n.phase = store[k].phase
  BY <1>2 DEF ScanState
<1>5. n.data \in {None, epoch}
  BY <1>2, <1>4 DEF StoreFollows
<1> HIDE DEF n
<1> QED
  BY <1>1, <1>3, <1>4, <1>5, StoreChanges

(* A new session: every job that may still run has been aborted, the older *)
(* ones when their own session ended.                                      *)
LEMMA BumpKeepsInv ==
  ASSUME ScansInv, Bump
  PROVE  ScansInv'
<1>1. SchedulerInv'
  BY ResetKeepsInv DEF ScansInv, Bump
<1>2. Books(table, job, created, epoch) /\ StoreTypes /\ job \in [Jobs -> Job] /\ epoch \in Nat
  BY SchedulerAssumption DEF ScansInv, SchedulerInv, Books
<1>3. /\ epoch' = epoch + 1
      /\ job' = [j \in Jobs |->
                  IF j \in Listed(table)
                  THEN IF job[j].lane = None THEN Over
                       ELSE [job[j] EXCEPT !.aborted = TRUE, !.settled = TRUE]
                  ELSE job[j]]
      /\ store' = [k \in Keys |-> InitialState]
      /\ current' = [k \in Keys |-> None]
      /\ scan' = [j \in Jobs |-> IF scan[j].at = "off" THEN scan[j]
                                 ELSE [scan[j] EXCEPT !.aborted = TRUE]]
      /\ retry' = [k \in Keys |-> FALSE]
  BY DEF Bump, Reset
<1>4. InitialState \in ScanState /\ InitialState.loading = FALSE /\ InitialState.phase = "" /\ InitialState.data = None
  BY DEF InitialState, ScanState, Phases
<1>5. ASSUME NEW j \in Jobs
      PROVE scan'[j] \in Scan /\ scan'[j].at = scan[j].at /\ scan'[j].epoch = scan[j].epoch
  BY <1>2, <1>3 DEF StoreTypes, Scan
<1>6. StoreTypes'
  <2>1. scan' \in [Jobs -> Scan]
    BY <1>3, <1>5
  <2>2. /\ store' \in [Keys -> ScanState] /\ current' \in [Keys -> Jobs \cup {None}]
        /\ retry' \in [Keys -> BOOLEAN]
    BY <1>3, <1>4
  <2> QED
    BY <2>1, <2>2 DEF StoreTypes
<1>7. ASSUME NEW j \in Jobs PROVE RunFollows(j)'
  <2>1. /\ RunFollows(j) /\ JobFollows(job[j], table, j, created, epoch) /\ job[j] \in Job
        /\ job[j].epoch \in Nat
    BY <1>2 DEF ScansInv, Books, Job
  <2>2. /\ job'[j].stage = "running" <=> job[j].stage = "running"
        /\ job[j].stage = "running" => job'[j].key = job[j].key /\ job'[j].epoch = job[j].epoch
        /\ job'[j].stage \in {"granted", "running"} => job'[j].aborted
    <3>1. CASE j \in Listed(table) /\ job[j].lane = None
      <4>1. job'[j] = Over
        BY <1>3, <3>1
      <4>2. job[j].stage = "queued"
        BY <1>2, <3>1, ListedJobs
      <4> QED
        BY <4>1, <4>2, OverIsJob
    <3>2. CASE j \in Listed(table) /\ job[j].lane # None
      <4>1. job'[j] = [job[j] EXCEPT !.aborted = TRUE, !.settled = TRUE]
        BY <1>3, <3>2
      <4> QED
        BY <2>1, <4>1 DEF Job
    <3>3. CASE j \notin Listed(table)
      <4>1. job'[j] = job[j]
        BY <1>3, <3>3
      <4>2. job[j].stage \in {"granted", "running"} => job[j].epoch # epoch
        BY <2>1, <3>3, SchedulerAssumption DEF JobFollows, LiveStages, Listed, Jobs
      <4> QED
        BY <2>1, <4>1, <4>2 DEF RunFollows, OldIsAborted
    <3> QED
      BY <3>1, <3>2, <3>3
  <2>3. scan'[j].at = scan[j].at /\ scan'[j].epoch = scan[j].epoch
    BY <1>5
  <2>4. scan[j].at # "off" => scan[j].epoch # epoch'
    <3>1. scan[j].at # "off" => scan[j].epoch <= epoch /\ scan[j].epoch \in 0..MaxEpoch
      BY RunsOfSession
    <3>2. epoch \in Nat /\ epoch' = epoch + 1 /\ MaxEpoch \in Nat
      BY <1>2, <1>3, SchedulerAssumption
    <3> QED
      BY <3>1, <3>2
  <2> QED
    BY <2>1, <2>2, <2>3, <2>4 DEF RunFollows, OldIsAborted
<1>8. ASSUME NEW k \in Keys PROVE StoreFollows(k)'
  BY <1>3, <1>4 DEF StoreFollows
<1> QED
  BY <1>1, <1>6, <1>7, <1>8 DEF ScansInv

-----------------------------------------------------------------------------

(* The invariant holds at the start, ... *)
LEMMA ScansStart ==
  Init => ScansInv
<1> SUFFICES ASSUME Init PROVE ScansInv
  OBVIOUS
<1>1. SchedulerInv
  BY SchedulerStarts DEF Init
<1>2. /\ store = [k \in Keys |-> InitialState] /\ current = [k \in Keys |-> None]
      /\ scan = [j \in Jobs |-> NoScan] /\ retry = [k \in Keys |-> FALSE]
      /\ job = [j \in Jobs |-> Unborn] /\ epoch = 0
  BY DEF Init, SchedulerInit
<1>3. InitialState \in ScanState /\ InitialState.loading = FALSE /\ InitialState.phase = "" /\ InitialState.data = None
  BY DEF InitialState, ScanState, Phases
<1>4. NoScan \in Scan /\ NoScan.at = "off" /\ Unborn.stage = "none"
  BY SchedulerAssumption DEF NoScan, Scan, Unborn
<1>5. StoreTypes
  BY <1>2, <1>3, <1>4 DEF StoreTypes
<1>6. \A j \in Jobs : RunFollows(j)
  BY <1>2, <1>4 DEF RunFollows, OldIsAborted
<1>7. \A k \in Keys : StoreFollows(k)
  BY <1>2, <1>3 DEF StoreFollows
<1> QED
  BY <1>1, <1>5, <1>6, <1>7 DEF ScansInv

(* ... is kept by every step ... *)
LEMMA ScansStep ==
  ScansInv /\ [Next]_vars => ScansInv'
<1> SUFFICES ASSUME ScansInv, [Next]_vars PROVE ScansInv'
  OBVIOUS
<1>1. CASE \E k \in Keys, force \in BOOLEAN, p \in Priorities : Load(k, force, p)
  BY <1>1, LoadKeepsInv
<1>2. CASE \E k \in Keys : Abort(k) \/ Expire(k)
  BY <1>2, AbortKeepsInv, ExpireKeepsInv
<1>3. CASE \E v \in BOOLEAN : Quietly(Enable(v))
  BY <1>3, QuietKeepsInv DEF Quietly
<1>4. CASE Bump
  BY <1>4, BumpKeepsInv
<1>5. CASE Quietly(Drain)
  BY <1>5, QuietKeepsInv DEF Quietly
<1>6. ASSUME NEW j \in Jobs,
             BeginScan(j) \/ ScanStep(j) \/ Timeout(j) \/ AbortLands(j) \/ Quietly(Finally(j))
      PROVE  ScansInv'
  <2>1. CASE BeginScan(j)
    BY <2>1, BeginScanKeepsInv
  <2>2. CASE StreamRefused(j) \/ StreamOpens(j) \/ Timeout(j)
    BY <2>2, RunGoesOn
  <2>3. CASE JsonReply(j) \/ StreamCloses(j) \/ Fails(j) \/ AbortLands(j)
    BY <2>3, EndingKeepsInv
  <2>4. CASE StreamEvent(j)
    BY <2>4, EndingKeepsInv, EventKeepsInv
  <2>5. CASE Quietly(Finally(j))
    BY <2>5, QuietKeepsInv DEF Quietly
  <2> QED
    BY <1>6, <2>1, <2>2, <2>3, <2>4, <2>5 DEF ScanStep
<1>7. CASE UNCHANGED vars
  BY <1>7 DEF vars, storeVars, schedulerVars, ScansInv, SchedulerInv, StoreTypes, RunFollows, StoreFollows, Waits
<1> QED
  BY <1>1, <1>2, <1>3, <1>4, <1>5, <1>6, <1>7 DEF Next

(* ... and so holds always. *)
LEMMA ScansAlways ==
  Spec => []ScansInv
  BY ScansStart, ScansStep, PTL DEF Spec

(* Whatever is aborted, restarted or left running when the session         *)
(* changes, no store shows data of another session, and a run that ends    *)
(* takes down no spinner but its own.                                      *)
THEOREM PagesShowThisSession ==
  Spec => []OnlyThisSessionShows
<1>1. ScansInv => OnlyThisSessionShows
  <2> SUFFICES ASSUME ScansInv, NEW k \in Keys
               PROVE  /\ store[k].data \in {None, epoch}
                      /\ ~store[k].started => store[k] = InitialState
                      /\ (\E j \in Jobs : /\ scan[j].at # "off" /\ scan[j].epoch = epoch
                                          /\ job[j].key = k) => store[k].loading
    BY DEF OnlyThisSessionShows
  <2>1. StoreFollows(k)
    BY DEF ScansInv
  <2>2. ASSUME NEW j \in Jobs, scan[j].at # "off", scan[j].epoch = epoch, job[j].key = k
        PROVE  store[k].loading
    BY <2>2, RunsOfSession
  <2> QED
    BY <2>1, <2>2 DEF StoreFollows
<1> QED
  BY <1>1, ScansAlways, PTL

(* A spinner is never stuck: behind it is a run of this session that       *)
(* abort() reaches, so the pause button of the page works.                 *)
THEOREM SpinnersAreBacked ==
  Spec => []StoresBacked
<1>1. ScansInv => TypeOK
  <2> SUFFICES ASSUME ScansInv PROVE TypeOK
    OBVIOUS
  <2>1. SchedulerTypeOK
    BY InvBalances DEF ScansInv, BooksBalance
  <2> QED
    BY <2>1 DEF ScansInv, StoreTypes, TypeOK
<1>2. ScansInv => SpinnerCanBeStopped
  <2> SUFFICES ASSUME ScansInv, NEW k \in Keys,
                      LifecyclePhase(store[k]) = "running", store[k].phase # "aborted"
               PROVE  \E j \in Jobs : /\ job[j].stage = "running" /\ job[j].key = k
                                      /\ scan[j].epoch = epoch
                                      /\ j \in {current[k], table[k]}
    BY DEF SpinnerCanBeStopped
  <2>1. store[k].loading
    BY DEF LifecyclePhase
  <2>2. StoreFollows(k) /\ current[k] \in Jobs \cup {None}
    BY DEF ScansInv, StoreTypes
  <2>3. /\ current[k] \in Jobs /\ scan[current[k]].at # "off" /\ scan[current[k]].epoch = epoch
        /\ job[current[k]].key = k
    BY <2>1, <2>2 DEF StoreFollows
  <2>4. job[current[k]].stage = "running"
    BY <2>3 DEF ScansInv, RunFollows
  <2> QED
    BY <2>3, <2>4
<1> QED
  BY <1>1, <1>2, ScansAlways, PTL DEF StoresBacked

(* A run writes to its own store only, and never to one that is paused. *)
LEMMA RunSparesPaused ==
  ASSUME ScansInv, NEW j \in Jobs, ScanStep(j) \/ AbortLands(j), NEW k \in Keys,
         store[k].phase = "aborted"
  PROVE  store'[k] = store[k]
<1> DEFINE l == job[j].key
<1>1. scan[j].at # "off"
  BY DEF ScanStep, JsonReply, StreamRefused, StreamOpens, StreamEvent, StreamCloses, Fails, AbortLands
<1>2. store \in [Keys -> ScanState] /\ l \in Keys
  BY <1>1, StoreOfRun DEF ScansInv, StoreTypes
<1>3. scan[j].epoch = epoch => l # k
  BY <1>1, StoreOfRun
<1>4. store' = store \/ \E s : store' = [store EXCEPT ![l] = Patched(j, store[l], s)]
  <2>1. CASE \E s : Leave(j, s)
    BY <2>1 DEF Leave
  <2>2. CASE StreamEvent(j) /\ ~(scan[j].aborted \/ scan[j].epoch # epoch)
    BY <2>2 DEF StreamEvent
  <2>3. CASE StreamRefused(j) \/ StreamOpens(j)
    BY <2>3 DEF StreamRefused, StreamOpens
  <2> QED
    BY <2>1, <2>2, <2>3 DEF ScanStep, JsonReply, StreamEvent, StreamCloses, Fails, AbortLands
<1>5. ASSUME NEW s, store' = [store EXCEPT ![l] = Patched(j, store[l], s)]
      PROVE  store'[k] = store[k]
  BY <1>2, <1>3, <1>5 DEF Patched
<1> QED
  BY <1>4, <1>5

(* A scan the user paused stays so: the job of a load that was on its way  *)
(* left the queue or lost its signal when abort() was called, and no later *)
(* load but a forced one makes another.                                    *)
THEOREM PausesLast ==
  Spec => PausedStaysPaused
<1> DEFINE Resumed(k) == store[k].phase = "aborted" /\ store'[k].phase # "aborted"
<1>1. ASSUME ScansInv, Next, NEW k \in Keys, Resumed(k)
      PROVE  retry[k] \/ epoch' # epoch
  <2>1. StoreFollows(k) /\ store \in [Keys -> ScanState]
    BY <1>1 DEF ScansInv, StoreTypes
  <2>2. CASE Bump
    <3>1. epoch \in 0..MaxEpoch /\ MaxEpoch \in Nat
      BY <1>1, SchedulerAssumption DEF ScansInv, SchedulerInv, Books
    <3>2. epoch' = epoch + 1
      BY <2>2 DEF Bump, Reset
    <3> QED
      BY <3>1, <3>2
  <2>3. ASSUME NEW j \in Jobs, BeginScan(j) PROVE retry[k]
    <3>1. ~job[j].aborted /\ job[j].stage = "granted"
      BY <1>1, <2>3 DEF BeginScan, Begin
    <3>2. Books(table, job, created, epoch) /\ OldIsAborted(job[j], epoch)
      BY <1>1 DEF ScansInv, SchedulerInv, RunFollows
    <3>3. JobFollows(job[j], table, j, created, epoch)
      BY <3>2 DEF Books
    <3>4. job[j].key \in Keys /\ table[job[j].key] = j /\ j # None
      BY <3>1, <3>2, <3>3, SchedulerAssumption DEF OldIsAborted, JobFollows, LiveStages, Jobs
    <3>5. job[j].key = k
      BY <1>1, <2>1, <2>3, <3>1 DEF BeginScan
    <3> QED
      BY <1>1, <2>1, <3>1, <3>4, <3>5 DEF StoreFollows, Waits
  <2>4. ASSUME NEW j \in Jobs, ScanStep(j) \/ AbortLands(j) PROVE FALSE
    BY <1>1, <2>4, RunSparesPaused
  <2>5. ASSUME NEW l \in Keys, Expire(l) PROVE FALSE
    <3>1. store' = [store EXCEPT ![l] = [store[l] EXCEPT !.fresh = FALSE]]
      BY <2>5 DEF Expire
    <3>2. [store[l] EXCEPT !.fresh = FALSE].phase = store[l].phase
      BY <2>1 DEF ScanState
    <3> QED
      BY <1>1, <2>1, <3>1, <3>2
  <2> QED
    BY <1>1, <2>2, <2>3, <2>4, <2>5 DEF Next, Load, Abort, Quietly, storeVars, Timeout
<1>2. ScansInv /\ [Next]_vars
        => [\A k \in Keys : (store[k].phase = "aborted" /\ store'[k].phase # "aborted")
                                => (retry[k] \/ epoch' # epoch)]_vars
  BY <1>1
<1> QED
  BY <1>2, ScansAlways, PTL DEF Spec, PausedStaysPaused
=============================================================================
