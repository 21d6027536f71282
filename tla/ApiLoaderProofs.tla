--------------------------- MODULE ApiLoaderProofs ---------------------------
(* Proofs about ApiLoader, for any endpoints followed and any number of    *)
(* loads of one page.                                                      *)
EXTENDS ApiLoader, TLAPS

TaskStates == {"off", "pending", "ok", "failed", "over"}

(* The lifecycle of f is settled, or was left running by an abort. *)
Done(r, f) == r.life[f] = "settled" \/ f \in r.abortLike

(* A fetch that has come to an end has settled its lifecycle. *)
EndsAreSettled(r) ==
    \A f \in Tracked : r.task[f] \in {"ok", "failed", "over"} => Done(r, f)

(* Which fetches have been fired, and which are over, where run() is. *)
StageHolds(r) ==
    /\ r.stage \in {"off", "overview"} => \A t \in Wanted : r.task[t] = "off"
    /\ r.stage = "phase2" => \A t \in Phase2 : r.task[t] # "off"
    /\ r.stage \in {"settings", "phase3", "staged", "tails", "ready"} =>
          \A t \in Phase2 : r.task[t] = "over"
    /\ r.stage \in {"phase3", "staged", "tails", "ready"} =>
          \A t \in Health : r.task[t] # "off"
    /\ r.stage \in {"staged", "tails", "ready"} => \A t \in Priority : r.task[t] = "over"
    /\ r.stage \in {"tails", "ready"} => \A t \in Staged \cup Low : r.task[t] = "over"
    /\ r.stage = "ready" => \A t \in Health \cup Sizes : r.task[t] # "pending"

(* Once the code-env scan is over the sizes are on their way or settled,   *)
(* unless the load was cancelled before it got to its tails.               *)
SizesFollow(r) ==
    \A t \in Sizes :
        r.task["codeEnvs"] = "over" /\ (~r.cancelled \/ r.stage \in {"tails", "ready"})
            => r.task[t] = "pending" \/ Done(r, t)

LoadInv(r) == r \in Load /\ EndsAreSettled(r) /\ StageHolds(r) /\ SizesFollow(r)

LoaderInv ==
    /\ current \in 0..MaxLoads /\ enabled \in BOOLEAN /\ screen \in Screen
    /\ enabled => current \in Loads
    /\ load \in [Loads -> Load]
    /\ \A l \in Loads : LoadInv(load[l])

-----------------------------------------------------------------------------
(* The kinds of fetches. *)

(* They are apart from each other, and every tracked fetch is of one. *)
LEMMA Kinds ==
  /\ Phase2 \cup Priority \cup Staged \cup Health \cup Low \cup Sizes = Wanted
  /\ Phase2 \cap (Priority \cup Staged \cup Health \cup Low \cup Sizes) = {}
  /\ Priority \cap (Staged \cup Health \cup Low \cup Sizes) = {}
  /\ Staged \cap (Health \cup Low \cup Sizes) = {}
  /\ Health \cap (Low \cup Sizes) = {} /\ Low \cap Sizes = {}
  /\ Tracked \subseteq Wanted /\ Polled \subseteq Wanted
  /\ Health \cup Sizes \subseteq Tracked /\ Priority \subseteq Tracked
  /\ Sizes \subseteq {"sizes"} /\ Priority \subseteq {"codeEnvs", "footprint"}
  /\ Sizes # {} => "codeEnvs" \in Priority
  BY LoaderAssumption DEF Endpoints, Phase2, Priority, Staged, Health, Low, Sizes, Tracked, Polled

(* Records that differ in task and life only. *)
SameBut(q, r) ==
    /\ q.stage = r.stage /\ q.cancelled = r.cancelled /\ q.has = r.has /\ q.late = r.late
    /\ q.abortLike = r.abortLike

(* q is r with fields marked, or with fetches fired. *)
MarkedAs(q, r, S, p) ==
    /\ q \in Load /\ SameBut(q, r) /\ q.task = r.task
    /\ \A f \in Tracked : q.life[f] = IF f \in S THEN p ELSE r.life[f]

FiredAs(q, r, T) ==
    /\ q \in Load /\ SameBut(q, r)
    /\ \A t \in Wanted : q.task[t] = IF t \in T THEN "pending" ELSE r.task[t]
    /\ \A f \in Tracked : q.life[f] = IF f \in T THEN "running" ELSE r.life[f]

(* What Mark changes ... *)
LEMMA Marks ==
  ASSUME NEW r \in Load, NEW S, NEW p \in Phases
  PROVE  MarkedAs(Mark(r, S, p), r, S, p)
<1> DEFINE g == [f \in Tracked |-> IF f \in S THEN p ELSE r.life[f]]
<1>1. g \in [Tracked -> Phases]
  BY DEF Load
<1>2. Mark(r, S, p) = [r EXCEPT !.life = g]
  BY DEF Mark
<1> HIDE DEF g
<1>3. Mark(r, S, p) \in Load /\ SameBut(Mark(r, S, p), r) /\ Mark(r, S, p).task = r.task /\ Mark(r, S, p).life = g
  BY <1>1, <1>2 DEF Load, SameBut
<1> QED
  BY <1>3 DEF g, MarkedAs

(* ... and what Launch does. *)
LEMMA Launches ==
  ASSUME NEW r \in Load, NEW T, T \subseteq Wanted
  PROVE  FiredAs(Launch(r, T), r, T)
<1> DEFINE g == [t \in Wanted |-> IF t \in T THEN "pending" ELSE r.task[t]]
           q == [r EXCEPT !.task = g]
<1>1. g \in [Wanted -> TaskStates]
  BY DEF Load, TaskStates
<1>2. Launch(r, T) = Mark(q, T \cap Tracked, "running")
  BY DEF Launch
<1>3. \A t \in Wanted : g[t] = IF t \in T THEN "pending" ELSE r.task[t]
  OBVIOUS
<1> HIDE DEF g
<1>4. q \in Load /\ SameBut(q, r) /\ q.task = g /\ q.life = r.life
  BY <1>1 DEF Load, TaskStates, SameBut
<1> HIDE DEF q
<1>5. "running" \in Phases
  BY DEF Phases
<1>6. MarkedAs(Launch(r, T), q, T \cap Tracked, "running")
  BY <1>2, <1>4, <1>5, Marks
<1> QED
  BY <1>3, <1>4, <1>6 DEF SameBut, MarkedAs, FiredAs

(* A snapshot merged into what is shown. *)
LEMMA Merges ==
  ASSUME NEW s \in Screen, NEW l \in Loads, NEW r \in Load
  PROVE  /\ Merged(s, l, r) \in Screen
         /\ \A t \in Wanted : Merged(s, l, r).rows[t] = IF t \in r.has THEN {l} ELSE s.rows[t]
<1> DEFINE g == [f \in Tracked |-> IF r.life[f] = "none" THEN s.life[f] ELSE r.life[f]]
           h == [t \in Wanted |-> IF t \in r.has THEN {l} ELSE s.rows[t]]
<1>1. g \in [Tracked -> Phases] /\ h \in [Wanted -> SUBSET Loads]
  BY DEF Load, Screen
<1>2. Merged(s, l, r) = [s EXCEPT !.life = g, !.rows = h]
  BY DEF Merged
<1>3. \A t \in Wanted : h[t] = IF t \in r.has THEN {l} ELSE s.rows[t]
  OBVIOUS
<1> HIDE DEF g, h
<1>4. Merged(s, l, r) \in Screen /\ Merged(s, l, r).rows = h
  BY <1>1, <1>2 DEF Screen
<1> QED
  BY <1>3, <1>4

(* A load of which nothing is left. *)
LEMMA NoLoadIsFine ==
  /\ LoadInv(NoLoad) /\ LoadInv([NoLoad EXCEPT !.stage = "overview"])
  /\ \A r \in Load : LoadInv(Forgotten(r))
<1>1. ASSUME NEW r \in Load, r.stage \in {"off", "overview", "ended"}, \A t \in Wanted : r.task[t] = "off"
      PROVE  LoadInv(r)
  <2>1. Sizes # {} => "codeEnvs" \in Wanted
    BY Kinds
  <2> QED
    BY <1>1, <2>1, Kinds DEF LoadInv, EndsAreSettled, StageHolds, SizesFollow
<1>2. NoLoad \in Load /\ NoLoad.stage = "off" /\ \A t \in Wanted : NoLoad.task[t] = "off"
  BY DEF NoLoad, Load, Stages, Phases
<1>3. /\ [NoLoad EXCEPT !.stage = "overview"] \in Load
      /\ [NoLoad EXCEPT !.stage = "overview"].stage = "overview"
      /\ [NoLoad EXCEPT !.stage = "overview"].task = NoLoad.task
  BY <1>2 DEF Load, Stages
<1>4. ASSUME NEW r \in Load PROVE LoadInv(Forgotten(r))
  <2>1. r.abortLike \in SUBSET Tracked
    BY DEF Load
  <2>2. Forgotten(r) \in Load /\ Forgotten(r).stage = "ended" /\ Forgotten(r).task = NoLoad.task
    BY <1>2, <2>1 DEF Forgotten, Load, Stages
  <2> QED
    BY <1>1, <1>2, <2>2
<1> QED
  BY <1>1, <1>2, <1>3, <1>4

(* A step of one load that leaves it and the page as they should be. *)
LEMMA BecomesKeepsInv ==
  ASSUME LoaderInv, NEW l \in Loads, NEW r, LoadInv(r), NEW s \in Screen, Becomes(l, r, s)
  PROVE  LoaderInv'
<1> DEFINE q == IF Spent(r) THEN Forgotten(r) ELSE r
<1>1. load' = [load EXCEPT ![l] = q] /\ screen' = s /\ current' = current /\ enabled' = enabled
  BY DEF Becomes
<1>2. LoadInv(q)
  BY NoLoadIsFine DEF LoadInv
<1> HIDE DEF q
<1>3. load' \in [Loads -> Load] /\ \A m \in Loads : LoadInv(load'[m])
  BY <1>1, <1>2 DEF LoaderInv, LoadInv
<1>4. enabled' \in BOOLEAN
  BY <1>1 DEF LoaderInv
<1> QED
  BY <1>1, <1>3, <1>4 DEF LoaderInv

(* The same, with its snapshot published. *)
LEMMA PublishKeepsInv ==
  ASSUME LoaderInv, NEW l \in Loads, NEW r, LoadInv(r), Publish(l, r)
  PROVE  LoaderInv'
<1>1. screen \in Screen /\ r \in Load
  BY DEF LoaderInv, LoadInv
<1> QED
  BY <1>1, Merges, BecomesKeepsInv DEF Publish
-----------------------------------------------------------------------------
(* The steps of run(). *)

(* A load is dropped: what has been fired goes on. *)
LEMMA EndedIsFine ==
  ASSUME NEW r, LoadInv(r), NEW q, q = [r EXCEPT !.stage = "ended"], r.cancelled \/ r.stage = "overview"
  PROVE  LoadInv(q)
<1>1. /\ q \in Load /\ q.stage = "ended" /\ q.cancelled = r.cancelled /\ q.task = r.task
      /\ q.life = r.life /\ q.abortLike = r.abortLike
  BY DEF LoadInv, Load, Stages
<1>2. r.stage = "overview" => \A t \in Sizes : r.task["codeEnvs"] = "off"
  BY Kinds DEF LoadInv, StageHolds
<1> QED
  BY <1>1, <1>2 DEF LoadInv, EndsAreSettled, StageHolds, SizesFollow, Done

(* The end of phase 1: the page gets its first data, or the load is dropped. *)
LEMMA Phase1KeepsInv ==
  ASSUME LoaderInv, NEW l \in Loads, Phase1Fails(l) \/ Phase1Ends(l)
  PROVE  LoaderInv'
<1> DEFINE r == load[l]
           q == [r EXCEPT !.stage = "ended"]
<1>1. LoadInv(r) /\ r \in Load /\ r.stage = "overview" /\ screen \in Screen
  BY DEF LoaderInv, LoadInv, Phase1Fails, Phase1Ends
<1>2. LoadInv(q)
  BY <1>1, EndedIsFine
<1> HIDE DEF q
<1>3. CASE Phase1Fails(l)
  <2>1. Becomes(l, q, [screen EXCEPT !.error = TRUE, !.loading = FALSE])
    BY <1>3 DEF Phase1Fails, q
  <2>2. [screen EXCEPT !.error = TRUE, !.loading = FALSE] \in Screen
    BY <1>1 DEF Screen
  <2> QED
    BY <1>2, <2>1, <2>2, BecomesKeepsInv
<1>4. CASE Phase1Ends(l) /\ r.cancelled
  <2>1. Becomes(l, q, screen)
    BY <1>4 DEF Phase1Ends, q
  <2> QED
    BY <1>1, <1>2, <2>1, BecomesKeepsInv
<1>5. CASE Phase1Ends(l) /\ ~r.cancelled
  <2> DEFINE a == [r EXCEPT !.stage = "phase2"]
             b == Mark(a, Staged \cap Tracked, "queued")
             c == Launch(b, Phase2)
  <2>1. Publish(l, c)
    BY <1>5 DEF Phase1Ends
  <2>2. a \in Load /\ a.stage = "phase2" /\ a.task = r.task
    BY <1>1 DEF Load, Stages
  <2> HIDE DEF a
  <2>3. "queued" \in Phases /\ Phase2 \subseteq Wanted
    BY Kinds DEF Phases
  <2>4. b \in Load /\ b.stage = "phase2" /\ b.task = r.task
    <3>1. MarkedAs(b, a, Staged \cap Tracked, "queued")
      BY <2>2, <2>3, Marks
    <3> QED
      BY <2>2, <3>1 DEF SameBut, MarkedAs
  <2> HIDE DEF b
  <2>5. /\ c \in Load /\ c.stage = "phase2"
        /\ \A t \in Wanted : c.task[t] = IF t \in Phase2 THEN "pending" ELSE r.task[t]
    <3>1. FiredAs(c, b, Phase2)
      BY <2>3, <2>4, Launches
    <3> QED
      BY <2>4, <3>1 DEF SameBut, FiredAs
  <2> HIDE DEF c
  <2>6. \A t \in Wanted : c.task[t] \in {"off", "pending"}
    BY <1>1, <2>5 DEF LoadInv, StageHolds
  <2>7. LoadInv(c)
    BY <2>3, <2>5, <2>6, Kinds DEF LoadInv, EndsAreSettled, StageHolds, SizesFollow
  <2> QED
    BY <2>1, <2>7, PublishKeepsInv
<1> QED
  BY <1>3, <1>4, <1>5

(* Phase 2 is over only when every fetch of it is. *)
LEMMA Phase2KeepsInv ==
  ASSUME LoaderInv, NEW l \in Loads, Phase2Ends(l)
  PROVE  LoaderInv'
<1> DEFINE r == load[l]
           q == [r EXCEPT !.stage = "ended"]
<1>1. LoadInv(r) /\ r \in Load /\ r.stage = "phase2" /\ screen \in Screen /\ \A t \in Phase2 : r.task[t] # "pending"
  BY DEF LoaderInv, LoadInv, Phase2Ends
<1>2. CASE r.cancelled
  <2>1. LoadInv(q)
    BY <1>1, <1>2, EndedIsFine
  <2> HIDE DEF q
  <2>2. Becomes(l, q, screen)
    BY <1>2 DEF Phase2Ends, q
  <2> QED
    BY <1>1, <2>1, <2>2, BecomesKeepsInv
<1>3. CASE ~r.cancelled
  <2> DEFINE h == r.has \cup {t \in Phase2 : r.task[t] = "ok"}
             g == [t \in Wanted |-> IF t \in Phase2 THEN "over" ELSE r.task[t]]
             n == [r EXCEPT !.stage = "settings", !.has = h, !.task = g]
  <2>1. Becomes(l, n, [Merged(screen, l, n) EXCEPT !.loading = FALSE])
    BY <1>3 DEF Phase2Ends
  <2>2. h \in SUBSET Wanted /\ g \in [Wanted -> TaskStates]
    BY <1>1, Kinds DEF Load, TaskStates
  <2>3. \A t \in Wanted : g[t] = IF t \in Phase2 THEN "over" ELSE r.task[t]
    OBVIOUS
  <2> HIDE DEF h, g
  <2>4. /\ n \in Load /\ n.stage = "settings" /\ n.task = g /\ n.life = r.life
        /\ n.abortLike = r.abortLike /\ n.cancelled = r.cancelled
    BY <1>1, <2>2 DEF Load, Stages, TaskStates
  <2> HIDE DEF n
  <2>5. \A t \in Phase2 : r.task[t] \in {"ok", "failed", "over"}
    BY <1>1, Kinds DEF LoadInv, StageHolds, Load
  <2>6. EndsAreSettled(n)
    BY <1>1, <2>3, <2>4, <2>5, Kinds DEF LoadInv, EndsAreSettled, Done
  <2>7. StageHolds(n)
    BY <2>3, <2>4, Kinds DEF StageHolds
  <2>8. SizesFollow(n)
    BY <1>1, <1>3, <2>3, <2>4, Kinds DEF LoadInv, SizesFollow, Done
  <2>9. LoadInv(n)
    BY <2>4, <2>6, <2>7, <2>8 DEF LoadInv
  <2>10. Merged(screen, l, n) \in Screen
    BY <1>1, <2>4, Merges
  <2>11. [Merged(screen, l, n) EXCEPT !.loading = FALSE] \in Screen
    BY <2>10 DEF Screen
  <2> QED
    BY <2>1, <2>9, <2>11, BecomesKeepsInv
<1> QED
  BY <1>2, <1>3

(* Fetches are fired as run() goes on from stage to stage. *)
LEMMA FiringIsFine ==
  ASSUME NEW r, LoadInv(r), NEW T, NEW st, NEW a, a = [r EXCEPT !.stage = st], NEW c, c = Launch(a, T),
         \/ r.stage = "settings" /\ st = "phase3" /\ T = Priority \cup Health \cup Low
         \/ r.stage = "phase3" /\ st = "staged" /\ T = Staged /\ \A t \in Priority : r.task[t] = "over"
  PROVE  LoadInv(c)
<1>1. /\ a \in Load /\ a.stage = st /\ a.task = r.task /\ a.life = r.life
      /\ a.abortLike = r.abortLike /\ a.cancelled = r.cancelled
  BY DEF LoadInv, Load, Stages
<1>2. T \subseteq Wanted /\ T \cap (Phase2 \cup Sizes) = {}
  BY Kinds
<1>3. /\ c \in Load /\ SameBut(c, a)
      /\ \A t \in Wanted : c.task[t] = IF t \in T THEN "pending" ELSE a.task[t]
      /\ \A f \in Tracked : c.life[f] = IF f \in T THEN "running" ELSE a.life[f]
  <2>1. FiredAs(Launch(a, T), a, T)
    BY <1>1, <1>2, Launches
  <2> QED
    BY <2>1 DEF FiredAs
<1>4. /\ c.stage = st /\ c.cancelled = r.cancelled
      /\ \A t \in Wanted : c.task[t] = IF t \in T THEN "pending" ELSE r.task[t]
      /\ \A t \in Tracked \ T : Done(c, t) <=> Done(r, t)
  BY <1>1, <1>3 DEF SameBut, Done
<1>5. EndsAreSettled(c)
  BY <1>4, Kinds DEF LoadInv, EndsAreSettled
<1>6. StageHolds(c)
  <2>1. \A t \in Phase2 : r.task[t] = "over"
    BY DEF LoadInv, StageHolds
  <2>2. \A t \in Phase2 : c.task[t] = "over"
    BY <1>2, <1>4, <2>1, Kinds
  <2>3. CASE st = "phase3" /\ T = Priority \cup Health \cup Low
    BY <1>4, <2>2, <2>3, Kinds DEF StageHolds
  <2>4. CASE st = "staged" /\ T = Staged /\ r.stage = "phase3" /\ \A t \in Priority : r.task[t] = "over"
    <3>1. \A t \in Health : r.task[t] # "off"
      BY <2>4 DEF LoadInv, StageHolds
    <3>2. \A t \in Health \cup Priority : c.task[t] = r.task[t]
      BY <1>4, <2>4, Kinds
    <3> QED
      BY <1>4, <2>2, <2>4, <3>1, <3>2 DEF StageHolds
  <2> QED
    BY <2>3, <2>4
<1>7. SizesFollow(c)
  <2>1. \A t \in Sizes : c.task[t] = r.task[t] /\ (Done(c, t) <=> Done(r, t))
    BY <1>2, <1>4, Kinds
  <2>2. Sizes # {} => "codeEnvs" \in Wanted
    BY Kinds
  <2>3. \A t \in Sizes : c.task["codeEnvs"] \in {"pending", r.task["codeEnvs"]}
    BY <1>4, <2>2
  <2> QED
    BY <1>4, <2>1, <2>3 DEF LoadInv, SizesFollow
<1> QED
  BY <1>3, <1>5, <1>6, <1>7 DEF LoadInv

(* Phase 3 fires, and the staged scans after it. *)
LEMMA FiringKeepsInv ==
  ASSUME LoaderInv, NEW l \in Loads, Phase3Starts(l) \/ StageTwo(l)
  PROVE  LoaderInv'
<1>1. LoadInv(load[l])
  BY DEF LoaderInv
<1>2. CASE Phase3Starts(l)
  <2> DEFINE c == Launch([load[l] EXCEPT !.stage = "phase3"], Priority \cup Health \cup Low)
  <2>1. load[l].stage = "settings" /\ Publish(l, c)
    BY <1>2 DEF Phase3Starts
  <2>2. LoadInv(c)
    BY <1>1, <2>1, FiringIsFine
  <2> QED
    BY <2>1, <2>2, PublishKeepsInv
<1>3. CASE StageTwo(l)
  <2> DEFINE c == Launch([load[l] EXCEPT !.stage = "staged"], Staged)
  <2>1. load[l].stage = "phase3" /\ (\A t \in Priority : load[l].task[t] = "over") /\ Publish(l, c)
    BY <1>3 DEF StageTwo
  <2>2. LoadInv(c)
    BY <1>1, <2>1, FiringIsFine
  <2> QED
    BY <2>1, <2>2, PublishKeepsInv
<1> QED
  BY <1>2, <1>3

(* The gates let a load on that was not cancelled, the tails make it ready. *)
LEMMA GatesKeepInv ==
  ASSUME LoaderInv, NEW l \in Loads, GatesPass(l) \/ Ready(l)
  PROVE  LoaderInv'
<1> DEFINE r == load[l]
<1>1. LoadInv(r) /\ r \in Load /\ screen \in Screen /\ r.cancelled \in BOOLEAN
  BY DEF LoaderInv, LoadInv, Load
<1>2. CASE GatesPass(l) /\ r.cancelled
  <2> DEFINE q == [r EXCEPT !.stage = "ended"]
  <2>1. LoadInv(q)
    BY <1>1, <1>2, EndedIsFine
  <2>2. Becomes(l, q, screen)
    BY <1>2 DEF GatesPass
  <2> QED
    BY <1>1, <2>1, <2>2, BecomesKeepsInv
<1>3. CASE GatesPass(l) /\ ~r.cancelled
  <2> DEFINE q == [r EXCEPT !.stage = "tails"]
  <2>1. /\ q \in Load /\ q.stage = "tails" /\ q.cancelled = r.cancelled /\ q.task = r.task
        /\ q.life = r.life /\ q.abortLike = r.abortLike
    BY <1>1 DEF Load, Stages
  <2>2. Becomes(l, q, screen) /\ r.stage = "staged" /\ \A t \in Staged \cup Low : r.task[t] = "over"
    BY <1>3 DEF GatesPass
  <2> HIDE DEF q
  <2>3. LoadInv(q)
    BY <1>1, <1>3, <2>1, <2>2 DEF LoadInv, EndsAreSettled, StageHolds, SizesFollow, Done
  <2> QED
    BY <1>1, <2>2, <2>3, BecomesKeepsInv
<1>4. CASE Ready(l)
  <2> DEFINE q == [r EXCEPT !.stage = "ready"]
             s == [screen EXCEPT !.ready = TRUE, !.loading = @ /\ r.cancelled]
  <2>1. /\ q \in Load /\ q.stage = "ready" /\ q.cancelled = r.cancelled /\ q.task = r.task
        /\ q.life = r.life /\ q.abortLike = r.abortLike
    BY <1>1 DEF Load, Stages
  <2>2. /\ Becomes(l, q, s) /\ r.stage = "tails"
        /\ \A t \in Health \cup Sizes : r.task[t] # "pending"
    BY <1>4 DEF Ready
  <2>3. s \in Screen
    BY <1>1 DEF Screen
  <2> HIDE DEF q, s
  <2>4. LoadInv(q)
    BY <1>1, <2>1, <2>2 DEF LoadInv, EndsAreSettled, StageHolds, SizesFollow, Done
  <2> QED
    BY <2>2, <2>3, <2>4, BecomesKeepsInv
<1> QED
  BY <1>2, <1>3, <1>4
-----------------------------------------------------------------------------
(* The fetches. *)

(* The data a load holds, and its polls, are no part of the invariant. *)
LEMMA AlikeIsFine ==
  ASSUME NEW r, LoadInv(r), NEW q \in Load, q.stage = r.stage, q.cancelled = r.cancelled,
         q.task = r.task, q.life = r.life, q.abortLike = r.abortLike
  PROVE  LoadInv(q)
  BY DEF LoadInv, EndsAreSettled, StageHolds, SizesFollow, Done

(* q is r after fetch t has come to an end, in state v. *)
EndedAs(q, r, t, v) ==
    /\ q \in Load /\ q.stage = r.stage /\ q.cancelled = r.cancelled
    /\ q.task[t] = v /\ \A u \in Wanted \ {t} : q.task[u] = r.task[u]

(* What track() makes of the outcome of fetch t. *)
LEMMA Settles ==
  ASSUME NEW r \in Load, NEW t, NEW o
  PROVE  /\ Settled(r, t, o) \in Load /\ Settled(r, t, o).has = r.has
         /\ Settled(r, t, o).stage = r.stage /\ Settled(r, t, o).cancelled = r.cancelled
         /\ Settled(r, t, o).task = r.task
         /\ \A f \in Tracked : Done(r, f) \/ f = t => Done(Settled(r, t, o), f)
<1> DEFINE q == Settled(r, t, o)
<1>1. CASE t \notin Tracked
  BY <1>1 DEF Settled
<1>2. CASE t \in Tracked /\ o = "abort"
  <2>1. q = [r EXCEPT !.abortLike = r.abortLike \cup {t}]
    BY <1>2 DEF Settled
  <2>2. r.abortLike \cup {t} \in SUBSET Tracked
    BY <1>2 DEF Load
  <2>3. /\ q \in Load /\ q.has = r.has /\ q.stage = r.stage /\ q.cancelled = r.cancelled
        /\ q.task = r.task /\ q.life = r.life /\ q.abortLike = r.abortLike \cup {t}
    BY <2>1, <2>2 DEF Load
  <2> QED
    BY <2>3 DEF Done
<1>3. CASE t \in Tracked /\ o # "abort"
  <2>1. q = Mark(r, {t}, "settled") /\ "settled" \in Phases
    BY <1>3 DEF Settled, Phases
  <2>2. MarkedAs(q, r, {t}, "settled")
    BY <2>1, Marks
  <2> QED
    BY <2>2 DEF MarkedAs, SameBut, Done
<1> QED
  BY <1>1, <1>2, <1>3

(* A fetch that comes to an end leaves its lifecycle settled or aborted. *)
LEMMA FetchEnds ==
  ASSUME NEW r, LoadInv(r), NEW t \in Wanted, r.task[t] = "pending", NEW v, NEW o,
         v \in {"ok", "failed", "over"}, v = "over" => t \notin Priority,
         NEW q, EndedAs(q, r, t, v), q.life = r.life, q.abortLike = r.abortLike
  PROVE  LoadInv(Settled(q, t, o))
<1> DEFINE n == Settled(q, t, o)
<1>1. /\ n \in Load /\ n.stage = r.stage /\ n.cancelled = r.cancelled
      /\ n.task[t] = v /\ \A u \in Wanted \ {t} : n.task[u] = r.task[u]
      /\ \A f \in Tracked : Done(r, f) \/ f = t => Done(n, f)
  <2>1. q \in Load /\ \A f \in Tracked : Done(r, f) => Done(q, f)
    BY DEF EndedAs, Done
  <2>2. /\ n \in Load /\ n.stage = q.stage /\ n.cancelled = q.cancelled /\ n.task = q.task
        /\ \A f \in Tracked : Done(q, f) \/ f = t => Done(n, f)
    BY <2>1, Settles
  <2> QED
    BY <2>1, <2>2 DEF EndedAs
<1> HIDE DEF n
<1>2. EndsAreSettled(n)
  BY <1>1, Kinds DEF LoadInv, EndsAreSettled
<1>3. StageHolds(n)
  <2>1. StageHolds(r)
    BY DEF LoadInv
  <2>2. \A u \in Wanted : /\ r.task[u] = "over" => n.task[u] = "over"
                          /\ r.task[u] # "off" => n.task[u] # "off"
                          /\ r.task[u] # "pending" => n.task[u] # "pending"
    BY <1>1
  <2>3. r.stage \notin {"off", "overview"}
    BY <2>1 DEF StageHolds
  <2> QED
    BY <1>1, <2>1, <2>2, <2>3, Kinds DEF StageHolds
<1>4. SizesFollow(n)
  <2> SUFFICES ASSUME NEW u \in Sizes, n.task["codeEnvs"] = "over",
                      ~n.cancelled \/ n.stage \in {"tails", "ready"}
               PROVE  n.task[u] = "pending" \/ Done(n, u)
    BY DEF SizesFollow
  <2>1. u \in Tracked /\ "codeEnvs" \in Priority /\ "codeEnvs" \in Wanted
    BY Kinds
  <2>2. r.task["codeEnvs"] = "over"
    BY <1>1, <2>1
  <2>3. r.task[u] = "pending" \/ Done(r, u)
    BY <1>1, <2>2 DEF LoadInv, SizesFollow
  <2> QED
    BY <1>1, <2>1, <2>3, Kinds
<1> QED
  BY <1>1, <1>2, <1>3, <1>4 DEF LoadInv, n

(* A fetch settles whose result waits for others. *)
LEMMA SettleFirstKeepsInv ==
  ASSUME LoaderInv, NEW l \in Loads, NEW t \in Wanted, SettleFirst(l, t)
  PROVE  LoaderInv'
<1> DEFINE r == load[l]
<1>1. LoadInv(r) /\ r \in Load /\ screen \in Screen /\ r.task[t] = "pending"
  BY DEF LoaderInv, LoadInv, SettleFirst
<1>2. PICK o \in Outcomes(t) :
         LET n == Settled([r EXCEPT !.task[t] = IF o = "ok" THEN "ok" ELSE "failed", !.late = @ \ {t}], t, o)
         IN  Becomes(l, n, screen) \/ Publish(l, n)
  BY DEF SettleFirst
<1> DEFINE v == IF o = "ok" THEN "ok" ELSE "failed"
           q == [r EXCEPT !.task[t] = v, !.late = @ \ {t}]
           n == Settled(q, t, o)
<1>3. EndedAs(q, r, t, v) /\ q.life = r.life /\ q.abortLike = r.abortLike
  BY <1>1 DEF EndedAs, Load
<1>4. Becomes(l, n, screen) \/ Publish(l, n)
  BY <1>2
<1>5. v \in {"ok", "failed"}
  OBVIOUS
<1> HIDE DEF q, v
<1>6. LoadInv(n)
  BY <1>1, <1>3, <1>5, FetchEnds
<1> QED
  BY <1>1, <1>4, <1>6, BecomesKeepsInv, PublishKeepsInv

(* A fetch with one answer settles and is stored. *)
LEMMA SettleAndStoreKeepsInv ==
  ASSUME LoaderInv, NEW l \in Loads, NEW t \in Wanted, SettleAndStore(l, t)
  PROVE  LoaderInv'
<1> DEFINE r == load[l]
           q == [r EXCEPT !.task[t] = "over", !.late = @ \ {t}]
<1>1. /\ LoadInv(r) /\ r \in Load /\ screen \in Screen /\ r.task[t] = "pending"
      /\ t \in Staged \cup Low /\ t \notin Priority
  BY Kinds DEF LoaderInv, LoadInv, SettleAndStore
<1>2. PICK o \in Outcomes(t) :
         LET n == Stored(Settled(q, t, o), t, o) IN Becomes(l, n, screen) \/ Publish(l, n)
  BY DEF SettleAndStore
<1> DEFINE m == Settled(q, t, o)
           n == Stored(m, t, o)
<1>3. EndedAs(q, r, t, "over") /\ q.life = r.life /\ q.abortLike = r.abortLike
  BY <1>1 DEF EndedAs, Load
<1>4. Becomes(l, n, screen) \/ Publish(l, n)
  BY <1>2
<1> HIDE DEF q
<1>5. LoadInv(m)
  BY <1>1, <1>3, FetchEnds
<1> HIDE DEF m
<1>6. LoadInv(n)
  <2>1. CASE n = m
    BY <1>5, <2>1
  <2>2. CASE n = [m EXCEPT !.has = @ \cup {t}]
    <3>1. /\ n \in Load /\ n.stage = m.stage /\ n.cancelled = m.cancelled /\ n.task = m.task
          /\ n.life = m.life /\ n.abortLike = m.abortLike
      BY <1>5, <2>2 DEF LoadInv, Load
    <3> HIDE DEF n
    <3> QED
      BY <1>5, <3>1, AlikeIsFine
  <2> QED
    BY <2>1, <2>2 DEF Stored
<1> QED
  BY <1>1, <1>4, <1>6, BecomesKeepsInv, PublishKeepsInv

(* Rows that go to the page past the tracker. *)
LEMMA RowsAreRows ==
  ASSUME NEW s \in Screen, NEW t \in Wanted, NEW R \in SUBSET Loads
  PROVE  /\ [s EXCEPT !.rows[t] = R] \in Screen
         /\ \A u \in Wanted : [s EXCEPT !.rows[t] = R].rows[u] = IF u = t THEN R ELSE s.rows[u]
  BY DEF Screen

(* A row of the health report reaches the page. *)
LEMMA HealthRowKeepsInv ==
  ASSUME LoaderInv, NEW l \in Loads, HealthRow(l)
  PROVE  LoaderInv'
<1>1. PICK t \in Health : Becomes(l, load[l], [screen EXCEPT !.rows[t] = {l}])
  BY DEF HealthRow
<1>2. LoadInv(load[l]) /\ screen \in Screen /\ t \in Wanted
  BY Kinds DEF LoaderInv
<1>3. [screen EXCEPT !.rows[t] = {l}] \in Screen
  BY <1>2, RowsAreRows
<1> QED
  BY <1>1, <1>2, <1>3, BecomesKeepsInv

(* A tail, the health report or the code-env sizes, settles. *)
LEMMA SettleTailKeepsInv ==
  ASSUME LoaderInv, NEW l \in Loads, NEW t \in Wanted, SettleTail(l, t)
  PROVE  LoaderInv'
<1> DEFINE r == load[l]
           q == [r EXCEPT !.task[t] = "over"]
           S(o) == IF t \in Sizes /\ o = "ok" THEN [screen EXCEPT !.rows[t] = {l}] ELSE screen
<1>1. /\ LoadInv(r) /\ r \in Load /\ screen \in Screen /\ r.task[t] = "pending"
      /\ t \in Health \cup Sizes /\ t \notin Priority
  BY Kinds DEF LoaderInv, LoadInv, SettleTail
<1>2. PICK o \in Outcomes(t) :
         Becomes(l, Settled(q, t, o), IF o = "abort" THEN S(o) ELSE Merged(S(o), l, Settled(q, t, o)))
  BY DEF SettleTail
<1> DEFINE n == Settled(q, t, o)
           s == S(o)
           z == IF o = "abort" THEN s ELSE Merged(s, l, n)
<1>3. EndedAs(q, r, t, "over") /\ q.life = r.life /\ q.abortLike = r.abortLike
  BY <1>1 DEF EndedAs, Load
<1>4. Becomes(l, n, z)
  BY <1>2
<1>5. s \in Screen
  BY <1>1, RowsAreRows
<1> HIDE DEF q, S
<1>6. LoadInv(n) /\ n \in Load
  <2>1. LoadInv(n)
    BY <1>1, <1>3, FetchEnds
  <2> QED
    BY <2>1 DEF LoadInv
<1> HIDE DEF n, s
<1>7. z \in Screen
  BY <1>5, <1>6, Merges
<1> HIDE DEF z
<1> QED
  BY <1>4, <1>6, <1>7, BecomesKeepsInv

(* A poll of a scan brings rows. *)
LEMMA PollKeepsInv ==
  ASSUME LoaderInv, NEW l \in Loads, NEW t \in Wanted, PollLands(l, t)
  PROVE  LoaderInv'
<1> DEFINE r == load[l]
           n == [r EXCEPT !.late = @ \ {t}]
           s == [screen EXCEPT !.rows[t] = @ \cup {l}]
<1>1. LoadInv(r) /\ r \in Load /\ screen \in Screen
  BY DEF LoaderInv, LoadInv
<1>2. /\ n \in Load /\ n.stage = r.stage /\ n.cancelled = r.cancelled /\ n.task = r.task
      /\ n.life = r.life /\ n.abortLike = r.abortLike
  BY <1>1 DEF Load
<1>3. Becomes(l, n, screen) \/ Becomes(l, n, s) \/ Publish(l, n)
  BY DEF PollLands
<1>4. s \in Screen
  BY <1>1 DEF Screen
<1> HIDE DEF n, s
<1>5. LoadInv(n)
  BY <1>1, <1>2, AlikeIsFine
<1> QED
  BY <1>1, <1>3, <1>4, <1>5, BecomesKeepsInv, PublishKeepsInv

(* The end of a scan's runner: n is the load after it, its own fetch over. *)
LEMMA RunnerIsFine ==
  ASSUME NEW r, LoadInv(r), NEW t \in Priority, r.task[t] \in {"ok", "failed"}, NEW n \in Load,
         n.stage = r.stage, n.cancelled = r.cancelled, n.task[t] = "over",
         \A u \in Wanted \ (Sizes \cup {t}) : n.task[u] = r.task[u],
         \A f \in Tracked \ Sizes : Done(r, f) => Done(n, f),
         \A u \in Sizes : \/ n.task[u] = r.task[u] /\ (Done(r, u) => Done(n, u))
                          \/ n.task[u] = "pending",
         t = "codeEnvs" /\ ~r.cancelled => \A u \in Sizes : n.task[u] = "pending" \/ Done(n, u)
  PROVE  LoadInv(n)
<1>1. StageHolds(r) /\ EndsAreSettled(r) /\ SizesFollow(r) /\ t \in Wanted
  BY Kinds DEF LoadInv
<1>2. r.stage \notin {"off", "overview", "staged", "tails", "ready"}
  BY <1>1 DEF StageHolds
<1>3. StageHolds(n)
  <2>1. \A u \in Phase2 \cup Health : n.task[u] = r.task[u]
    BY Kinds
  <2> QED
    BY <1>1, <1>2, <2>1 DEF StageHolds
<1>4. EndsAreSettled(n)
  <2> SUFFICES ASSUME NEW f \in Tracked, n.task[f] \in {"ok", "failed", "over"} PROVE Done(n, f)
    BY DEF EndsAreSettled
  <2>1. f \in Wanted
    BY Kinds
  <2>2. CASE f \in Sizes
    BY <1>1, <2>2 DEF EndsAreSettled
  <2>3. CASE f \notin Sizes
    BY <1>1, <2>1, <2>3 DEF EndsAreSettled
  <2> QED
    BY <2>2, <2>3
<1>5. SizesFollow(n)
  <2> SUFFICES ASSUME NEW u \in Sizes, n.task["codeEnvs"] = "over", ~n.cancelled
               PROVE  n.task[u] = "pending" \/ Done(n, u)
    BY <1>2 DEF SizesFollow
  <2>1. CASE t = "codeEnvs"
    BY <2>1
  <2>2. CASE t # "codeEnvs"
    <3>1. "codeEnvs" \in Wanted \ (Sizes \cup {t})
      BY <2>2, Kinds
    <3>2. r.task[u] = "pending" \/ Done(r, u)
      BY <1>1, <3>1 DEF SizesFollow
    <3> QED
      BY <3>2
  <2> QED
    BY <2>1, <2>2
<1> QED
  BY <1>3, <1>4, <1>5 DEF LoadInv

(* The rest of a runner, before its fetch is written off. *)
LEMMA RunnerStores ==
  ASSUME NEW r, LoadInv(r), ~r.cancelled, NEW t \in Priority, r.task[t] \in {"ok", "failed"},
         NEW recovered \in BOOLEAN, NEW m,
         m = IF t = "codeEnvs" THEN CodeEnvsEnd(r, recovered) ELSE FootprintEnd(r)
  PROVE  LoadInv([m EXCEPT !.task[t] = "over"])
<1> DEFINE n == [m EXCEPT !.task[t] = "over"]
           h == [r EXCEPT !.has = @ \cup {"codeEnvs"}]
<1>1. r \in Load /\ t \in Wanted /\ t \notin Sizes /\ "settled" \in Phases
  BY Kinds DEF LoadInv, Phases
<1>2. /\ m \in Load /\ m.stage = r.stage /\ m.cancelled = r.cancelled
      /\ \A u \in Wanted \ Sizes : m.task[u] = r.task[u]
      /\ \A f \in Tracked \ Sizes : Done(r, f) => Done(m, f)
      /\ \A u \in Sizes : \/ m.task[u] = r.task[u] /\ (Done(r, u) => Done(m, u))
                          \/ m.task[u] = "pending"
      /\ t = "codeEnvs" => \A u \in Sizes : m.task[u] = "pending" \/ Done(m, u)
  <2>1. CASE t # "codeEnvs"
    <3>1. t = "footprint" /\ m \in {r, [r EXCEPT !.has = @ \cup {"footprint"}]}
      BY <2>1, Kinds DEF FootprintEnd
    <3>2. /\ m \in Load /\ m.stage = r.stage /\ m.cancelled = r.cancelled /\ m.task = r.task
          /\ m.life = r.life /\ m.abortLike = r.abortLike
      BY <1>1, <3>1 DEF Load
    <3> QED
      BY <2>1, <3>2 DEF Done
  <2>2. CASE t = "codeEnvs" /\ ~(r.task["codeEnvs"] = "ok" \/ recovered)
    <3>1. m = Mark(r, Sizes, "settled")
      BY <2>2 DEF CodeEnvsEnd
    <3>2. MarkedAs(m, r, Sizes, "settled")
      BY <1>1, <3>1, Marks
    <3> QED
      BY <3>2, Kinds DEF MarkedAs, SameBut, Done
  <2>3. CASE t = "codeEnvs" /\ (r.task["codeEnvs"] = "ok" \/ recovered)
    <3> DEFINE k == Mark(h, {"codeEnvs"}, "settled")
    <3>1. m = Launch(k, Sizes)
      BY <2>3 DEF CodeEnvsEnd
    <3>2. /\ h \in Load /\ h.stage = r.stage /\ h.cancelled = r.cancelled /\ h.task = r.task
          /\ h.life = r.life /\ h.abortLike = r.abortLike
      BY <1>1, <2>3 DEF Load
    <3> HIDE DEF h
    <3>3. MarkedAs(k, h, {"codeEnvs"}, "settled")
      BY <1>1, <3>2, Marks
    <3> HIDE DEF k
    <3>4. k \in Load /\ Sizes \subseteq Wanted
      BY <3>3, Kinds DEF MarkedAs
    <3>5. FiredAs(m, k, Sizes)
      BY <3>1, <3>4, Launches
    <3> QED
      BY <3>2, <3>3, <3>5, Kinds DEF MarkedAs, FiredAs, SameBut, Done
  <2> QED
    BY <2>1, <2>2, <2>3
<1>3. /\ n \in Load /\ n.stage = m.stage /\ n.cancelled = m.cancelled
      /\ n.task[t] = "over" /\ \A u \in Wanted \ {t} : n.task[u] = m.task[u]
      /\ n.life = m.life /\ n.abortLike = m.abortLike
  BY <1>1, <1>2 DEF Load
<1> HIDE DEF n
<1>4. \A f \in Tracked : Done(n, f) <=> Done(m, f)
  BY <1>3 DEF Done
<1>5. /\ \A u \in Wanted \ (Sizes \cup {t}) : n.task[u] = r.task[u]
      /\ \A f \in Tracked \ Sizes : Done(r, f) => Done(n, f)
  BY <1>2, <1>3, <1>4
<1>6. \A u \in Sizes : u \in Tracked /\ u \in Wanted /\ u # t /\ n.task[u] = m.task[u]
  BY <1>1, <1>3, Kinds
<1>7. /\ \A u \in Sizes : \/ n.task[u] = r.task[u] /\ (Done(r, u) => Done(n, u))
                          \/ n.task[u] = "pending"
      /\ t = "codeEnvs" => \A u \in Sizes : n.task[u] = "pending" \/ Done(n, u)
  BY <1>2, <1>4, <1>6
<1>8. LoadInv(n)
  BY <1>2, <1>3, <1>5, <1>7, RunnerIsFine
<1> QED
  BY <1>8 DEF n

(* The runner of a scan ends, and fires what follows it. *)
LEMMA RunnerKeepsInv ==
  ASSUME LoaderInv, NEW l \in Loads, NEW t \in Wanted, RunnerEnds(l, t)
  PROVE  LoaderInv'
<1> DEFINE r == load[l]
<1>1. /\ LoadInv(r) /\ r \in Load /\ screen \in Screen
      /\ t \in Priority /\ r.task[t] \in {"ok", "failed"}
  BY DEF LoaderInv, LoadInv, RunnerEnds
<1>2. CASE r.cancelled
  <2> DEFINE n == [r EXCEPT !.task[t] = "over"]
  <2>1. Becomes(l, n, screen)
    BY <1>2 DEF RunnerEnds
  <2>2. /\ n \in Load /\ n.stage = r.stage /\ n.cancelled = r.cancelled
        /\ n.task[t] = "over" /\ \A u \in Wanted \ {t} : n.task[u] = r.task[u]
        /\ n.life = r.life /\ n.abortLike = r.abortLike
    BY <1>1 DEF Load
  <2> HIDE DEF n
  <2>3. \A f \in Tracked : Done(n, f) <=> Done(r, f)
    BY <2>2 DEF Done
  <2>4. \A u \in Sizes : u \in Wanted /\ u \in Tracked /\ u # t
    BY <1>1, Kinds
  <2>5. \A u \in Sizes : n.task[u] = r.task[u] /\ (Done(r, u) => Done(n, u))
    BY <2>2, <2>3, <2>4
  <2>6. /\ \A u \in Wanted \ (Sizes \cup {t}) : n.task[u] = r.task[u]
        /\ \A f \in Tracked \ Sizes : Done(r, f) => Done(n, f)
    BY <2>2, <2>3
  <2>7. LoadInv(n)
    BY <1>1, <1>2, <2>2, <2>5, <2>6, RunnerIsFine
  <2> QED
    BY <1>1, <2>1, <2>7, BecomesKeepsInv
<1>3. CASE ~r.cancelled
  <2>1. PICK recovered \in BOOLEAN :
          LET m == IF t = "codeEnvs" THEN CodeEnvsEnd(r, recovered) ELSE FootprintEnd(r)
          IN  Publish(l, [m EXCEPT !.task[t] = "over"])
    BY <1>3 DEF RunnerEnds
  <2> DEFINE m == IF t = "codeEnvs" THEN CodeEnvsEnd(r, recovered) ELSE FootprintEnd(r)
             n == [m EXCEPT !.task[t] = "over"]
  <2>2. Publish(l, n)
    BY <2>1
  <2>3. LoadInv(n)
    BY <1>1, <1>3, RunnerStores
  <2> QED
    BY <2>2, <2>3, PublishKeepsInv
<1> QED
  BY <1>2, <1>3

-----------------------------------------------------------------------------
(* The effect. *)

(* A torn-down load keeps what it has. *)
LEMMA TornDownIsFine ==
  ASSUME NEW r, LoadInv(r), NEW late \in SUBSET Polling(r)
  PROVE  LoadInv(TornDown(r, late))
<1> DEFINE n == TornDown(r, late)
<1>1. late \in SUBSET Polled
  BY DEF Polling
<1>2. /\ n \in Load /\ n.stage = r.stage /\ n.cancelled = TRUE /\ n.task = r.task
      /\ n.life = r.life /\ n.abortLike = r.abortLike
  BY <1>1 DEF LoadInv, Load, TornDown
<1> HIDE DEF n
<1>3. LoadInv(n)
  BY <1>2 DEF LoadInv, EndsAreSettled, StageHolds, SizesFollow, Done
<1> QED
  BY <1>3 DEF n

(* A new load takes over from the one before. *)
LEMMA ReloadKeepsInv ==
  ASSUME LoaderInv, Reload
  PROVE  LoaderInv'
<1>1. PICK late \in SUBSET (IF enabled THEN Polling(load[current]) ELSE {}) :
         load' = [l \in Loads |->
                    IF l = current + 1 THEN [NoLoad EXCEPT !.stage = "overview"]
                    ELSE IF enabled /\ l = current THEN TornDown(load[l], late)
                    ELSE load[l]]
  BY DEF Reload
<1>2. \A l \in Loads : LoadInv(load'[l])
  <2> TAKE l \in Loads
  <2>1. LoadInv(load[l])
    BY DEF LoaderInv
  <2>2. enabled /\ l = current => LoadInv(TornDown(load[l], late))
    BY <1>1, <2>1, TornDownIsFine
  <2> QED
    BY <1>1, <2>1, <2>2, NoLoadIsFine
<1>3. load' \in [Loads -> Load]
  BY <1>1, <1>2 DEF LoadInv
<1>4. current' \in 0..MaxLoads /\ current' \in Loads
  BY LoaderAssumption DEF Reload, LoaderInv, Loads
<1>5. screen' \in Screen
  BY DEF Reload, LoaderInv, Screen
<1>6. enabled' \in BOOLEAN
  BY DEF Reload
<1> QED
  BY <1>2, <1>3, <1>4, <1>5, <1>6 DEF LoaderInv

(* The page is left with its load torn down. *)
LEMMA LeaveHostKeepsInv ==
  ASSUME LoaderInv, LeaveHost
  PROVE  LoaderInv'
<1>1. PICK late \in SUBSET Polling(load[current]) :
         load' = [load EXCEPT ![current] = TornDown(load[current], late)]
  BY DEF LeaveHost
<1>2. current \in Loads /\ LoadInv(load[current]) /\ enabled' = FALSE /\ current' = current /\ screen' = screen
  BY DEF LeaveHost, LoaderInv
<1>3. LoadInv(TornDown(load[current], late))
  BY <1>2, TornDownIsFine
<1>4. load' \in [Loads -> Load] /\ \A l \in Loads : LoadInv(load'[l])
  BY <1>1, <1>2, <1>3 DEF LoaderInv, LoadInv
<1>5. enabled' \in BOOLEAN
  BY <1>2
<1> QED
  BY <1>2, <1>4, <1>5 DEF LoaderInv

-----------------------------------------------------------------------------

(* The invariant holds at the start, ... *)
LEMMA LoaderStarts == Init => LoaderInv
<1> SUFFICES ASSUME Init PROVE LoaderInv
  OBVIOUS
<1>1. current \in 0..MaxLoads /\ enabled = FALSE
  BY LoaderAssumption DEF Init
<1>2. screen \in Screen
  BY DEF Init, Screen, Phases
<1>3. load = [l \in Loads |-> NoLoad] /\ LoadInv(NoLoad)
  BY NoLoadIsFine DEF Init
<1>4. load \in [Loads -> Load] /\ \A l \in Loads : LoadInv(load[l])
  BY <1>3 DEF LoadInv
<1> QED
  BY <1>1, <1>2, <1>4 DEF LoaderInv

(* ... is kept by every step ... *)
LEMMA LoaderSteps == LoaderInv /\ [Next]_vars => LoaderInv'
<1> SUFFICES ASSUME LoaderInv, [Next]_vars PROVE LoaderInv'
  OBVIOUS
<1>1. CASE Reload
  BY <1>1, ReloadKeepsInv
<1>2. CASE LeaveHost
  BY <1>2, LeaveHostKeepsInv
<1>3. ASSUME NEW l \in Loads, Step(l) PROVE LoaderInv'
  BY <1>3, Phase1KeepsInv, Phase2KeepsInv, FiringKeepsInv, GatesKeepInv, SettleFirstKeepsInv,
     SettleAndStoreKeepsInv, SettleTailKeepsInv, RunnerKeepsInv DEF Step
<1>4. ASSUME NEW l \in Loads, HealthRow(l) PROVE LoaderInv'
  BY <1>4, HealthRowKeepsInv
<1>5. ASSUME NEW l \in Loads, NEW t \in Wanted, PollLands(l, t) PROVE LoaderInv'
  BY <1>5, PollKeepsInv
<1>6. CASE UNCHANGED vars
  BY <1>6 DEF vars, LoaderInv
<1> QED
  BY <1>1, <1>2, <1>3, <1>4, <1>5, <1>6 DEF Next

(* ... and so holds always. *)
LEMMA LoaderAlways == Spec => []LoaderInv
  BY LoaderStarts, LoaderSteps, PTL DEF Spec

(* A load that sets dataReady has settled every lifecycle of its tracker,  *)
(* whichever of its fetches failed and in whatever order they ended, so    *)
(* the page does not wait for one for ever; only an error that reads as an *)
(* abort leaves one running.                                               *)
THEOREM ReadyMeansFinished == Spec => []ReadyIsFinished
<1>1. LoaderInv => ReadyIsFinished
  <2> SUFFICES ASSUME LoaderInv PROVE ReadyIsFinished
    OBVIOUS
  <2>1. TypeOK
    BY DEF LoaderInv, TypeOK
  <2>2. ASSUME NEW l \in Loads, load[l].stage = "ready", NEW f \in Tracked
        PROVE  Done(load[l], f)
    <3>1. /\ EndsAreSettled(load[l]) /\ StageHolds(load[l]) /\ SizesFollow(load[l])
          /\ load[l].task \in [Wanted -> TaskStates]
      BY DEF LoaderInv, LoadInv, Load, TaskStates
    <3>2. CASE f \in Sizes
      <4>1. "codeEnvs" \in Priority
        BY <3>2, Kinds
      <4>2. load[l].task["codeEnvs"] = "over" /\ load[l].task[f] # "pending"
        BY <2>2, <3>1, <3>2, <4>1 DEF StageHolds
      <4> QED
        BY <2>2, <3>1, <3>2, <4>2 DEF SizesFollow
    <3>3. CASE f \in Health
      <4>1. f \in Wanted /\ load[l].task[f] \notin {"off", "pending"}
        BY <2>2, <3>1, <3>3, Kinds DEF StageHolds
      <4>2. load[l].task[f] \in {"ok", "failed", "over"}
        BY <3>1, <4>1 DEF TaskStates
      <4> QED
        BY <3>1, <4>2 DEF EndsAreSettled
    <3>4. CASE f \in Phase2 \cup Priority \cup Staged \cup Low
      <4>1. load[l].task[f] = "over"
        BY <2>2, <3>1, <3>4 DEF StageHolds
      <4> QED
        BY <3>1, <4>1 DEF EndsAreSettled
    <3> QED
      BY <3>2, <3>3, <3>4, Kinds
  <2>3. ReadyLeavesNothingPending
    BY <2>2 DEF ReadyLeavesNothingPending, Done
  <2> QED
    BY <2>1, <2>3 DEF ReadyIsFinished
<1> QED
  BY <1>1, LoaderAlways, PTL
-----------------------------------------------------------------------------
(* What torn-down loads bring to the page. *)

(* Page z has of a torn-down load only what it may still bring. *)
Honest(z) ==
    \A l \in Loads, t \in Wanted :
        (load[l].cancelled /\ l \in z.rows[t] /\ l \notin screen.rows[t])
            => \/ t \in load[l].has \/ t \in Sizes \/ t \in load[l].late

(* Merging a snapshot, when a torn-down load has put nothing more into it. *)
LEMMA MergedIsHonest ==
  ASSUME NEW s \in Screen, Honest(s), NEW l \in Loads, NEW r \in Load,
         load[l].cancelled => r.has = load[l].has
  PROVE  Honest(Merged(s, l, r))
<1>1. \A t \in Wanted : Merged(s, l, r).rows[t] = IF t \in r.has THEN {l} ELSE s.rows[t]
  BY Merges
<1> QED
  BY <1>1 DEF Honest

(* The same, from the page as it is. *)
LEMMA PublishIsHonest ==
  ASSUME LoaderInv, NEW l \in Loads, NEW r \in Load, load[l].cancelled => r.has = load[l].has,
         Publish(l, r) \/ Becomes(l, r, screen)
  PROVE  Honest(screen')
<1>1. screen \in Screen /\ Honest(screen)
  BY DEF LoaderInv, Honest
<1>2. CASE Publish(l, r)
  <2>1. screen' = Merged(screen, l, r)
    BY <1>2 DEF Publish, Becomes
  <2> QED
    BY <1>1, <2>1, MergedIsHonest
<1>3. CASE Becomes(l, r, screen)
  BY <1>1, <1>3 DEF Becomes
<1> QED
  BY <1>2, <1>3

(* Most steps fetch nothing for a torn-down load. *)
LEMMA PhasesAreHonest ==
  ASSUME LoaderInv, NEW l \in Loads,
         \/ Phase1Fails(l) \/ Phase1Ends(l) \/ Phase2Ends(l) \/ Phase3Starts(l)
         \/ StageTwo(l) \/ GatesPass(l) \/ Ready(l)
  PROVE  Honest(screen')
<1> DEFINE r == load[l]
<1>1. r \in Load /\ screen \in Screen /\ Honest(screen)
  BY DEF LoaderInv, Honest
<1>2. CASE Phase1Fails(l) \/ Ready(l)
  <2>1. screen'.rows = screen.rows
    <3>1. CASE Phase1Fails(l)
      <4>1. screen' = [screen EXCEPT !.error = TRUE, !.loading = FALSE]
        BY <3>1 DEF Phase1Fails, Becomes
      <4> QED
        BY <1>1, <4>1 DEF Screen
    <3>2. CASE Ready(l)
      <4>1. screen' = [screen EXCEPT !.ready = TRUE, !.loading = @ /\ r.cancelled]
        BY <3>2 DEF Ready, Becomes
      <4> QED
        BY <1>1, <4>1 DEF Screen
    <3> QED
      BY <1>2, <3>1, <3>2
  <2> QED
    BY <2>1 DEF Honest
<1>3. CASE screen' = screen
  BY <1>1, <1>3
<1>4. CASE Phase1Ends(l) /\ ~r.cancelled
  <2> DEFINE a == [r EXCEPT !.stage = "phase2"]
             b == Mark(a, Staged \cap Tracked, "queued")
             c == Launch(b, Phase2)
  <2>1. Publish(l, c)
    BY <1>4 DEF Phase1Ends
  <2>2. a \in Load /\ "queued" \in Phases /\ Phase2 \subseteq Wanted
    BY <1>1, Kinds DEF Load, Stages, Phases
  <2> HIDE DEF a
  <2>3. MarkedAs(b, a, Staged \cap Tracked, "queued")
    BY <2>2, Marks
  <2> HIDE DEF b
  <2>4. b \in Load
    BY <2>3 DEF MarkedAs
  <2>5. FiredAs(c, b, Phase2)
    BY <2>2, <2>4, Launches
  <2> HIDE DEF c
  <2>6. c \in Load
    BY <2>5 DEF FiredAs
  <2> QED
    BY <1>4, <2>1, <2>6, PublishIsHonest
<1>5. CASE Phase2Ends(l) /\ ~r.cancelled
  <2> DEFINE h == r.has \cup {t \in Phase2 : r.task[t] = "ok"}
             g == [t \in Wanted |-> IF t \in Phase2 THEN "over" ELSE r.task[t]]
             n == [r EXCEPT !.stage = "settings", !.has = h, !.task = g]
  <2>1. screen' = [Merged(screen, l, n) EXCEPT !.loading = FALSE]
    BY <1>5 DEF Phase2Ends, Becomes
  <2>2. h \in SUBSET Wanted /\ g \in [Wanted -> TaskStates]
    BY <1>1, Kinds DEF Load, TaskStates
  <2> HIDE DEF h, g
  <2>3. n \in Load
    BY <1>1, <2>2 DEF Load, Stages, TaskStates
  <2> HIDE DEF n
  <2>4. Merged(screen, l, n) \in Screen /\ Honest(Merged(screen, l, n))
    BY <1>1, <1>5, <2>3, Merges, MergedIsHonest
  <2>5. screen'.rows = Merged(screen, l, n).rows
    BY <2>1, <2>4 DEF Screen
  <2> QED
    BY <2>4, <2>5 DEF Honest
<1>6. ASSUME NEW st \in Stages, NEW T, T \subseteq Wanted, Publish(l, Launch([r EXCEPT !.stage = st], T))
      PROVE  Honest(screen')
  <2> DEFINE a == [r EXCEPT !.stage = st]
             c == Launch(a, T)
  <2>1. Publish(l, c)
    BY <1>6
  <2>2. a \in Load /\ a.has = r.has
    BY <1>1 DEF Load
  <2> HIDE DEF a
  <2>3. FiredAs(c, a, T)
    BY <1>6, <2>2, Launches
  <2> HIDE DEF c
  <2>4. c \in Load /\ c.has = r.has
    BY <2>2, <2>3 DEF FiredAs, SameBut
  <2> QED
    BY <2>1, <2>4, PublishIsHonest
<1>7. CASE Phase3Starts(l)
  <2>1. Publish(l, Launch([r EXCEPT !.stage = "phase3"], Priority \cup Health \cup Low))
    BY <1>7 DEF Phase3Starts
  <2>2. "phase3" \in Stages /\ Priority \cup Health \cup Low \subseteq Wanted
    BY Kinds DEF Stages
  <2> QED
    BY <1>6, <2>1, <2>2
<1>8. CASE StageTwo(l)
  <2>1. Publish(l, Launch([r EXCEPT !.stage = "staged"], Staged))
    BY <1>8 DEF StageTwo
  <2>2. "staged" \in Stages /\ Staged \subseteq Wanted
    BY Kinds DEF Stages
  <2> QED
    BY <1>6, <2>1, <2>2
<1>9. CASE ((Phase1Ends(l) \/ Phase2Ends(l)) /\ r.cancelled) \/ GatesPass(l)
  BY <1>3, <1>9 DEF Phase1Ends, Phase2Ends, GatesPass, Becomes
<1> QED
  BY <1>2, <1>4, <1>5, <1>7, <1>8, <1>9

(* Nor do the fetches that end, but for the sizes. *)
LEMMA FetchesAreHonest ==
  ASSUME LoaderInv, NEW l \in Loads, NEW t \in Wanted,
         SettleFirst(l, t) \/ SettleAndStore(l, t) \/ SettleTail(l, t)
  PROVE  Honest(screen')
<1> DEFINE r == load[l]
<1>1. r \in Load /\ screen \in Screen /\ Honest(screen)
  BY DEF LoaderInv, Honest
<1>2. CASE SettleFirst(l, t)
  <2>1. PICK o \in Outcomes(t) :
           LET n == Settled([r EXCEPT !.task[t] = IF o = "ok" THEN "ok" ELSE "failed", !.late = @ \ {t}], t, o)
           IN  Becomes(l, n, screen) \/ Publish(l, n)
    BY <1>2 DEF SettleFirst
  <2> DEFINE q == [r EXCEPT !.task[t] = IF o = "ok" THEN "ok" ELSE "failed", !.late = @ \ {t}]
             n == Settled(q, t, o)
  <2>2. Becomes(l, n, screen) \/ Publish(l, n)
    BY <2>1
  <2>3. q \in Load /\ q.has = r.has
    BY <1>1 DEF Load
  <2> HIDE DEF q
  <2>4. n \in Load /\ n.has = r.has
    BY <2>3, Settles
  <2> HIDE DEF n
  <2> QED
    BY <2>2, <2>4, PublishIsHonest
<1>3. CASE SettleAndStore(l, t)
  <2> DEFINE q == [r EXCEPT !.task[t] = "over", !.late = @ \ {t}]
  <2>1. PICK o \in Outcomes(t) :
           LET n == Stored(Settled(q, t, o), t, o) IN Becomes(l, n, screen) \/ Publish(l, n)
    BY <1>3 DEF SettleAndStore
  <2> DEFINE m == Settled(q, t, o)
             n == Stored(m, t, o)
  <2>2. Becomes(l, n, screen) \/ Publish(l, n)
    BY <2>1
  <2>3. q \in Load /\ q.has = r.has /\ q.cancelled = r.cancelled
    BY <1>1 DEF Load
  <2> HIDE DEF q
  <2>4. m \in Load /\ m.has = r.has /\ m.cancelled = r.cancelled
    BY <2>3, Settles
  <2> HIDE DEF m
  <2>5. n \in Load /\ (r.cancelled => n.has = r.has)
    BY <2>4 DEF Stored, Load
  <2> HIDE DEF n
  <2> QED
    BY <2>2, <2>5, PublishIsHonest
<1>4. CASE SettleTail(l, t)
  <2> DEFINE q == [r EXCEPT !.task[t] = "over"]
             S(o) == IF t \in Sizes /\ o = "ok" THEN [screen EXCEPT !.rows[t] = {l}] ELSE screen
  <2>1. PICK o \in Outcomes(t) :
           Becomes(l, Settled(q, t, o), IF o = "abort" THEN S(o) ELSE Merged(S(o), l, Settled(q, t, o)))
    BY <1>4 DEF SettleTail
  <2> DEFINE n == Settled(q, t, o)
             s == S(o)
  <2>2. screen' \in {s, Merged(s, l, n)}
    BY <2>1 DEF Becomes
  <2>3. s \in Screen /\ \A u \in Wanted : u \notin Sizes => s.rows[u] = screen.rows[u]
    BY <1>1, RowsAreRows
  <2> HIDE DEF S
  <2>4. Honest(s)
    BY <2>3 DEF Honest
  <2>5. q \in Load /\ q.has = r.has
    BY <1>1 DEF Load
  <2> HIDE DEF q
  <2>6. n \in Load /\ n.has = r.has
    BY <2>5, Settles
  <2> HIDE DEF n, s
  <2> QED
    BY <2>2, <2>3, <2>4, <2>6, MergedIsHonest
<1> QED
  BY <1>2, <1>3, <1>4

(* A poll in flight at the teardown brings its rows once more; a runner    *)
(* and the health stream look at `cancelled` first.                        *)
LEMMA RowsAreHonest ==
  ASSUME LoaderInv, NEW l \in Loads, NEW t \in Wanted,
         RunnerEnds(l, t) \/ PollLands(l, t) \/ HealthRow(l)
  PROVE  Honest(screen')
<1> DEFINE r == load[l]
<1>1. r \in Load /\ LoadInv(r) /\ screen \in Screen /\ Honest(screen)
  BY DEF LoaderInv, Honest
<1>2. CASE RunnerEnds(l, t) /\ r.cancelled
  BY <1>1, <1>2 DEF RunnerEnds, Becomes
<1>3. CASE RunnerEnds(l, t) /\ ~r.cancelled
  <2>1. PICK recovered \in BOOLEAN :
          LET m == IF t = "codeEnvs" THEN CodeEnvsEnd(r, recovered) ELSE FootprintEnd(r)
          IN  Publish(l, [m EXCEPT !.task[t] = "over"])
    BY <1>3 DEF RunnerEnds
  <2> DEFINE m == IF t = "codeEnvs" THEN CodeEnvsEnd(r, recovered) ELSE FootprintEnd(r)
             n == [m EXCEPT !.task[t] = "over"]
  <2>2. Publish(l, n) /\ t \in Priority /\ r.task[t] \in {"ok", "failed"}
    BY <1>3, <2>1 DEF RunnerEnds
  <2>3. LoadInv(n)
    BY <1>1, <1>3, <2>2, RunnerStores
  <2>4. n \in Load
    BY <2>3 DEF LoadInv
  <2> HIDE DEF n
  <2> QED
    BY <1>3, <2>2, <2>4, PublishIsHonest
<1>4. CASE PollLands(l, t)
  <2> DEFINE n == [r EXCEPT !.late = @ \ {t}]
             s == [screen EXCEPT !.rows[t] = @ \cup {l}]
  <2>1. /\ Becomes(l, n, screen) \/ Becomes(l, n, s) \/ Publish(l, n)
        /\ ~r.cancelled \/ t \in r.late
    BY <1>4 DEF PollLands
  <2>2. n \in Load /\ n.has = r.has
    BY <1>1 DEF Load
  <2>3. \A u \in Wanted : s.rows[u] = IF u = t THEN screen.rows[u] \cup {l} ELSE screen.rows[u]
    BY <1>1 DEF Screen
  <2> HIDE DEF n, s
  <2>4. Honest(s)
    BY <2>1, <2>3 DEF Honest
  <2>5. CASE Becomes(l, n, s)
    BY <2>4, <2>5 DEF Becomes
  <2> QED
    BY <2>1, <2>2, <2>5, PublishIsHonest
<1>5. CASE HealthRow(l)
  <2>1. PICK u \in Health : ~r.cancelled /\ screen' = [screen EXCEPT !.rows[u] = {l}]
    BY <1>5 DEF HealthRow, Becomes
  <2>2. u \in Wanted
    BY Kinds
  <2>3. \A v \in Wanted : screen'.rows[v] = IF v = u THEN {l} ELSE screen.rows[v]
    BY <1>1, <2>1, <2>2, RowsAreRows
  <2> QED
    BY <2>1, <2>3 DEF Honest
<1> QED
  BY <1>2, <1>3, <1>4, <1>5

(* The teardown only sets `cancelled`, yet no result a torn-down load      *)
(* fetches afterwards reaches the page, the code-env sizes and the rows of *)
(* a poll already in flight excepted.                                      *)
THEOREM TornDownLoadsAreQuiet == Spec => TornDownBringsNothingNew
<1>1. LoaderInv /\ Next => Honest(screen')
  <2> SUFFICES ASSUME LoaderInv, Next PROVE Honest(screen')
    OBVIOUS
  <2>1. CASE Reload
    <3>1. screen'.rows = screen.rows
      BY <2>1 DEF Reload, LoaderInv, Screen
    <3> QED
      BY <3>1 DEF Honest
  <2>2. CASE LeaveHost
    BY <2>2 DEF LeaveHost, Honest
  <2>3. ASSUME NEW l \in Loads, Step(l) PROVE Honest(screen')
    BY <2>3, PhasesAreHonest, FetchesAreHonest, RowsAreHonest DEF Step
  <2>4. ASSUME NEW l \in Loads, HealthRow(l) PROVE Honest(screen')
    <3>1. \E t \in Wanted : TRUE
      BY <2>4, Kinds DEF HealthRow
    <3> QED
      BY <2>4, <3>1, RowsAreHonest
  <2>5. ASSUME NEW l \in Loads, NEW t \in Wanted, PollLands(l, t) PROVE Honest(screen')
    BY <2>5, RowsAreHonest
  <2> QED
    BY <2>1, <2>2, <2>3, <2>4, <2>5 DEF Next
<1>2. LoaderInv /\ [Next]_vars
        => [\A l \in Loads, t \in Wanted :
               (load[l].cancelled /\ l \in screen'.rows[t] /\ l \notin screen.rows[t])
                   => \/ t \in load[l].has \/ t \in Sizes \/ t \in load[l].late]_vars
  BY <1>1 DEF Honest
<1> QED
  BY <1>2, LoaderAlways, PTL DEF Spec, TornDownBringsNothingNew
=============================================================================
