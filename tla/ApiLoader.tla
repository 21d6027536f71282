------------------------------ MODULE ApiLoader ------------------------------
(***************************************************************************)
(* The page's live load (hooks/useApiDataLoader.ts and hooks/apiLoader/):  *)
(* the phases of run(), the fetches it fires, the lifecycle tracker with   *)
(* its accumulating snapshot, and the reducer's parsedData it writes to.   *)
(* A reload, or leaving the host, tears the effect down: that only sets    *)
(* `cancelled`, so several loads may be under way on one page.             *)
(*                                                                         *)
(* An endpoint's data is abstracted to the loads it came from, a lifecycle *)
(* to its phase; done and error are both "settled".                        *)
(***************************************************************************)
EXTENDS Naturals, FiniteSets

CONSTANTS
    Wanted,    \* the endpoints an instance follows; the others answer at once
    AbortProne, \* bound: those whose error may read as an abort
    MaxLoads   \* bound on the loads of one page

Endpoints == {"connections", "users", "audit", "plugins", "javaMemory", "mail",
              "codeEnvs", "sizes", "footprint", "llmAudit", "pluginUsages",
              "health", "logs"}

(* The sizes are asked for at the end of the code-env scan only. *)
ASSUME LoaderAssumption ==
    /\ Wanted \subseteq Endpoints /\ AbortProne \subseteq Wanted
    /\ "sizes" \in Wanted => "codeEnvs" \in Wanted
    /\ MaxLoads \in Nat \ {0}

Loads == 1..MaxLoads

(* Phase 2, and the gates of phase 3. *)
Phase2 == Wanted \cap {"connections", "users", "audit", "plugins", "javaMemory", "mail"}
Priority == Wanted \cap {"codeEnvs", "footprint"}
Staged == Wanted \cap {"llmAudit", "pluginUsages"}
Health == Wanted \cap {"health"}
Low == Wanted \cap {"logs"}
Sizes == Wanted \cap {"sizes"}

(* Scans whose progress is polled beside them. *)
Polled == Wanted \cap {"codeEnvs", "footprint", "llmAudit"}

(* Fetches that go through track() and own a lifecycle field. *)
Tracked == Wanted \ {"javaMemory", "mail", "pluginUsages"}

(* Fetches whose failure writes their data, too (an empty result). *)
Blanked == {"logs", "pluginUsages"}

Phases == {"none", "queued", "running", "settled"}
Stages == {"off", "overview", "phase2", "settings", "phase3", "staged", "tails",
           "ready", "ended"}

VARIABLES
    current,  \* loads begun so far: the effect's latest
    enabled,  \* a host is chosen and the effect is set up
    load,     \* every load: where run() is, its fetches, its tracker
    screen    \* the reducer's state

vars == <<current, enabled, load, screen>>

Load == [stage : Stages, cancelled : BOOLEAN,
         task : [Wanted -> {"off", "pending", "ok", "failed", "over"}],
         life : [Tracked -> Phases],  \* currentParsedData: the lifecycles
         has : SUBSET Wanted,         \* currentParsedData: the data
         late : SUBSET Polled,        \* progress polls in flight at the teardown
         abortLike : SUBSET Tracked]  \* rejected with an error that reads as an abort

Screen == [loading : BOOLEAN, error : BOOLEAN, ready : BOOLEAN,
           life : [Tracked -> Phases], rows : [Wanted -> SUBSET Loads]]

TypeOK ==
    /\ current \in 0..MaxLoads
    /\ enabled \in BOOLEAN
    /\ load \in [Loads -> Load]
    /\ screen \in Screen

NoLoad == [stage |-> "off", cancelled |-> FALSE, task |-> [t \in Wanted |-> "off"],
           life |-> [f \in Tracked |-> "none"], has |-> {}, late |-> {},
           abortLike |-> {}]

Init ==
    /\ current = 0
    /\ enabled = FALSE
    /\ load = [l \in Loads |-> NoLoad]
    /\ screen = [loading |-> FALSE, error |-> FALSE, ready |-> FALSE,
                 life |-> [f \in Tracked |-> "none"],
                 rows |-> [t \in Wanted |-> {}]]

-----------------------------------------------------------------------------
(* The tracker.                                                            *)

Mark(r, fields, phase) ==
    [r EXCEPT !.life = [f \in Tracked |-> IF f \in fields THEN phase ELSE @[f]]]

(* Fire these fetches; track() opens `running`. *)
Launch(r, tasks) ==
    Mark([r EXCEPT !.task = [t \in Wanted |-> IF t \in tasks THEN "pending" ELSE @[t]]],
         tasks \cap Tracked, "running")

(* SET_PARSED_DATA with the whole snapshot, merged into what is shown.     *)
Merged(s, l, r) ==
    [s EXCEPT !.life = [f \in Tracked |->
                          IF r.life[f] = "none" THEN @[f] ELSE r.life[f]],
              !.rows = [t \in Wanted |-> IF t \in r.has THEN {l} ELSE @[t]]]

(* A torn-down load from which nothing more will come. *)
Spent(r) ==
    /\ r.cancelled /\ r.stage = "ended"
    /\ \A t \in Wanted : r.task[t] # "pending"
    /\ \A t \in Priority : r.task[t] \in {"off", "over"}

Forgotten(r) == [NoLoad EXCEPT !.stage = "ended", !.cancelled = TRUE,
                               !.abortLike = r.abortLike]

Becomes(l, r, s) ==
    /\ load' = [load EXCEPT ![l] = IF Spent(r) THEN Forgotten(r) ELSE r]
    /\ screen' = s
    /\ UNCHANGED <<current, enabled>>

Publish(l, r) == Becomes(l, r, Merged(screen, l, r))

-----------------------------------------------------------------------------
(* The effect.                                                             *)

(* The clean-up function: nothing but the flag.  A progress poll may be in *)
(* flight, it is not aborted.                                              *)
TornDown(r, late) == [r EXCEPT !.cancelled = TRUE, !.late = late]

(* Mutant: whatever is in flight at the teardown counts as a poll.         *)
PollingAll(r) == {t \in Wanted : r.task[t] = "pending"}

Polling(r) == {t \in Polled : r.task[t] = "pending"}

(* The host is chosen, or Refresh or an unlocked key reloads. *)
Reload ==
    /\ current < MaxLoads
    /\ current' = current + 1
    /\ enabled' = TRUE
    /\ \E late \in SUBSET (IF enabled THEN Polling(load[current]) ELSE {}) :
        load' = [l \in Loads |->
                    IF l = current + 1 THEN [NoLoad EXCEPT !.stage = "overview"]
                    ELSE IF enabled /\ l = current THEN TornDown(load[l], late)
                    ELSE load[l]]
    /\ screen' = [screen EXCEPT !.loading = TRUE, !.error = FALSE]

(* Back to the hosts, or a missing macro project sends the user there. *)
LeaveHost ==
    /\ enabled
    /\ enabled' = FALSE
    /\ \E late \in SUBSET Polling(load[current]) :
        load' = [load EXCEPT ![current] = TornDown(@, late)]
    /\ UNCHANGED <<current, screen>>

-----------------------------------------------------------------------------
(* run()                                                                   *)

(* Mutant: the error is shown and the spinner is forgotten.                *)
Phase1FailsSpinning(l) ==
    /\ load[l].stage = "overview"
    /\ Becomes(l, [load[l] EXCEPT !.stage = "ended"], [screen EXCEPT !.error = TRUE])

(* /api/overview fails: the catch block does not look at `cancelled`. *)
Phase1Fails(l) ==
    /\ load[l].stage = "overview"
    /\ Becomes(l, [load[l] EXCEPT !.stage = "ended"],
               [screen EXCEPT !.error = TRUE, !.loading = FALSE])

(* The overview is shown, the tracker begins with it, and phase 2 fires.   *)
Phase1Ends(l) ==
    /\ load[l].stage = "overview"
    /\ IF load[l].cancelled
       THEN Becomes(l, [load[l] EXCEPT !.stage = "ended"], screen)
       ELSE Publish(l, Launch(Mark([load[l] EXCEPT !.stage = "phase2"],
                                   Staged \cap Tracked, "queued"), Phase2))

(* All six have settled: their data is kept and the page is released. *)
Phase2Ends(l) ==
    LET r == load[l] IN
    /\ r.stage = "phase2"
    /\ \A t \in Phase2 : r.task[t] # "pending"
    /\ LET new == [r EXCEPT
                !.stage = "settings",
                !.has = @ \cup {t \in Phase2 : r.task[t] = "ok"},
                !.task = [t \in Wanted |-> IF t \in Phase2 THEN "over" ELSE @[t]]]
       IN  IF r.cancelled
           THEN Becomes(l, [r EXCEPT !.stage = "ended"], screen)
           ELSE Becomes(l, new, [Merged(screen, l, new) EXCEPT !.loading = FALSE])

(* /api/settings has answered or failed: phase 3 fires, cancelled or not. *)
Phase3Starts(l) ==
    /\ load[l].stage = "settings"
    /\ Publish(l, Launch([load[l] EXCEPT !.stage = "phase3"], Priority \cup Health \cup Low))

(* priorityGate.then: the staged scans, cancelled or not. *)
StageTwo(l) ==
    /\ load[l].stage = "phase3"
    /\ \A t \in Priority : load[l].task[t] = "over"
    /\ Publish(l, Launch([load[l] EXCEPT !.stage = "staged"], Staged))

(* heavyGate and lowGate. *)
GatesPass(l) ==
    /\ load[l].stage = "staged"
    /\ \A t \in Staged \cup Low : load[l].task[t] = "over"
    /\ Becomes(l, [load[l] EXCEPT !.stage = IF load[l].cancelled THEN "ended" ELSE "tails"],
               screen)

(* The tails have settled: dataReady. *)
Ready(l) ==
    /\ load[l].stage = "tails"
    /\ \A t \in Health \cup Sizes : load[l].task[t] # "pending"
    /\ Becomes(l, [load[l] EXCEPT !.stage = "ready"],
               [screen EXCEPT !.ready = TRUE,
                              !.loading = @ /\ load[l].cancelled])

-----------------------------------------------------------------------------
(* The fetches.                                                            *)

(* Mutant: track() leaves the lifecycle of a cancelled load alone.         *)
SettledUnlessCancelled(r, t, outcome) ==
    IF t \notin Tracked \/ r.cancelled THEN r
    ELSE IF outcome = "abort" THEN [r EXCEPT !.abortLike = @ \cup {t}]
    ELSE Mark(r, {t}, "settled")

(* track() settles the lifecycle, cancelled or not; an error that reads as *)
(* an abort leaves it running.                                             *)
Settled(r, t, outcome) ==
    IF t \notin Tracked THEN r
    ELSE IF outcome = "abort" THEN [r EXCEPT !.abortLike = @ \cup {t}]
    ELSE Mark(r, {t}, "settled")

Outcomes(t) == {"ok", "failed"} \cup IF t \in AbortProne THEN {"abort"} ELSE {}

(* A fetch whose result waits for the end of phase 2, or for its progress  *)
(* poll to stop.                                                           *)
SettleFirst(l, t) ==
    /\ t \in Phase2 \cup Priority
    /\ load[l].task[t] = "pending"
    /\ \E o \in Outcomes(t) :
        LET r == Settled([load[l] EXCEPT !.task[t] = IF o = "ok" THEN "ok" ELSE "failed",
                                         !.late = @ \ {t}], t, o)
        IN  IF r.life = load[l].life THEN Becomes(l, r, screen) ELSE Publish(l, r)

(* Mutant: the runner stores its result whether or not it was cancelled.   *)
StoredAlways(r, t, o) ==
    IF o # "ok" /\ t \notin Blanked THEN r
    ELSE [r EXCEPT !.has = @ \cup {t}]

(* The rest of a runner: its data, unless the load was cancelled.          *)
Stored(r, t, o) ==
    IF r.cancelled \/ (o # "ok" /\ t \notin Blanked) THEN r
    ELSE [r EXCEPT !.has = @ \cup {t}]

(* The staged and the low-priority runners go on at once. *)
SettleAndStore(l, t) ==
    /\ t \in Staged \cup Low
    /\ load[l].task[t] = "pending"
    /\ \E o \in Outcomes(t) :
        LET r == Stored(Settled([load[l] EXCEPT !.task[t] = "over", !.late = @ \ {t}], t, o), t, o)
        IN  IF r.life = load[l].life /\ r.has = load[l].has
            THEN Becomes(l, r, screen) ELSE Publish(l, r)

(* The health stream: rows go to the page past the tracker, until the load *)
(* is cancelled.                                                           *)
HealthRow(l) ==
    /\ \E t \in Health :
        /\ load[l].task[t] = "pending" /\ ~load[l].cancelled
        /\ Becomes(l, load[l], [screen EXCEPT !.rows[t] = {l}])

(* The health stream ends, or the sizes arrive; the latter are shown       *)
(* whatever has become of the load.                                        *)
SettleTail(l, t) ==
    /\ t \in Health \cup Sizes
    /\ load[l].task[t] = "pending"
    /\ \E o \in Outcomes(t) :
        LET r == Settled([load[l] EXCEPT !.task[t] = "over"], t, o)
            s == IF t \in Sizes /\ o = "ok" THEN [screen EXCEPT !.rows[t] = {l}] ELSE screen
        IN  Becomes(l, r, IF o = "abort" THEN s ELSE Merged(s, l, r))

(* A progress poll lands while its scan runs, be the load torn down or     *)
(* not: the rows not shown yet are appended, or the audit's running        *)
(* lifecycle is written again, and the whole snapshot with it.             *)
PollLands(l, t) ==
    LET r == load[l]
        new == [r EXCEPT !.late = @ \ {t}]
    IN
    /\ t \in Polling(r)
    /\ ~r.cancelled \/ t \in r.late
    /\ \/ Becomes(l, new, screen)
       \/ /\ t \in Priority
          /\ Becomes(l, new, [screen EXCEPT !.rows[t] = @ \cup {l}])
       \/ /\ t \in Staged
          /\ Publish(l, new)

(* Mutant: a failed code-env scan leaves the sizes' lifecycle alone.       *)
CodeEnvsEndForgets(r, recovered) ==
    IF r.task["codeEnvs"] = "ok" \/ recovered
    THEN Launch([r EXCEPT !.has = @ \cup {"codeEnvs"}], Sizes)
    ELSE r

(* The end of runCodeEnvs: the scan's rows, or those recovered from its    *)
(* progress, and then the sizes; otherwise the sizes are done, for they    *)
(* will not be asked for.  What the buffer of recovered rows holds is      *)
(* ProgressStream's matter; here it may be empty or not.                   *)
CodeEnvsEnd(r, recovered) ==
    IF r.task["codeEnvs"] = "ok" \/ recovered
    THEN Launch(Mark([r EXCEPT !.has = @ \cup {"codeEnvs"}],
                     {"codeEnvs"}, "settled"), Sizes)
    ELSE Mark(r, Sizes, "settled")

FootprintEnd(r) ==
    IF r.task["footprint"] = "ok" THEN [r EXCEPT !.has = @ \cup {"footprint"}] ELSE r

(* The poll has stopped and the runner goes on. *)
RunnerEnds(l, t) ==
    LET r == load[l] IN
    /\ t \in Priority /\ r.task[t] \in {"ok", "failed"}
    /\ IF r.cancelled THEN Becomes(l, [r EXCEPT !.task[t] = "over"], screen)
       ELSE \E recovered \in BOOLEAN :
            LET new == IF t = "codeEnvs" THEN CodeEnvsEnd(r, recovered) ELSE FootprintEnd(r)
            IN  Publish(l, [new EXCEPT !.task[t] = "over"])

-----------------------------------------------------------------------------

Step(l) ==
    \/ Phase1Fails(l) \/ Phase1Ends(l) \/ Phase2Ends(l) \/ Phase3Starts(l)
    \/ StageTwo(l) \/ GatesPass(l) \/ Ready(l)
    \/ \E t \in Wanted : \/ SettleFirst(l, t) \/ SettleAndStore(l, t)
                         \/ SettleTail(l, t) \/ RunnerEnds(l, t)

Next ==
    \/ Reload
    \/ LeaveHost
    \/ \E l \in Loads : \/ Step(l)
                        \/ HealthRow(l)
                        \/ \E t \in Wanted : PollLands(l, t)

Spec == Init /\ [][Next]_vars

(* Every request is answered, refused or timed out, and promises go on.    *)
(* A load has finitely many steps, so fairness to all of them together is  *)
(* fairness to each.                                                       *)
FairSpec == Spec /\ WF_vars(\E l \in Loads : Step(l))

-----------------------------------------------------------------------------
(* Properties.                                                             *)

(* A load that declares the page ready leaves no lifecycle of its tracker  *)
(* queued or running, whatever failed on the way, so "Analysis complete"   *)
(* can be reached; an error that reads as an abort is the one exception.   *)
ReadyLeavesNothingPending ==
    \A l \in Loads : load[l].stage = "ready" =>
        \A f \in Tracked : load[l].life[f] = "settled" \/ f \in load[l].abortLike

(* Loads and page are well formed, and ready means finished.               *)
ReadyIsFinished == TypeOK /\ ReadyLeavesNothingPending

(* What a torn-down load may still bring to the page: its old snapshot     *)
(* again, the code-env sizes and the rows of one late poll, and nothing    *)
(* else it fetched.                                                        *)
TornDownBringsNothingNew ==
    [][\A l \in Loads, t \in Wanted :
        (load[l].cancelled /\ l \in screen'.rows[t] /\ l \notin screen.rows[t])
            => \/ t \in load[l].has \/ t \in Sizes \/ t \in load[l].late]_vars

(* "a started-but-never-finished glyph is impossible", however loads       *)
(* overlap and whichever snapshot is on the page, except after an error    *)
(* that reads as an abort.                                                 *)
GlyphsStop ==
    \A f \in Tracked :
        screen.life[f] = "running" ~>
            (screen.life[f] # "running" \/ \E l \in Loads : f \in load[l].abortLike)

(* The spinner over the page goes: by the load that raised it, unless the  *)
(* user leaves the host.                                                   *)
SpinnerGoes == (screen.loading /\ enabled) ~> (~screen.loading \/ ~enabled)

(* Whatever the page shows in progress comes to an end.                    *)
LoadingEnds == GlyphsStop /\ SpinnerGoes

(* "True once the effect tore down (reload/unmount) - chains bail out on   *)
(* it": once the current load has written a lifecycle or a result, the     *)
(* page shows that one.                                                    *)
PageShowsCurrentLoad ==
    enabled =>
        /\ \A f \in Tracked : load[current].life[f] \in {"none", screen.life[f]}
        /\ \A t \in load[current].has : screen.rows[t] = {current}

=============================================================================
