--------------------------- MODULE HeadlessSessions ---------------------------
(***************************************************************************)
(* The Headless reasoning service, python-lib/adk_backend/headless_service.py: *)
(* a table of conversations shared by two kinds of actor. Request threads  *)
(* submit, stop and read under one lock; each conversation's runner is a   *)
(* coroutine of one event loop that sends a message to Cobuild, waits for  *)
(* the answer and then for the next message. A request thread reaches a    *)
(* runner only by scheduling a put on its one-place queue.                 *)
(***************************************************************************)
EXTENDS Naturals, Sequences, FiniteSets

CONSTANTS
    Ids,          \* task ids
    MaxSessions,  \* MAX_SESSIONS
    TableCap,     \* 128, the table's size before old records make room
    MaxRevision,  \* bound on the follow-up messages of a conversation
    MaxPuts,      \* bound on the puts scheduled at a time (repeated stops)
    Wake          \* the empty message stop() puts

ASSUME HeadlessAssumption ==
    /\ MaxSessions \in Nat \ {0} /\ TableCap \in Nat /\ MaxSessions <= TableCap
    /\ MaxRevision \in Nat /\ MaxPuts \in Nat
    /\ Wake \notin Nat

(* The message of revision r is r itself. *)
Message == (0..MaxRevision) \cup {Wake}

Row == [pc : {"new", "scheduled", "opening", "check", "turn", "idle", "closing", "ended"},
        status : {"pending", "completed", "unknown", "failed"},
        revision : 0..MaxRevision,
        stopped : BOOLEAN,
        queue : {<<>>} \cup {<<m>> : m \in Message},
        puts : Seq(Message),     \* put_nowait calls scheduled on the loop
        asking : Message,        \* the message the runner has in hand
        answered : Message,      \* the message row.message answers
        exit : {"none", "unknown", "failed"},   \* why the runner is closing
        worker : BOOLEAN,        \* sdk_pending: a blocking SDK call runs
        retire : BOOLEAN,        \* a _retire_upstream callback is scheduled
        conversation : BOOLEAN,  \* upstream still keeps the conversation
        old : BOOLEAN,           \* IDLE_SECONDS since row.touched
        sent : SUBSET Message]   \* history: messages sent to Cobuild

VARIABLES
    row,    \* every session ever created (a runner keeps its row)
    table   \* the keys of _SESSIONS

vars == <<row, table>>

TypeOK ==
    /\ row \in [Ids -> Row]
    /\ table \subseteq Ids

Fresh == [pc |-> "new", status |-> "pending", revision |-> 0, stopped |-> FALSE,
          queue |-> <<>>, puts |-> <<>>, asking |-> 0, answered |-> Wake, exit |-> "none",
          worker |-> FALSE, retire |-> FALSE, conversation |-> FALSE, old |-> FALSE,
          sent |-> {}]

Init ==
    /\ row = [i \in Ids |-> Fresh]
    /\ table = {}

Active(i) == row[i].pc \notin {"new", "ended"}

(* Mutant: a session stops counting when its runner ends. *)
BusyWhileRunning(i) == Active(i)

(* active or sdk_pending: what counts against MAX_SESSIONS. *)
Busy(i) == Active(i) \/ row[i].worker

Update(i, r) == row' = [row EXCEPT ![i] = r]

-----------------------------------------------------------------------------
(* Request threads. Every submit first drops the records that are retired  *)
(* and were last touched an hour ago, whether it is accepted or not.       *)

(* Mutant: an old record is dropped whether or not it is busy. *)
PurgedWhenOld == {i \in table : row[i].old}

Purged == {i \in table : ~Busy(i) /\ row[i].old}
Kept == table \ Purged

(* At the table's cap one retired record makes room (the longest untouched; *)
(* here any).                                                              *)
Evictable == {{i} : i \in {j \in Kept : ~Busy(j)}}

Evictions ==
    IF Cardinality(Kept) < TableCap \/ Evictable = {} THEN {{}} ELSE Evictable

(* submit of a first message: _run is scheduled on the loop. *)
SubmitNew(i) ==
    /\ row[i].pc = "new"
    /\ Cardinality({j \in Kept : Busy(j)}) < MaxSessions
    /\ \E evicted \in Evictions : table' = (Kept \ evicted) \cup {i}
    /\ Update(i, [row[i] EXCEPT !.pc = "scheduled"])

(* Mutant: a follow-up is accepted while the last one is pending. *)
AcceptedUnlessStopped(i, revision) == ~row[i].stopped /\ row[i].revision = revision

(* A follow-up must name a completed turn by its revision. *)
Accepted(i, revision) ==
    ~row[i].stopped /\ row[i].status = "completed" /\ row[i].revision = revision

(* Mutant: the follow-up is recorded and never given to the loop. *)
SubmitNextUnqueued(i, revision) ==
    /\ i \in Kept
    /\ Accepted(i, revision)
    /\ row[i].revision < MaxRevision
    /\ table' = Kept
    /\ Update(i, [row[i] EXCEPT !.status = "pending", !.revision = @ + 1])

SubmitNext(i, revision) ==
    /\ i \in Kept
    /\ Accepted(i, revision)
    /\ row[i].revision < MaxRevision /\ Len(row[i].puts) < MaxPuts
    /\ table' = Kept
    /\ Update(i, [row[i] EXCEPT !.status = "pending", !.revision = @ + 1,
                                !.puts = Append(@, row[i].revision + 1)])

(* Any refusal: capacity, unknown task, wrong revision, stopped, pending. *)
SubmitRefused ==
    /\ table' = Kept
    /\ UNCHANGED row

(* Mutant: stop marks the row and leaves the runner asleep. *)
StopWithoutWake(i) ==
    /\ i \in table /\ Len(row[i].puts) < MaxPuts
    /\ Update(i, [row[i] EXCEPT !.stopped = TRUE,
                                !.status = IF @ = "pending" THEN "unknown" ELSE @])
    /\ UNCHANGED table

(* stop: give up on a pending turn and wake a runner whose queue exists    *)
(* and is empty at this moment.                                            *)
Stop(i) ==
    /\ i \in table /\ Len(row[i].puts) < MaxPuts
    /\ Update(i, [row[i] EXCEPT !.stopped = TRUE,
                                !.status = IF @ = "pending" THEN "unknown" ELSE @,
                                !.puts = IF row[i].pc # "scheduled" /\ row[i].queue = <<>>
                                         THEN Append(@, Wake) ELSE @])
    /\ UNCHANGED table

-----------------------------------------------------------------------------
(* The event loop. *)

(* Mutant: the queue has no size limit. *)
RunPutUnbounded(i) ==
    /\ row[i].puts # <<>>
    /\ Update(i, [row[i] EXCEPT !.puts = Tail(@), !.queue = Append(@, Head(row[i].puts))])
    /\ UNCHANGED table

(* A scheduled put; a full queue raises inside the callback, which drops it. *)
RunPut(i) ==
    /\ row[i].puts # <<>>
    /\ Update(i, [row[i] EXCEPT !.puts = Tail(@),
                                !.queue = IF @ = <<>> THEN <<Head(row[i].puts)>> ELSE @])
    /\ UNCHANGED table

(* _run begins: the queue exists from here on; open the conversation. *)
RunnerStarts(i) ==
    /\ row[i].pc = "scheduled"
    /\ Update(i, [row[i] EXCEPT !.pc = "opening", !.worker = TRUE])
    /\ UNCHANGED table

Opened(i) ==
    /\ row[i].pc = "opening"
    /\ Update(i, [row[i] EXCEPT !.pc = "check", !.worker = FALSE, !.conversation = TRUE])
    /\ UNCHANGED table

(* Without a conversation an exception means "failed" and an expired wait  *)
(* "unknown"; the abandoned worker goes on.                                *)
OpenFails(i) ==
    /\ row[i].pc = "opening"
    /\ \E expired \in BOOLEAN :
          Update(i, [row[i] EXCEPT !.pc = "closing", !.worker = expired,
                                   !.exit = IF expired THEN "unknown" ELSE "failed"])
    /\ UNCHANGED table

(* Mutant: the loop does not look at row.stopped. *)
SendAlways(i) ==
    /\ row[i].pc = "check"
    /\ Update(i, [row[i] EXCEPT !.pc = "turn", !.worker = TRUE, !.sent = @ \cup {row[i].asking}])
    /\ UNCHANGED table

(* while not row.stopped: send the message in hand. *)
Send(i) ==
    /\ row[i].pc = "check"
    /\ Update(i, IF row[i].stopped THEN [row[i] EXCEPT !.pc = "closing"]
                 ELSE [row[i] EXCEPT !.pc = "turn", !.worker = TRUE,
                                     !.sent = @ \cup {row[i].asking}])
    /\ UNCHANGED table

(* The answer arrives, at once or while polling: publish it under the lock,*)
(* whatever stop() said meanwhile.                                         *)
TurnCompletes(i) ==
    /\ row[i].pc = "turn"
    /\ Update(i, [row[i] EXCEPT !.pc = "idle", !.worker = FALSE, !.status = "completed",
                                !.answered = row[i].asking, !.old = FALSE])
    /\ UNCHANGED table

(* Mutant: an expired wait sends the message again. *)
TurnIsRetried(i) ==
    /\ row[i].pc = "turn"
    /\ Update(i, [row[i] EXCEPT !.pc = "check"])
    /\ UNCHANGED table

(* The turn fails for good (a terminal answer that is no answer), or its   *)
(* outcome is unknown: 300 s are up, polling saw row.stopped, or the       *)
(* transport broke. Only in the second case may its worker still run.      *)
TurnEnds(i) ==
    /\ row[i].pc = "turn"
    /\ \/ Update(i, [row[i] EXCEPT !.pc = "closing", !.worker = FALSE, !.exit = "failed"])
       \/ \E running \in BOOLEAN :
             Update(i, [row[i] EXCEPT !.pc = "closing", !.worker = running, !.exit = "unknown"])
    /\ UNCHANGED table

(* queue.get() returns the next message, or '' after a stop. *)
NextMessage(i) ==
    /\ row[i].pc = "idle" /\ row[i].queue # <<>>
    /\ Update(i, [row[i] EXCEPT !.pc = "check", !.asking = Head(row[i].queue), !.queue = <<>>])
    /\ UNCHANGED table

(* ... or an hour passes: leave the loop and close the MCP client. *)
IdleTimesOut(i) ==
    /\ row[i].pc = "idle" /\ row[i].queue = <<>> /\ row[i].old
    /\ Update(i, [row[i] EXCEPT !.pc = "closing"])
    /\ UNCHANGED table

(* Mutant: the conversation is forgotten whoever still uses it. *)
FinishForgets(i) ==
    /\ row[i].pc = "closing"
    /\ Update(i, [row[i] EXCEPT !.pc = "ended", !.stopped = TRUE,
                                !.status = IF row[i].exit = "none" THEN @ ELSE row[i].exit,
                                !.conversation = FALSE])
    /\ UNCHANGED table

(* The except and finally clauses, once the client is closed: report,      *)
(* become inactive, forget the conversation unless a worker still runs.    *)
Finish(i) ==
    /\ row[i].pc = "closing"
    /\ Update(i, [row[i] EXCEPT !.pc = "ended", !.stopped = TRUE,
                                !.status = IF row[i].exit = "none" THEN @ ELSE row[i].exit,
                                !.conversation = @ /\ row[i].worker])
    /\ UNCHANGED table

(* An abandoned worker comes back and schedules the retirement. *)
WorkerFinishes(i) ==
    /\ row[i].worker /\ row[i].pc \in {"closing", "ended"}
    /\ Update(i, [row[i] EXCEPT !.worker = FALSE, !.retire = TRUE])
    /\ UNCHANGED table

(* _retire_upstream: only once the runner and its worker are done. *)
RetireUpstream(i) ==
    /\ row[i].retire
    /\ Update(i, [row[i] EXCEPT !.retire = FALSE, !.conversation = @ /\ Busy(i)])
    /\ UNCHANGED table

-----------------------------------------------------------------------------
(* Time. *)

HourPasses(i) ==
    /\ row[i].pc # "new" /\ ~row[i].old
    /\ Update(i, [row[i] EXCEPT !.old = TRUE])
    /\ UNCHANGED table

Request ==
    \/ SubmitRefused
    \/ \E i \in Ids : SubmitNew(i) \/ Stop(i) \/ \E r \in 0..MaxRevision : SubmitNext(i, r)

Runner(i) ==
    \/ RunnerStarts(i) \/ Opened(i) \/ OpenFails(i) \/ Send(i)
    \/ TurnCompletes(i) \/ TurnEnds(i) \/ NextMessage(i) \/ Finish(i)

Worker(i) == WorkerFinishes(i) \/ RetireUpstream(i)

Next ==
    \/ Request
    \/ \E i \in Ids :
          RunPut(i) \/ Runner(i) \/ Worker(i) \/ IdleTimesOut(i) \/ HourPasses(i)

Spec == Init /\ [][Next]_vars

(* The loop runs the callbacks and coroutines that are ready, and every    *)
(* wait of a runner but the idle one is bounded by a timeout. Nothing here *)
(* makes an hour of silence pass.                                          *)
FairSpec == Spec /\ \A i \in Ids : WF_vars(RunPut(i)) /\ WF_vars(Runner(i))

-----------------------------------------------------------------------------
(* Properties. *)

(* "At most eight active tasks or outstanding SDK workers per backend"     *)
(* (docs/headless-runtime.md): a runner that gave up on its worker keeps   *)
(* its place until the blocking call is over.                              *)
CapacityHeld == Cardinality({i \in Ids : Active(i) \/ row[i].worker}) <= MaxSessions

(* The table forgets only what is over: a conversation with a live runner  *)
(* or worker can still be read and stopped, and stays counted; and the     *)
(* table never outgrows its cap.                                           *)
BusyStaysListed ==
    /\ \A i \in Ids : Busy(i) => i \in table
    /\ Cardinality(table) <= TableCap

(* The table accounts for everything that is under way, and for no more    *)
(* than may be.                                                            *)
TableAccounts == TypeOK /\ CapacityHeld /\ BusyStaysListed

(* A completed row shows the answer to the last message that was accepted, *)
(* never an earlier turn's that arrived after a newer submit.              *)
AnswersLastMessage ==
    \A i \in Ids : row[i].status = "completed" => row[i].answered = row[i].revision

(* "polled using the exact retained turn ID, never resubmitted"            *)
(* (docs/headless-runtime.md): no message goes to Cobuild twice, and what  *)
(* goes is a message that was submitted, never the empty one that wakes a  *)
(* stopped runner.                                                         *)
NeverResubmitted ==
    [][\A i \in Ids : row[i].pc = "check" /\ row'[i].pc = "turn"
            => row[i].asking \in (0..row[i].revision) \ row[i].sent]_vars

(* "Discard private local state only after its workers have finished": an  *)
(* upstream conversation outlives every worker that uses it and does not   *)
(* outlive the last of runner, worker and retirement callback.             *)
ConversationLifetime ==
    \A i \in Ids :
        /\ row[i].worker /\ row[i].sent # {} => row[i].conversation
        /\ row[i].conversation => Busy(i) \/ row[i].retire

(* A stopped runner ends without waiting out the idle hour, wherever the   *)
(* stop finds it: before its queue exists, in a turn, idle, or with a      *)
(* message already scheduled.                                              *)
StopEndsRunner == \A i \in Ids : row[i].stopped ~> row[i].pc = "ended"

(* "Each model turn waits at most 300 seconds" (docs/headless-runtime.md): *)
(* a pending turn becomes something else while its runner lives, whatever  *)
(* puts are dropped and wherever stop finds it. Only a message accepted    *)
(* while the runner is closing after its idle hour stays pending.          *)
PendingResolves ==
    \A i \in Ids : row[i].pc # "new" /\ row[i].status = "pending" ~>
                      (row[i].status # "pending" \/ row[i].pc = "ended")
=============================================================================
