---------------------------- MODULE ProgressStream ----------------------------
(***************************************************************************)
(* The live progress of one long-running analysis.                         *)
(*                                                                         *)
(* On the server (python-lib/adk_backend/progress.py) an endpoint has one  *)
(* stream: the events and partial rows of the run that started last. Runs  *)
(* overlap (two browsers, a reload, an invalidated cache); whoever starts  *)
(* replaces the stream and the earlier run's writes are ignored. A stream  *)
(* nobody wrote to for half an hour is dropped, finished or not.           *)
(*                                                                         *)
(* In the browser (hooks/apiLoader/codeEnvs.ts) each load polls the stream *)
(* with cursors while its request runs, replays the events and keeps the   *)
(* rows to fall back on if the request fails.                              *)
(***************************************************************************)
EXTENDS Naturals, Sequences, FiniteSets

CONSTANTS
    Runs,        \* executions of the analysis, named by their runId
    Loads,       \* browser loads that poll
    EventLimit,  \* _PROGRESS_EVENT_LIMIT
    MaxEvents,   \* bound on the events of a run
    MaxRows,     \* bound on the partial rows of a run
    None         \* no stream, no reply, and the browser's '__pending__' run id

ASSUME ProgressAssumption ==
    /\ EventLimit \in Nat \ {0} /\ MaxEvents \in Nat /\ MaxRows \in Nat
    /\ None \notin Runs

Event == [by : Runs, idx : Nat]
Line == [by : Runs, nr : Nat]
Status == {"running", "done", "error"}

Stream == [run : Runs, status : Status, events : Seq(Event), nextIndex : Nat,
           droppedUntil : Nat, summary : Runs \cup {None}, rows : Seq(Line)]

(* A reply of the progress route; the idle reply has no run id and no rows.*)
Reply == [run : Runs \cup {None}, events : Seq(Event), next : Nat,
          rows : Seq(Line), rowsNext : Nat]

Load == [request : {"new", "running", "ok", "failed", "recovered"},
         run : Runs \cup {None}, cursor : Nat, rowsSince : Nat,
         replayed : Seq(Event), buffer : Seq(Line)]

VARIABLES
    stream,  \* _PROGRESS[endpoint], or None
    quiet,   \* no write for _PROGRESS_RETENTION_SEC
    scan,    \* each run: its state, what it wrote, its place in the order of starts
    load,    \* each browser load
    reply    \* each load's reply in flight, or None

vars == <<stream, quiet, scan, load, reply>>

TypeOK ==
    /\ stream \in Stream \cup {None}
    /\ quiet \in BOOLEAN
    /\ scan \in [Runs -> [status : Status \cup {"new"}, events : 0..MaxEvents, rows : 0..MaxRows,
                          order : Nat]]
    /\ load \in [Loads -> Load]
    /\ reply \in [Loads -> Reply \cup {None}]

Init ==
    /\ stream = None
    /\ quiet = FALSE
    /\ scan = [r \in Runs |-> [status |-> "new", events |-> 0, rows |-> 0, order |-> 0]]
    /\ load = [p \in Loads |-> [request |-> "new", run |-> None, cursor |-> 0, rowsSince |-> 0,
                                replayed |-> <<>>, buffer |-> <<>>]]
    /\ reply = [p \in Loads |-> None]

Max2(a, b) == IF a > b THEN a ELSE b
Browser == <<load, reply>>

-----------------------------------------------------------------------------
(* The server: one run's writes. Each takes the lock and does nothing      *)
(* unless the stream is still the run's own.                               *)

Own(r) == stream # None /\ stream.run = r

FreshStream(r) ==
    [run |-> r, status |-> "running", events |-> <<>>, nextIndex |-> 0, droppedUntil |-> 0,
     summary |-> None, rows |-> <<>>]

(* Mutant: any run may write to whatever stream there is. *)
WriteUnchecked(r, s) ==
    IF stream # None THEN stream' = s /\ quiet' = FALSE ELSE UNCHANGED <<stream, quiet>>

(* Mutant: a write finds its stream gone and opens it again. *)
WriteReopens(r, s) ==
    /\ stream' = IF Own(r) THEN s ELSE FreshStream(r)
    /\ quiet' = FALSE

Write(r, s) ==
    IF Own(r) THEN stream' = s /\ quiet' = FALSE ELSE UNCHANGED <<stream, quiet>>

Started == {r \in Runs : scan[r].status # "new"}

StartProgress(r) ==
    /\ scan[r].status = "new"
    /\ stream' = FreshStream(r)
    /\ quiet' = FALSE
    /\ scan' = [scan EXCEPT ![r].status = "running",
                            ![r].order = Cardinality(Started) + 1]
    /\ UNCHANGED Browser

(* The oldest event makes room; droppedUntil is the first index kept. *)
Trimmed(s) ==
    IF Len(s.events) > EventLimit
    THEN [s EXCEPT !.events = Tail(@), !.droppedUntil = s.events[2].idx]
    ELSE s

AppendEvent(r) ==
    /\ scan[r].status = "running" /\ scan[r].events < MaxEvents
    /\ scan' = [scan EXCEPT ![r].events = @ + 1]
    /\ Write(r, Trimmed([stream EXCEPT
                            !.events = Append(@, [by |-> r, idx |-> stream.nextIndex]),
                            !.nextIndex = @ + 1]))
    /\ UNCHANGED Browser

AppendPartialRow(r) ==
    /\ scan[r].status = "running" /\ scan[r].rows < MaxRows
    /\ scan' = [scan EXCEPT ![r].rows = @ + 1]
    /\ Write(r, [stream EXCEPT !.rows = Append(@, [by |-> r, nr |-> scan[r].rows + 1])])
    /\ UNCHANGED Browser

SetSummary(r) ==
    /\ scan[r].status = "running"
    /\ Write(r, [stream EXCEPT !.summary = r])
    /\ UNCHANGED <<scan, load, reply>>

FinishProgress(r, status) ==
    /\ scan[r].status = "running"
    /\ scan' = [scan EXCEPT ![r].status = status]
    /\ Write(r, [stream EXCEPT !.status = status, !.summary = r])
    /\ UNCHANGED Browser

(* Half an hour without a write. The next reader drops the stream. *)
GoesQuiet ==
    /\ stream # None /\ ~quiet
    /\ quiet' = TRUE
    /\ UNCHANGED <<stream, scan, load, reply>>

-----------------------------------------------------------------------------
(* _read_progress: what a poll with these cursors is answered. *)

Kept == IF quiet THEN None ELSE stream

(* Mutant: the idle reply leaves the cursor out. *)
IdleReplyWithoutNext(since) ==
    [run |-> None, events |-> <<>>, next |-> None, rows |-> <<>>, rowsNext |-> 0]

IdleReply(since) == [run |-> None, events |-> <<>>, next |-> since, rows |-> <<>>, rowsNext |-> 0]

ReplacedReply ==
    [run |-> stream.run, events |-> <<>>, next |-> stream.nextIndex, rows |-> <<>>, rowsNext |-> 0]

(* Mutant: the cursor is taken as a position in the list of kept events. *)
EventsByPosition(since) == SubSeq(stream.events, since + 1, Len(stream.events))

(* The events from a cursor on. A SelectSeq, written out because TLAPS     *)
(* knows nothing of that operator.                                         *)
EventsFrom(events, cursor) ==
    LET from[n \in 0..Len(events)] ==
            IF n = 0 THEN <<>>
            ELSE IF events[n].idx >= cursor THEN Append(from[n - 1], events[n])
            ELSE from[n - 1]
    IN  from[Len(events)]

EventsSince(since) == EventsFrom(stream.events, Max2(since, stream.droppedUntil))

RunReply(since, rowsSince) ==
    [run |-> stream.run,
     events |-> EventsSince(since),
     next |-> IF stream.nextIndex = 0 THEN Max2(since, stream.droppedUntil) ELSE stream.nextIndex,
     rows |-> SubSeq(stream.rows, rowsSince + 1, Len(stream.rows)),
     rowsNext |-> Len(stream.rows)]

ReadProgress(p) ==
    CASE Kept = None -> IdleReply(load[p].cursor)
      [] Kept # None /\ Kept.run # load[p].run -> ReplacedReply
      [] OTHER -> RunReply(load[p].cursor, load[p].rowsSince)

-----------------------------------------------------------------------------
(* The browser. *)

BeginLoad(p) ==
    /\ load[p].request = "new"
    /\ load' = [load EXCEPT ![p].request = "running"]
    /\ UNCHANGED <<stream, quiet, scan, reply>>

(* The poll reaches the server; its answer is on its way. *)
Poll(p) ==
    /\ load[p].request = "running" /\ reply[p] = None
    /\ reply' = [reply EXCEPT ![p] = ReadProgress(p)]
    /\ stream' = Kept
    /\ quiet' = (quiet /\ Kept # None)
    /\ UNCHANGED <<scan, load>>

(* Mutant: a new run id resets the event cursor and not the rows. *)
FollowKeepsRows(l, r) == [l EXCEPT !.run = r, !.cursor = 0, !.replayed = <<>>]

(* Another run than the one followed: start over with that one. *)
Follow(l, r) ==
    [l EXCEPT !.run = r, !.cursor = 0, !.rowsSince = 0, !.replayed = <<>>, !.buffer = <<>>]

Absorb(l, answer) ==
    [l EXCEPT !.cursor = answer.next,
              !.replayed = @ \o answer.events,
              !.buffer = @ \o answer.rows,
              !.rowsSince = IF answer.run = None THEN @ ELSE answer.rowsNext]

Apply(p) ==
    /\ reply[p] # None
    /\ load' = [load EXCEPT ![p] = IF reply[p].run \notin {None, load[p].run}
                                   THEN Follow(@, reply[p].run)
                                   ELSE Absorb(@, reply[p])]
    /\ reply' = [reply EXCEPT ![p] = None]
    /\ UNCHANGED <<stream, quiet, scan>>

(* The poll fails or takes more than LIVE_PROGRESS_TIMEOUT_MS; go on with  *)
(* the same cursors.                                                       *)
PollFails(p) ==
    /\ reply[p] # None
    /\ reply' = [reply EXCEPT ![p] = None]
    /\ UNCHANGED <<stream, quiet, scan, load>>

(* The load's own request settles: the pending poll is aborted and, after  *)
(* a failure, the buffered rows are the result.                            *)
Settle(p, ok) ==
    /\ load[p].request = "running"
    /\ load' = [load EXCEPT ![p].request = CASE ok -> "ok"
                                             [] ~ok /\ load[p].buffer # <<>> -> "recovered"
                                             [] OTHER -> "failed"]
    /\ reply' = [reply EXCEPT ![p] = None]
    /\ UNCHANGED <<stream, quiet, scan>>

Writer(r) ==
    \/ StartProgress(r) \/ AppendEvent(r) \/ AppendPartialRow(r) \/ SetSummary(r)
    \/ \E status \in {"done", "error"} : FinishProgress(r, status)

Poller(p) ==
    \/ BeginLoad(p) \/ Poll(p) \/ Apply(p) \/ PollFails(p)
    \/ \E ok \in BOOLEAN : Settle(p, ok)

Next ==
    \/ \E r \in Runs : Writer(r)
    \/ \E p \in Loads : Poller(p)
    \/ GoesQuiet

Spec == Init /\ [][Next]_vars

-----------------------------------------------------------------------------
(* Properties. *)

(* The stream is the last started run's, whole: every row and every event  *)
(* number it wrote, its latest events contiguous up to the limit, and its  *)
(* outcome. A run that was replaced leaves no trace in its successor's     *)
(* stream, however late it writes or finishes.                             *)
StreamIsLastRun ==
    stream # None =>
        LET r == stream.run
            kept == Len(stream.events)
        IN  /\ \A q \in Started : scan[q].order <= scan[r].order
            /\ stream.status = scan[r].status
            /\ stream.nextIndex = scan[r].events
            /\ stream.rows = [n \in 1..scan[r].rows |-> [by |-> r, nr |-> n]]
            /\ stream.events = [n \in 1..kept |-> [by |-> r, idx |-> stream.droppedUntil + n - 1]]
            /\ stream.droppedUntil + kept = stream.nextIndex
            /\ kept <= EventLimit /\ (stream.droppedUntil > 0 => kept = EventLimit)
            /\ stream.summary \in {None, r}

(* The server's stream and what the poller holds of it are well formed,    *)
(* and the stream is the last run's.                                       *)
StreamSound == TypeOK /\ StreamIsLastRun

(* What a load would recover from is a prefix of the rows of one run, each *)
(* once and in order, whatever polls were lost and whichever runs replaced *)
(* each other meanwhile.                                                   *)
RowsExactlyOnce ==
    \A p \in Loads :
        load[p].buffer = [n \in 1..load[p].rowsSince |-> [by |-> load[p].run, nr |-> n]]

(* Events are replayed once and in order, all from the run that is         *)
(* followed, and the only ones passed over are those the limit had dropped *)
(* before they could be read.                                              *)
OnlyDroppedEventsMissed ==
    \A p \in Loads :
        LET seen == load[p].replayed IN
        /\ \A m, n \in DOMAIN seen : m < n => seen[m].idx < seen[n].idx
        /\ \A n \in DOMAIN seen : seen[n].by = load[p].run /\ seen[n].idx < load[p].cursor
        /\ stream # None /\ stream.run = load[p].run =>
              \A i \in 0..(load[p].cursor - 1) :
                  i >= stream.droppedUntil => \E n \in DOMAIN seen : seen[n].idx = i

(* A load never goes back to a run that was replaced before the one it     *)
(* follows.                                                                *)
FollowsForward ==
    [][\A p \in Loads :
          load[p].run # None /\ load'[p].run # load[p].run =>
              scan[load'[p].run].order > scan[load[p].run].order]_vars
=============================================================================
