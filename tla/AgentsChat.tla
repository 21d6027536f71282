----------------------------- MODULE AgentsChat -----------------------------
(***************************************************************************)
(* The browser's chat with the admin agent (state/agentsChatStore.ts):     *)
(* conversations, the turn that streams a reply into one of them, the      *)
(* queue of messages typed meanwhile, Stop, New conversation, history,     *)
(* Refresh (the session epoch) and the copy in localStorage.               *)
(*                                                                         *)
(* One agent, as the page has it.  A message is its number; a reply is     *)
(* empty, begun, stopped or dropped; titles are left out.  The store is    *)
(* one record, so that the code's synchronous chains of patches are        *)
(* compositions of operators on it; every await is a step boundary.        *)
(***************************************************************************)
EXTENDS Naturals, Sequences, FiniteSets, SequencesExt

CONSTANTS
    MaxMsgs,     \* bound on the messages composed
    MaxRare,     \* bound on retries, deletions, clears, refreshes and reloads
    Persist,     \* persistence.enabled: the backend keeps conversations
    None

Msgs == 1..MaxMsgs
Old == 1                             \* the conversation the history holds
Convs == 1..(MaxMsgs + 1)            \* a new one begins with a message
Turns == 1..(MaxMsgs + MaxRare)

Replies == {"empty", "some", "stopped", "none"}
Exchange == [msg : 0..MaxMsgs, reply : Replies]
Conversation == [log : Seq(Exchange), streaming : BOOLEAN, error : BOOLEAN]
Queued == [msg : Msgs, editing : BOOLEAN]

ASSUME ChatAssumption ==
    /\ Persist \in BOOLEAN
    /\ MaxMsgs \in Nat
    /\ MaxRare \in Nat
    /\ None \notin Nat \cup Conversation

(* A turn: its conversation, its own copy of it (`let conv`), its signal.  *)
Turn == [stage : {"off", "request", "stream"}, conv : Convs \cup {None},
         copy : Conversation, aborted : BOOLEAN]

(* What the server holds of a conversation (a deleted one keeps its rows), *)
(* and what is on its way there.                                           *)
Row == [pos : 1..(MaxMsgs + 1), msg : 0..MaxMsgs, reply : Replies]
Saved == [status : {"none", "active", "deleted"}, rows : SUBSET Row]
Request == [kind : {"turn"}, conv : Convs, row : Row] \cup
           [kind : {"delete"}, conv : Convs]

VARIABLES
    server,  \* the chat store of the backend (chat/store.py)
    wire,    \* requests nobody waits for: POST .../turn and DELETE
    opening, \* conversations openConversation is fetching
    chat,    \* the store, abortControllers, localStorage and the turns
    past     \* history: what the properties compare

vars == <<server, wire, opening, chat, past>>

NoConversation == [log |-> << >>, streaming |-> FALSE, error |-> FALSE]
NoTurn == [stage |-> "off", conv |-> None, copy |-> NoConversation,
           aborted |-> FALSE]
Empty == [c \in Convs |-> None]

Unsaved == [status |-> "none", rows |-> {}]
OldRow == [pos |-> 1, msg |-> 0, reply |-> "some"]

Init ==
    /\ server = [c \in Convs |->
                    IF Persist /\ c = Old THEN [status |-> "active", rows |-> {OldRow}]
                    ELSE Unsaved]
    /\ wire = {}
    /\ opening = {}
    /\ chat = [conv |-> Empty, active |-> None, queue |-> << >>,
               controller |-> None, turn |-> [t \in Turns |-> NoTurn],
               turns |-> 0, ids |-> Old, stored |-> None]
    /\ past = [msgs |-> 0, rare |-> 0,
               home |-> [m \in Msgs |-> None], went |-> [m \in Msgs |-> None],
               moved |-> {}, dropped |-> {}, gone |-> [c \in Convs |-> "no"],
               direct |-> {}, raced |-> {}, crossed |-> FALSE]

-----------------------------------------------------------------------------
(* The store.                                                              *)

Present(s, c) == c # None /\ s.conv[c] # None
Streaming(s, c) == Present(s, c) /\ s.conv[c].streaming
Live(s, t) == s.turn[t].stage # "off"
LiveOn(s, c) == {t \in Turns : Live(s, t) /\ s.turn[t].conv = c}

(* Every patch notifies persistStored, which waits while anything streams. *)
Patched(s) ==
    IF \E c \in Convs : Streaming(s, c) THEN s
    ELSE [s EXCEPT !.stored = [conv |-> s.conv, active |-> s.active]]

(* putConversation: also makes it the agent's active conversation. *)
Put(s, c, v) == Patched([s EXCEPT !.conv[c] = v, !.active = c])

(* getConversation: the active one, or a new one. *)
Target(s) == IF Present(s, s.active) THEN s.active ELSE s.ids + 1
Base(s) == IF Present(s, s.active) THEN s.conv[s.active] ELSE NoConversation

(* Abort the turn the agent's controller belongs to. *)
AbortTurn(s) ==
    IF s.controller = None THEN s
    ELSE [s EXCEPT !.turn[s.controller].aborted = TRUE]

(* Mutant: the new turn's controller is not registered.                    *)
StreamTurnUnregistered(s, c, v) ==
    LET t == s.turns + 1
        a == AbortTurn(s)
    IN  Put([a EXCEPT !.turns = t, !.ids = IF c > @ THEN c ELSE @,
                      !.turn[t] = [stage |-> "request", conv |-> c,
                                   copy |-> v, aborted |-> FALSE]], c, v)

(* streamTurn up to its first await. *)
StreamTurn(s, c, v) ==
    LET t == s.turns + 1
        a == AbortTurn(s)
    IN  Put([a EXCEPT !.turns = t, !.controller = t,
                      !.ids = IF c > @ THEN c ELSE @,
                      !.turn[t] = [stage |-> "request", conv |-> c,
                                   copy |-> v, aborted |-> FALSE]], c, v)

(* Mutant: every message starts a new conversation.                        *)
SendNowFresh(s, m) ==
    StreamTurn(s, s.ids + 1,
        [Base(s) EXCEPT !.streaming = TRUE, !.error = FALSE,
                        !.log = Append(@, [msg |-> m, reply |-> "empty"])])

(* sendAgentMessage to an agent that is idle. *)
SendNow(s, m) ==
    StreamTurn(s, Target(s),
        [Base(s) EXCEPT !.streaming = TRUE, !.error = FALSE,
                        !.log = Append(@, [msg |-> m, reply |-> "empty"])])

Idle(s) == ~Streaming(s, s.active)

(* Mutant: the head is sent without leaving the queue.                     *)
DrainKeepsHead(s) ==
    IF s.queue # << >> /\ ~Head(s.queue).editing /\ Idle(s)
    THEN SendNow(s, Head(s.queue).msg) ELSE s

(* Mutant: the message typed last is sent first.                           *)
DrainLast(s) ==
    IF s.queue # << >> /\ ~Last(s.queue).editing /\ Idle(s)
    THEN SendNow(Patched([s EXCEPT !.queue = Front(@)]), Last(s.queue).msg) ELSE s

(* drainAgentQueue: the head, unless it is being edited. *)
MayDrain(s) == s.queue # << >> /\ ~Head(s.queue).editing /\ Idle(s)

Drain(s) ==
    IF MayDrain(s)
    THEN SendNow(Patched([s EXCEPT !.queue = Tail(@)]), Head(s.queue).msg)
    ELSE s

SetQueue(s, q) == Drain(Patched([s EXCEPT !.queue = q]))

QueueMessage(s, m) ==
    SetQueue(s, Append(s.queue, [msg |-> m, editing |-> FALSE]))

-----------------------------------------------------------------------------
(* History: where messages were composed and went, which conversations were *)
(* removed and how, and whether a turn ever began while another was alive.  *)

QueuedMsgs(s) == {s.queue[i].msg : i \in 1..Len(s.queue)}

Sent(new) ==
    {m \in Msgs : \E c \in Convs, i \in 1..(MaxMsgs + 1) :
        /\ Present(new, c) /\ i <= Len(new.conv[c].log)
        /\ new.conv[c].log[i].msg = m /\ past.went[m] = None}

WhereIs(s, m) ==
    CHOOSE c \in Convs : Present(s, c) /\ \E i \in 1..Len(s.conv[c].log) :
        s.conv[c].log[i].msg = m

(* The record after a step from chat to s.                                 *)
Noted(p, s) ==
    [p EXCEPT
        !.went = [m \in Msgs |-> IF m \in Sent(s) THEN WhereIs(s, m) ELSE @[m]],
        !.moved = @ \cup {m \in QueuedMsgs(chat) : s.active # p.home[m]
                                                   \/ chat.active # p.home[m]},
        !.crossed = @ \/ (s.turns > chat.turns /\ \E t \in Turns : Live(chat, t)
                                                     /\ Live(s, t))]

Becomes(s, p) == \E new \in {s} : chat' = new /\ past' = Noted(p, new)

(* A step that sends nothing to the server.                                *)
Locally(s, p) == Becomes(s, p) /\ UNCHANGED <<server, wire, opening>>

-----------------------------------------------------------------------------
(* What the user does.                                                     *)

(* queueAgentMessage: the composer's single way in. *)
Compose ==
    /\ past.msgs < MaxMsgs
    /\ LET m == past.msgs + 1 IN
       Locally(QueueMessage(chat, m),
               [past EXCEPT !.msgs = m, !.home[m] = Target(chat)])

(* sendAgentMessage from a plan card or a checklist: ahead of the queue if *)
(* the agent is idle, behind it otherwise.                                 *)
SendDirect ==
    /\ past.msgs < MaxMsgs
    /\ LET m == past.msgs + 1 IN
       Locally(IF Idle(chat) THEN SendNow(chat, m) ELSE QueueMessage(chat, m),
               [past EXCEPT !.msgs = m, !.home[m] = Target(chat),
                            !.direct = IF chat.queue = << >> THEN @ ELSE @ \cup {m}])

RemoveQueued(i) ==
    /\ i \in DOMAIN chat.queue
    /\ Locally(SetQueue(chat, RemoveAt(chat.queue, i)),
               [past EXCEPT !.dropped = @ \cup {chat.queue[i].msg}])

(* patchQueuedMessage: open the inline editor, or commit it. *)
EditQueued(i) ==
    /\ i \in DOMAIN chat.queue /\ ~chat.queue[i].editing
    /\ Locally(Patched([chat EXCEPT !.queue[i].editing = TRUE]), past)

CommitQueued(i) ==
    /\ i \in DOMAIN chat.queue /\ chat.queue[i].editing
    /\ Locally(SetQueue(chat, [chat.queue EXCEPT ![i].editing = FALSE]), past)

(* The page is left mid-edit. *)
ClearQueuedEditing ==
    /\ \E i \in DOMAIN chat.queue : chat.queue[i].editing
    /\ Locally(SetQueue(chat, [i \in DOMAIN chat.queue |->
                                [chat.queue[i] EXCEPT !.editing = FALSE]]), past)

Stop ==
    /\ chat.controller # None /\ ~chat.turn[chat.controller].aborted
    /\ Locally(AbortTurn(chat), past)

Retry ==
    LET c == chat.active
        v == Base(chat)
    IN
    /\ past.rare < MaxRare
    /\ Present(chat, c) /\ ~v.streaming /\ v.error
    /\ Locally(StreamTurn(chat, c,
                    [v EXCEPT !.streaming = TRUE, !.error = FALSE,
                              !.log[Len(v.log)].reply = "empty"]),
               [past EXCEPT !.rare = @ + 1])

(* The history lists it. *)
OnServer(c) == server[c].status = "active"

(* openConversation: the local copy, or fetch the server's. *)
Open(c) ==
    /\ chat.active # c
    /\ \/ /\ Present(chat, c)
          /\ Locally(Patched([chat EXCEPT !.active = c]), past)
       \/ /\ ~Present(chat, c) /\ OnServer(c) /\ c \notin opening
          /\ opening' = opening \cup {c}
          /\ Becomes(chat, [past EXCEPT !.gone[c] = "no"])
          /\ UNCHANGED <<server, wire>>

(* The rows in the order of their positions.  Two may share one (a turn of *)
(* a copy fetched before another's save arrived is numbered like it), and  *)
(* either may come first.                                                  *)
InOrder(rows) ==
    {q \in [1..Cardinality(rows) -> rows] :
        \A i, j \in 1..Cardinality(rows) : i < j => q[i] # q[j] /\ q[i].pos <= q[j].pos}

LogOf(q) == [i \in DOMAIN q |-> [msg |-> q[i].msg, reply |-> q[i].reply]]

(* The fetched conversation is put whatever happened meanwhile, unless the *)
(* server has none or the fetch fails.                                     *)
Opened(c) ==
    /\ c \in opening
    /\ opening' = opening \ {c}
    /\ \/ Becomes(chat, past)
       \/ /\ OnServer(c)
          /\ \E q \in InOrder(server[c].rows) :
                Becomes(Put(chat, c, [NoConversation EXCEPT !.log = LogOf(q)]), past)
    /\ UNCHANGED <<server, wire>>

(* Mutant: the turn of the deleted conversation is left alone.             *)
DeleteKeepsTurn(c) ==
    LET own == Present(chat, c) /\ chat.active = c
        s == IF own THEN [chat EXCEPT !.active = None, !.queue = << >>] ELSE chat
    IN
    /\ past.rare < MaxRare
    /\ Present(chat, c) \/ OnServer(c)
    /\ [kind |-> "delete", conv |-> c] \notin wire
    /\ wire' = wire \cup IF Persist THEN {[kind |-> "delete", conv |-> c]} ELSE {}
    /\ Becomes(Patched([s EXCEPT !.conv[c] = None]),
               [past EXCEPT !.rare = @ + 1,
                            !.gone[c] = IF own /\ c \notin opening THEN "deleted"
                                        ELSE "aside",
                            !.raced = IF \E r \in wire : r.conv = c
                                      THEN @ \cup {c} ELSE @ \ {c},
                            !.dropped = IF own THEN @ \cup QueuedMsgs(chat) ELSE @])
    /\ UNCHANGED <<server, opening>>

(* deleteConversation: only the active one's turn and queue go with it.    *)
Delete(c) ==
    LET own == Present(chat, c) /\ chat.active = c
        s == IF own THEN [AbortTurn(chat) EXCEPT !.controller = None,
                            !.active = None, !.queue = << >>] ELSE chat
    IN
    /\ past.rare < MaxRare
    /\ Present(chat, c) \/ OnServer(c)
    /\ [kind |-> "delete", conv |-> c] \notin wire
    /\ wire' = wire \cup IF Persist THEN {[kind |-> "delete", conv |-> c]} ELSE {}
    /\ Becomes(Patched([s EXCEPT !.conv[c] = None]),
               [past EXCEPT !.rare = @ + 1,
                            !.gone[c] = IF own /\ c \notin opening THEN "deleted"
                                        ELSE "aside",
                            !.raced = IF \E r \in wire : r.conv = c
                                      THEN @ \cup {c} ELSE @ \ {c},
                            !.dropped = IF own THEN @ \cup QueuedMsgs(chat) ELSE @])
    /\ UNCHANGED <<server, opening>>

(* clearAllConversations: "New conversation". *)
NewConversation ==
    /\ past.rare < MaxRare
    /\ \E c \in Convs : Present(chat, c)
    /\ Locally(Patched([AbortTurn(chat) EXCEPT !.controller = None, !.conv = Empty,
                            !.active = None, !.queue = << >>]),
               [past EXCEPT !.rare = @ + 1, !.dropped = @ \cup QueuedMsgs(chat),
                            !.gone = [c \in Convs |->
                                IF Present(chat, c) /\ c \notin opening
                                THEN "cleared" ELSE @[c]]])

(* bumpSessionEpoch (Refresh, host switch): the store is as at the start   *)
(* and the snapshot dropped; nobody tells the turns.                       *)
Refresh ==
    /\ past.rare < MaxRare
    /\ \E c \in Convs : Present(chat, c)
    /\ Locally([chat EXCEPT !.conv = Empty, !.active = None, !.queue = << >>,
                            !.stored = None],
               [past EXCEPT !.rare = @ + 1, !.dropped = @ \cup QueuedMsgs(chat),
                            !.gone = [c \in Convs |->
                                IF ~Present(chat, c) THEN @[c]
                                ELSE IF LiveOn(chat, c) = {} /\ c \notin opening
                                THEN "cleared" ELSE "refreshed"]])

(* A hard reload: turns and queue die with the page, readStored and        *)
(* sanitizeStored bring back what was stored last.                         *)
Sanitized(v) ==
    IF v = None THEN None
    ELSE LET n == Len(v.log)
             dangling == v.streaming /\ n > 0 /\ v.log[n].reply = "empty"
         IN  [v EXCEPT !.streaming = FALSE,
                       !.log = IF dangling THEN [@ EXCEPT ![n].reply = "none"] ELSE @]

Reload ==
    LET old == IF chat.stored = None THEN [conv |-> Empty, active |-> None]
               ELSE chat.stored
        s == [chat EXCEPT !.conv = [c \in Convs |-> Sanitized(old.conv[c])],
                          !.active = old.active, !.queue = << >>,
                          !.controller = None, !.turn = [t \in Turns |-> NoTurn]]
    IN
    /\ past.rare < MaxRare
    /\ \E t \in Turns : Live(chat, t)
    /\ opening' = {}
    /\ UNCHANGED <<server, wire>>
    /\ Becomes(Patched(s),
               [past EXCEPT !.rare = @ + 1, !.dropped = @ \cup QueuedMsgs(chat),
                            !.gone = [c \in Convs |->
                                IF s.conv[c] # None THEN "no" ELSE @[c]]])

-----------------------------------------------------------------------------
(* The turn.                                                               *)

Revealed(v, r) == [v EXCEPT !.log[Len(v.log)].reply = r]

Responds(t) ==
    /\ chat.turn[t].stage = "request" /\ ~chat.turn[t].aborted
    /\ Locally([chat EXCEPT !.turn[t].stage = "stream"], past)

(* The drainer applies text, an event, `done` or an `error` frame to the   *)
(* turn's own copy and, unless aborted, puts the copy.                     *)
Frame(t) ==
    LET v == chat.turn[t].copy IN
    /\ chat.turn[t].stage = "stream"
    /\ \E w \in {Revealed(v, "some"), [v EXCEPT !.error = TRUE]} :
        LET s == [chat EXCEPT !.turn[t].copy = w] IN
        Locally(IF chat.turn[t].aborted THEN s ELSE Put(s, chat.turn[t].conv, w), past)

(* catch and finally: the controller's entry goes, whoever owns it; the    *)
(* copy is settled into the store if the conversation is still there; the  *)
(* queue is drained.                                                       *)
(* Mutant: a stopped turn keeps its streaming flag.                        *)
SettledStreaming(v, aborted) ==
    LET r == v.log[Len(v.log)].reply IN
    [Revealed(v, IF r = "empty" THEN "none" ELSE IF aborted THEN "stopped" ELSE r)
        EXCEPT !.streaming = aborted]

Settled(v, aborted) ==
    LET r == v.log[Len(v.log)].reply IN
    [Revealed(v, IF r = "empty" THEN "none" ELSE IF aborted THEN "stopped" ELSE r)
        EXCEPT !.streaming = FALSE]

(* Mutant: positions count from one too many.                              *)
PostOffByOne(c, v) ==
    LET n == Len(v.log) IN
    [kind |-> "turn", conv |-> c,
     row |-> [pos |-> n + 1, msg |-> v.log[n].msg, reply |-> v.log[n].reply]]

(* persistMessages: the settled turn's rows, fire and forget. *)
Post(c, v) ==
    LET n == Len(v.log) IN
    [kind |-> "turn", conv |-> c,
     row |-> [pos |-> n, msg |-> v.log[n].msg, reply |-> v.log[n].reply]]

(* Mutant: the settle does not look whether the conversation is there.     *)
SettleResurrects(t, v) ==
    LET c == chat.turn[t].conv
        w == Settled(v, chat.turn[t].aborted)
        s == [chat EXCEPT !.controller = None, !.turn[t] = NoTurn]
    IN  /\ \E x \in {Put(s, c, w)} : Becomes(Drain(x), past)
        /\ wire' = wire \cup IF Persist THEN {Post(c, w)} ELSE {}
        /\ UNCHANGED <<server, opening>>

(* Mutant: the settle does not drain the queue.                            *)
SettleNoDrain(t, v) ==
    LET c == chat.turn[t].conv
        w == Settled(v, chat.turn[t].aborted)
        s == [chat EXCEPT !.controller = None, !.turn[t] = NoTurn]
    IN  /\ Becomes(IF Present(chat, c) THEN Put(s, c, w) ELSE s, past)
        /\ wire' = wire \cup IF Persist /\ Present(chat, c) THEN {Post(c, w)} ELSE {}
        /\ UNCHANGED <<server, opening>>

Settle(t, v) ==
    LET c == chat.turn[t].conv
        w == Settled(v, chat.turn[t].aborted)
        s == [chat EXCEPT !.controller = None, !.turn[t] = NoTurn]
    IN  /\ IF Present(chat, c)
           THEN /\ \E x \in {Put(s, c, w)} : Becomes(Drain(x), past)
                /\ wire' = wire \cup IF Persist THEN {Post(c, w)} ELSE {}
           ELSE /\ Becomes(Drain(s), past)
                /\ UNCHANGED wire
        /\ UNCHANGED <<server, opening>>

StreamEnds(t) ==
    /\ chat.turn[t].stage = "stream"
    /\ Settle(t, chat.turn[t].copy)

(* The request or the stream throws: Stop shows no error, a failure does.  *)
Throws(t) ==
    /\ Live(chat, t)
    /\ Settle(t, [chat.turn[t].copy EXCEPT !.error = ~chat.turn[t].aborted])

-----------------------------------------------------------------------------
(* The backend's store: requests arrive in any order, or not at all.       *)

(* upsert_turn: rows are keyed by message and never move to another        *)
(* conversation; a turn of an unknown one creates it, of a deleted one     *)
(* brings it back.                                                         *)
UpsertTurn(r) ==
    LET c == r.conv
        foreign == \E d \in Convs \ {c} : \E x \in server[d].rows : x.msg = r.row.msg
        kept == {x \in server[c].rows : x.msg # r.row.msg}
    IN
    /\ r \in wire /\ r.kind = "turn"
    /\ wire' = wire \ {r}
    /\ server' = [server EXCEPT ![c] =
                    [status |-> "active",
                     rows |-> IF foreign THEN @.rows ELSE kept \cup {r.row}]]
    /\ UNCHANGED <<opening, chat, past>>

SoftDelete(r) ==
    /\ r \in wire /\ r.kind = "delete" /\ OnServer(r.conv)
    /\ wire' = wire \ {r}
    /\ server' = [server EXCEPT ![r.conv].status = "deleted"]
    /\ UNCHANGED <<opening, chat, past>>

(* A DELETE that is lost or finds nothing: the list is read again, and     *)
(* shows what the server still has.                                        *)
DeleteFails(r) ==
    /\ r \in wire /\ r.kind = "delete"
    /\ wire' = wire \ {r}
    /\ Becomes(chat, [past EXCEPT !.gone[r.conv] =
                        IF @ = "deleted" /\ OnServer(r.conv) THEN "cleared" ELSE @])
    /\ UNCHANGED <<server, opening>>

-----------------------------------------------------------------------------

Next ==
    \/ Compose \/ SendDirect
    \/ \E i \in Msgs : RemoveQueued(i) \/ EditQueued(i) \/ CommitQueued(i)
    \/ ClearQueuedEditing
    \/ Stop \/ Retry
    \/ \E c \in Convs : Open(c) \/ Opened(c) \/ Delete(c)
    \/ \E r \in wire : UpsertTurn(r) \/ SoftDelete(r) \/ DeleteFails(r)
    \/ NewConversation \/ Refresh \/ Reload
    \/ \E t \in Turns : Responds(t) \/ Frame(t) \/ StreamEnds(t) \/ Throws(t)

Spec == Init /\ [][Next]_vars

(* A turn ends: the chat proxy ends its stream or the connection breaks,   *)
(* and an aborted fetch rejects.                                           *)
FairSpec ==
    Spec /\ \A t \in Turns : WF_vars(StreamEnds(t) \/ Throws(t))

-----------------------------------------------------------------------------
(* Properties.                                                             *)

TypeOK ==
    /\ chat.conv \in [Convs -> Conversation \cup {None}]
    /\ chat.active \in Convs \cup {None}
    /\ chat.queue \in Seq(Queued)
    /\ chat.controller \in Turns \cup {None}
    /\ chat.turn \in [Turns -> Turn]
    /\ chat.turns \in 0..(MaxMsgs + MaxRare)
    /\ chat.ids \in Convs
    /\ server \in [Convs -> Saved]
    /\ wire \subseteq Request
    /\ opening \subseteq Convs

(* A conversation that shows a reply streaming has a turn that will settle *)
(* it.  Otherwise the composer only queues and the queue never drains.     *)
StreamingIsBacked ==
    \A c \in Convs : Streaming(chat, c) => LiveOn(chat, c) # {}

(* The store is well formed and what it shows streaming is streaming.      *)
ChatBacked == TypeOK /\ StreamingIsBacked

(* Every message typed is waiting, or was sent once, or was dropped with   *)
(* the queue by the user: none is swallowed by a turn that ends as it is   *)
(* typed, none is sent twice by two drains or a resurrected copy.          *)
EachMessageOnce ==
    \A m \in 1..past.msgs :
        LET waits == {i \in DOMAIN chat.queue : chat.queue[i].msg = m}
            places == {x \in Convs \X (1..(MaxMsgs + 1)) :
                        /\ Present(chat, x[1]) /\ x[2] <= Len(chat.conv[x[1]].log)
                        /\ chat.conv[x[1]].log[x[2]].msg = m}
        IN  /\ Cardinality(waits) + Cardinality(places) <= 1
            /\ waits = {} /\ past.went[m] = None => m \in past.dropped

(* "In-order only": a conversation shows messages in the order they were   *)
(* typed; only a plan decision sent while the queue is held by an edit     *)
(* comes before an older one.                                              *)
TypedOrder ==
    \A c \in Convs : Present(chat, c) =>
        \A i, j \in 1..Len(chat.conv[c].log) :
            i < j => \/ chat.conv[c].log[i].msg < chat.conv[c].log[j].msg
                     \/ chat.conv[c].log[i].msg \in past.direct

(* The queue neither loses, doubles nor reorders what the user types.      *)
QueueFaithful == EachMessageOnce /\ TypedOrder

(* "Queued messages were addressed to this conversation": one that reaches *)
(* another was waiting while the other was open.                           *)
DeliveredAtHome ==
    \A m \in Msgs : past.went[m] \in {None, past.home[m]} \/ m \in past.moved

(* The turn that streams into the open conversation is the one Stop, New   *)
(* conversation and Delete abort, as long as no turn began before another  *)
(* had settled.                                                            *)
StopReachesLoneTurn ==
    (~past.crossed /\ Streaming(chat, chat.active)) =>
        \A t \in LiveOn(chat, chat.active) :
            chat.turn[t].aborted \/ chat.controller = t

(* A conversation removed by New conversation, deleted while it was open,  *)
(* or cleared by Refresh when none of its turns was under way, does not    *)
(* come back with a later frame or at the settle, as long as no turn began *)
(* before another had settled.                                             *)
RemovedStaysRemoved ==
    \A c \in Convs :
        (past.gone[c] \in {"cleared", "deleted"} /\ ~past.crossed) => ~Present(chat, c)

(* A conversation deleted while it was open is gone from the server once   *)
(* the requests have arrived: the turn it interrupts does not save it      *)
(* again.  Only a save already on its way can arrive behind the DELETE.    *)
DeletedLeavesServer ==
    \A c \in Convs :
        (/\ past.gone[c] = "deleted" /\ c \notin past.raced /\ ~past.crossed
         /\ \A r \in wire : r.conv # c) => ~OnServer(c)

(* A queued message is sent or dropped in the end unless somebody keeps a  *)
(* message open in the editor.                                             *)
QueueDrains ==
    \A m \in Msgs : m \in QueuedMsgs(chat) ~>
        (m \notin QueuedMsgs(chat) \/ \E i \in DOMAIN chat.queue : chat.queue[i].editing)

=============================================================================
