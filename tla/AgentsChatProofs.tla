-------------------------- MODULE AgentsChatProofs --------------------------
(* Proofs about AgentsChat, for any number of messages and rare events.    *)
(* The operators on the store are composed in the actions, so the parts of *)
(* the invariant are predicates on a store s and a history p, and each     *)
(* operator has a lemma that says what it keeps of them.                   *)
EXTENDS AgentsChat, FiniteSetTheorems, SequenceTheorems, TLAPS

-----------------------------------------------------------------------------
(* Types. *)

Shown == [Convs -> Conversation \cup {None}]
Snapshot == [conv : Shown, active : Convs \cup {None}]

Store ==
    [conv : Shown, active : Convs \cup {None}, queue : Seq(Queued),
     controller : Turns \cup {None}, turn : [Turns -> Turn],
     turns : 0..(MaxMsgs + MaxRare), ids : Convs, stored : Snapshot \cup {None}]

Fates == {"no", "cleared", "deleted", "aside", "refreshed"}

History ==
    [msgs : 0..MaxMsgs, rare : 0..MaxRare,
     home : [Msgs -> Convs \cup {None}], went : [Msgs -> Convs \cup {None}],
     moved : SUBSET Msgs, dropped : SUBSET Msgs, gone : [Convs -> Fates],
     direct : SUBSET Msgs, raced : SUBSET Convs, crossed : BOOLEAN]

-----------------------------------------------------------------------------
(* The parts of the invariant. *)

(* A log of conversation c holds messages that went to c, each once, and   *)
(* without a server in the order they were typed.                          *)
Belongs(c, log, p, n) ==
    /\ c <= n
    /\ \A i \in 1..Len(log) : log[i].msg # 0 => p.went[log[i].msg] = c
    /\ \A i, j \in 1..Len(log) : log[i].msg = log[j].msg => i = j
    /\ ~Persist => \A i, j \in 1..Len(log) :
                        i < j => log[i].msg < log[j].msg \/ log[i].msg \in p.direct

(* That goes for what is shown, stored and copied by a turn under way; a   *)
(* turn failed only where there is a message to retry.                     *)
Fits(c, v, p, n) == Belongs(c, v.log, p, n) /\ (v.error => v.log # << >>)

ShownFits(v, p, n) == \A c \in Convs : v[c] # None => Fits(c, v[c], p, n)

TurnFits(s, t, p) ==
    Live(s, t) => /\ s.turn[t].conv \in Convs /\ s.turn[t].copy.log # << >>
                  /\ Belongs(s.turn[t].conv, s.turn[t].copy.log, p, s.ids)

LogsFit(s, p) ==
    /\ ShownFits(s.conv, p, s.ids)
    /\ s.stored # None => ShownFits(s.stored.conv, p, s.ids)
    /\ \A t \in Turns : TurnFits(s, t, p)

(* The queue holds messages not sent yet, in the order they were typed;    *)
(* what overtook one of them is a plan decision.                           *)
QueueFits(q, p) ==
    /\ \A i, j \in 1..Len(q) : i < j => q[i].msg < q[j].msg
    /\ \A i \in 1..Len(q) : q[i].msg <= p.msgs /\ p.went[q[i].msg] = None
    /\ \A i \in 1..Len(q), e \in Msgs : p.went[e] # None /\ e > q[i].msg => e \in p.direct

(* Every turn and every conversation has been paid for by a message or a retry. *)
Paid(s, p) ==
    /\ s.turns + Len(s.queue) <= p.msgs + p.rare
    /\ s.ids + Len(s.queue) <= p.msgs + 1
    /\ \A t \in Turns : t > s.turns => ~Live(s, t)

Backed(s) == \A c \in Convs : Streaming(s, c) => LiveOn(s, c) # {}

(* Unless turns crossed there is one at most, aborted or in the controller's reach. *)
Lone(s, p) ==
    ~p.crossed =>
        /\ \A t, u \in Turns : Live(s, t) /\ Live(s, u) => t = u
        /\ \A t \in Turns : Live(s, t) => s.turn[t].aborted \/ s.controller = t

(* A conversation that was removed has no way back but the user's. *)
Removed(s, p, op) ==
    \A c \in Convs :
        /\ p.gone[c] # "no" => c <= s.ids
        /\ p.gone[c] \in {"cleared", "deleted"} /\ ~p.crossed =>
               /\ ~Present(s, c) /\ c \notin op
               /\ \A t \in LiveOn(s, c) : s.turn[t].aborted

SentHome(p) ==
    /\ \A m \in Msgs : p.went[m] \in {None, p.home[m]} \/ m \in p.moved
    /\ \A m \in Msgs : m > p.msgs => p.went[m] = None

Good(s, p, op) ==
    /\ s \in Store /\ p \in History /\ op \subseteq Convs
    /\ LogsFit(s, p) /\ QueueFits(s.queue, p) /\ Paid(s, p)
    /\ Backed(s) /\ Lone(s, p) /\ Removed(s, p, op) /\ SentHome(p)

(* No message is lost. *)
Accounted(s, p) ==
    \A m \in Msgs : m <= p.msgs /\ p.went[m] = None => m \in QueuedMsgs(s) \cup p.dropped

(* The rows the server holds of c, and those on their way. *)
RowsFit(c, rows, p) ==
    /\ \A x \in rows : x.msg # 0 => p.went[x.msg] = c
    /\ \A x, y \in rows : x.msg = y.msg => x = y

(* What is known of c away from the browser when n conversations exist. *)
NetFits(sv, wr, op, p, n) ==
    /\ sv \in [Convs -> Saved] /\ wr \subseteq Request
    /\ \A c \in Convs : RowsFit(c, sv[c].rows, p)
    /\ \A c \in Convs : (sv[c].status = "active" \/ c \in op) => c <= n
    /\ \A r \in wr : r.conv <= n
    /\ \A r \in wr : r.kind = "turn" /\ r.row.msg # 0 => p.went[r.row.msg] = r.conv
    /\ ~Persist => wr = {} /\ op = {} /\ \A c \in Convs : sv[c] = Unsaved

(* Once a deleted conversation has no save on its way, only the DELETE is. *)
DeletionHolds(sv, wr, p) ==
    \A c \in Convs : p.gone[c] = "deleted" /\ c \notin p.raced /\ ~p.crossed =>
        /\ \A r \in wr : r.conv = c => r.kind = "delete"
        /\ sv[c].status = "active" => [kind |-> "delete", conv |-> c] \in wr

ChatInv ==
    /\ Good(chat, past, opening)
    /\ Accounted(chat, past)
    /\ NetFits(server, wire, opening, past, chat.ids)
    /\ DeletionHolds(server, wire, past)

-----------------------------------------------------------------------------
(* What the operators on the store change. *)

LEMMA Numbers ==
    /\ MaxMsgs \in Nat /\ MaxRare \in Nat /\ None \notin Nat /\ None \notin Conversation
    /\ Msgs \subseteq Nat /\ Convs \subseteq Nat /\ Turns \subseteq Nat
    /\ None \notin Convs /\ None \notin Turns /\ Old \in Convs
BY ChatAssumption DEF Msgs, Convs, Turns, Old

LEMMA StoreTypes ==
  ASSUME NEW s \in Store
  PROVE  /\ s.ids \in Nat /\ s.ids \in Convs /\ s.turns \in Nat /\ s.turns <= MaxMsgs + MaxRare
         /\ s.queue \in Seq(Queued) /\ Len(s.queue) \in Nat /\ s.conv \in Shown
         /\ \A i \in 1..Len(s.queue) : s.queue[i] \in Queued /\ s.queue[i].msg \in Msgs
<1>1. s.queue \in Seq(Queued) /\ s.conv \in Shown /\ s.ids \in Convs
  BY DEF Store
<1>2. s.turns \in 0..(MaxMsgs + MaxRare)
  BY DEF Store
<1>3. \A i \in 1..Len(s.queue) : s.queue[i] \in Queued
  BY <1>1, ElementOfSeq
<1>4. \A i \in 1..Len(s.queue) : s.queue[i].msg \in Msgs
  BY <1>3 DEF Queued
<1>5. s.turns \in Nat /\ s.turns <= MaxMsgs + MaxRare
  BY <1>2, Numbers
<1> QED BY <1>1, <1>3, <1>4, <1>5, Numbers, LenProperties

LEMMA HistoryTypes ==
  ASSUME NEW p \in History
  PROVE  /\ p.msgs \in Nat /\ p.msgs <= MaxMsgs /\ p.rare \in Nat /\ p.rare <= MaxRare
         /\ p.went \in [Msgs -> Convs \cup {None}] /\ p.direct \subseteq Msgs
<1>1. p.msgs \in 0..MaxMsgs /\ p.rare \in 0..MaxRare
  BY DEF History
<1>2. p.msgs \in Nat /\ p.msgs <= MaxMsgs /\ p.rare \in Nat /\ p.rare <= MaxRare
  BY <1>1, Numbers
<1> QED BY <1>2 DEF History

(* Only the snapshot may differ, and it is then of what the store shows. *)
Snaps(r, s) ==
    /\ r.conv = s.conv /\ r.active = s.active /\ r.queue = s.queue
    /\ r.controller = s.controller /\ r.turn = s.turn /\ r.turns = s.turns /\ r.ids = s.ids
    /\ r.stored = s.stored \/ r.stored = [conv |-> s.conv, active |-> s.active]

LEMMA PatchedSnaps ==
  ASSUME NEW s \in Store, NEW r, r = Patched(s)
  PROVE  r \in Store /\ Snaps(r, s)
<1>1. [conv |-> s.conv, active |-> s.active] \in Snapshot
  BY DEF Store, Snapshot
<1>2. CASE \E c \in Convs : Streaming(s, c)
  BY <1>2 DEF Patched, Snaps
<1>3. CASE ~(\E c \in Convs : Streaming(s, c))
  BY <1>3, <1>1 DEF Patched, Snaps, Store
<1> QED BY <1>2, <1>3

LEMMA PutFields ==
  ASSUME NEW s \in Store, NEW c \in Convs, NEW v \in Conversation, NEW r, r = Put(s, c, v)
  PROVE  /\ r \in Store /\ r.conv = [s.conv EXCEPT ![c] = v] /\ r.active = c
         /\ r.queue = s.queue /\ r.controller = s.controller
         /\ r.turn = s.turn /\ r.turns = s.turns /\ r.ids = s.ids
         /\ r.stored = s.stored \/ r.stored = [conv |-> r.conv, active |-> c]
<1> DEFINE x == [s EXCEPT !.conv[c] = v, !.active = c]
<1>1. x \in Store /\ x.conv = [s.conv EXCEPT ![c] = v] /\ x.active = c
  BY DEF Store, Shown
<1>2. /\ x.queue = s.queue /\ x.controller = s.controller
      /\ x.turn = s.turn /\ x.turns = s.turns /\ x.ids = s.ids /\ x.stored = s.stored
  BY DEF Store
<1>3. r = Patched(x)
  BY DEF Put
<1> HIDE DEF x
<1>4. r \in Store /\ Snaps(r, x)
  BY <1>1, <1>3, PatchedSnaps
<1> QED BY <1>1, <1>2, <1>4 DEF Snaps

(* The turn of the controller is aborted, the others are as they were. *)
Aborts(ts, s) ==
    \A t \in Turns : ts[t] = IF s.controller = t THEN [s.turn[t] EXCEPT !.aborted = TRUE]
                             ELSE s.turn[t]

LEMMA AbortFields ==
  ASSUME NEW s \in Store, NEW r, r = AbortTurn(s)
  PROVE  /\ r \in Store /\ r.conv = s.conv /\ r.active = s.active /\ r.queue = s.queue
         /\ r.controller = s.controller /\ r.turns = s.turns /\ r.ids = s.ids
         /\ r.stored = s.stored /\ Aborts(r.turn, s)
<1>1. CASE s.controller = None
  BY <1>1, Numbers DEF AbortTurn, Aborts
<1>2. CASE s.controller # None
  <2> DEFINE u == s.controller
  <2>1. u \in Turns /\ s.turn \in [Turns -> Turn]
    BY <1>2 DEF Store
  <2>2. [s.turn[u] EXCEPT !.aborted = TRUE] \in Turn
    BY <2>1 DEF Turn
  <2>3. r = [s EXCEPT !.turn = [s.turn EXCEPT ![u] = [s.turn[u] EXCEPT !.aborted = TRUE]]]
    BY <1>2, <2>1 DEF AbortTurn, Store
  <2> DEFINE ts == [s.turn EXCEPT ![u] = [s.turn[u] EXCEPT !.aborted = TRUE]]
  <2>4. ts \in [Turns -> Turn]
    BY <2>1, <2>2
  <2>5. Aborts(ts, s)
    BY <2>1 DEF Aborts
  <2> HIDE DEF ts, u
  <2> QED BY <2>3, <2>4, <2>5 DEF Store, ts
<1> QED BY <1>1, <1>2

Begun(c, v) == [stage |-> "request", conv |-> c, copy |-> v, aborted |-> FALSE]

LEMMA StreamTurnFields ==
  ASSUME NEW s \in Store, NEW c \in Convs, NEW v \in Conversation, NEW r,
         r = StreamTurn(s, c, v), s.turns < MaxMsgs + MaxRare
  PROVE  /\ r \in Store /\ r.conv = [s.conv EXCEPT ![c] = v] /\ r.active = c
         /\ r.queue = s.queue /\ r.controller = s.turns + 1
         /\ r.turns = s.turns + 1 /\ s.turns + 1 \in Turns
         /\ r.ids = IF c > s.ids THEN c ELSE s.ids
         /\ r.stored = s.stored \/ r.stored = [conv |-> r.conv, active |-> c]
         /\ r.turn[s.turns + 1] = Begun(c, v)
         /\ \A t \in Turns \ {s.turns + 1} :
                r.turn[t] = IF s.controller = t THEN [s.turn[t] EXCEPT !.aborted = TRUE]
                            ELSE s.turn[t]
<1> DEFINE t1 == s.turns + 1
           a == AbortTurn(s)
           n == IF c > s.ids THEN c ELSE s.ids
           x == [a EXCEPT !.turns = t1, !.controller = t1,
                          !.ids = IF c > @ THEN c ELSE @, !.turn[t1] = Begun(c, v)]
           ts == [a.turn EXCEPT ![t1] = Begun(c, v)]
<1>1. t1 \in Turns /\ t1 \in 0..(MaxMsgs + MaxRare) /\ s.ids \in Convs
  BY Numbers DEF Store, Turns
<1>2. /\ a \in Store /\ a.conv = s.conv /\ a.active = s.active /\ a.queue = s.queue
      /\ a.ids = s.ids /\ a.stored = s.stored /\ Aborts(a.turn, s)
  BY AbortFields
<1>3. Begun(c, v) \in Turn
  BY DEF Begun, Turn
<1>4. ts \in [Turns -> Turn] /\ ts[t1] = Begun(c, v) /\ \A t \in Turns \ {t1} : ts[t] = a.turn[t]
  BY <1>1, <1>2, <1>3 DEF Store
<1>5. r = Put(x, c, v)
  BY DEF StreamTurn, Begun
<1> HIDE DEF a, t1, Begun
<1>6. x = [a EXCEPT !.turns = t1, !.controller = t1, !.ids = n, !.turn = ts]
  BY <1>2 DEF Store
<1> HIDE DEF x, ts
<1>7. /\ x \in Store /\ x.conv = s.conv /\ x.queue = s.queue /\ x.controller = t1
      /\ x.turns = t1 /\ x.ids = n /\ x.turn = ts /\ x.stored = s.stored
  BY <1>6, <1>1, <1>2, <1>4 DEF Store
<1>8. /\ r \in Store /\ r.conv = [s.conv EXCEPT ![c] = v] /\ r.active = c
      /\ r.queue = s.queue /\ r.controller = t1
      /\ r.turns = t1 /\ r.ids = n /\ r.turn = ts
      /\ r.stored = s.stored \/ r.stored = [conv |-> r.conv, active |-> c]
  BY <1>5, <1>7, PutFields
<1>9. \A t \in Turns \ {t1} : ts[t] = IF s.controller = t THEN [s.turn[t] EXCEPT !.aborted = TRUE]
                                     ELSE s.turn[t]
  BY <1>2, <1>4 DEF Aborts
<1> QED BY <1>1, <1>4, <1>8, <1>9 DEF t1

-----------------------------------------------------------------------------
(* Logs. *)

LEMMA Entry ==
  ASSUME NEW log \in Seq(Exchange), NEW i \in 1..Len(log)
  PROVE  log[i] \in Exchange /\ log[i].msg \in 0..MaxMsgs /\ (log[i].msg # 0 => log[i].msg \in Msgs)
<1>1. log[i] \in Exchange
  BY ElementOfSeq
<1>2. log[i].msg \in 0..MaxMsgs
  BY <1>1 DEF Exchange
<1> QED BY <1>1, <1>2, Numbers DEF Msgs

LEMMA LogIsShort ==
  ASSUME NEW log \in Seq(Exchange),
         \A i, j \in 1..Len(log) : log[i].msg = log[j].msg => i = j
  PROVE  Len(log) <= MaxMsgs + 1
<1> DEFINE f == [i \in 1..Len(log) |-> log[i].msg]
<1>1. Len(log) \in Nat /\ \A i \in 1..Len(log) : log[i].msg \in 0..MaxMsgs
  BY Entry, LenProperties
<1>2. f \in Injection(1..Len(log), 0..MaxMsgs)
  BY <1>1 DEF Injection, IsInjective
<1>3. IsFiniteSet(0..MaxMsgs) /\ Cardinality(0..MaxMsgs) = MaxMsgs + 1
  <2>1. MaxMsgs \in Nat
    BY Numbers
  <2>2. IsFiniteSet(0..MaxMsgs) /\ Cardinality(0..MaxMsgs) = IF 0 > MaxMsgs THEN 0 ELSE MaxMsgs - 0 + 1
    BY ONLY <2>1, FS_Interval
  <2> QED BY <2>1, <2>2
<1>4. Cardinality(1..Len(log)) = Len(log)
  <2>1. Len(log) \in Nat
    BY <1>1
  <2>2. Cardinality(1..Len(log)) = IF 1 > Len(log) THEN 0 ELSE Len(log) - 1 + 1
    BY ONLY <2>1, FS_Interval
  <2> QED BY <2>1, <2>2
<1> HIDE DEF f
<1> QED BY <1>2, <1>3, <1>4, FS_Injection

(* The history q knows more than p. *)
Grows(p, q) ==
    /\ \A m \in Msgs : p.went[m] # None => q.went[m] = p.went[m]
    /\ p.direct \subseteq q.direct

LEMMA BelongsGrows ==
  ASSUME NEW c \in Convs, NEW log \in Seq(Exchange), NEW p, NEW q, NEW n \in Nat, NEW k \in Nat,
         Belongs(c, log, p, n), Grows(p, q), n <= k
  PROVE  Belongs(c, log, q, k)
<1>1. c <= k
  BY Numbers DEF Belongs
<1>2. ASSUME NEW i \in 1..Len(log), log[i].msg # 0
      PROVE  q.went[log[i].msg] = c
  <2>1. log[i].msg \in Msgs
    BY <1>2, Entry
  <2>2. p.went[log[i].msg] = c
    BY <1>2 DEF Belongs
  <2> QED BY <2>1, <2>2, Numbers DEF Grows
<1> QED BY <1>1, <1>2 DEF Belongs, Grows

LEMMA ShownGrows ==
  ASSUME NEW v \in Shown, NEW p, NEW q, NEW n \in Nat, NEW k \in Nat,
         ShownFits(v, p, n), Grows(p, q), n <= k
  PROVE  ShownFits(v, q, k)
<1> SUFFICES ASSUME NEW c \in Convs, v[c] # None
             PROVE  Fits(c, v[c], q, k)
  BY DEF ShownFits
<1>1. v[c].log \in Seq(Exchange) /\ Fits(c, v[c], p, n)
  BY DEF Shown, Conversation, ShownFits
<1> QED BY <1>1, BelongsGrows DEF Fits

(* What a turn needs survives when only its stage or its signal changes. *)
TurnKept(r, s) == r.stage # "off" => s.stage # "off" /\ r.conv = s.conv /\ r.copy = s.copy

LEMMA TurnGrows ==
  ASSUME NEW s \in Store, NEW r \in Store, NEW t \in Turns, NEW p, NEW q,
         TurnFits(s, t, p), TurnKept(r.turn[t], s.turn[t]), Grows(p, q), s.ids <= r.ids
  PROVE  TurnFits(r, t, q)
<1> SUFFICES ASSUME Live(r, t)
             PROVE  /\ r.turn[t].conv \in Convs /\ r.turn[t].copy.log # << >>
                    /\ Belongs(r.turn[t].conv, r.turn[t].copy.log, q, r.ids)
  BY DEF TurnFits
<1>1. Live(s, t) /\ r.turn[t].conv = s.turn[t].conv /\ r.turn[t].copy = s.turn[t].copy
  BY DEF Live, TurnKept
<1>2. s.turn[t].conv \in Convs /\ s.turn[t].copy.log # << >>
      /\ Belongs(s.turn[t].conv, s.turn[t].copy.log, p, s.ids)
  BY <1>1 DEF TurnFits
<1>3. s.turn[t].copy.log \in Seq(Exchange) /\ s.ids \in Nat /\ r.ids \in Nat
  BY Numbers DEF Store, Turn, Conversation
<1> QED BY <1>1, <1>2, <1>3, BelongsGrows

(* Putting a log that belongs. *)
LEMMA LogsAfter ==
  ASSUME NEW s \in Store, NEW r \in Store, NEW p, NEW q, LogsFit(s, p), Grows(p, q),
         s.ids <= r.ids, ShownFits(r.conv, q, r.ids),
         r.stored = s.stored \/ r.stored = [conv |-> r.conv, active |-> r.active],
         \A t \in Turns : TurnKept(r.turn[t], s.turn[t]) \/ TurnFits(r, t, q)
  PROVE  LogsFit(r, q)
<1>0. s.ids \in Nat /\ r.ids \in Nat
  BY Numbers DEF Store
<1>1. ASSUME r.stored # None PROVE ShownFits(r.stored.conv, q, r.ids)
  <2>1. CASE r.stored = s.stored
    <3>1. s.stored.conv \in Shown
      BY <1>1, <2>1 DEF Store, Snapshot
    <3> QED BY <3>1, <1>0, <1>1, <2>1, ShownGrows DEF LogsFit
  <2>2. CASE r.stored = [conv |-> r.conv, active |-> r.active]
    BY <2>2
  <2> QED BY <2>1, <2>2
<1>2. ASSUME NEW t \in Turns PROVE TurnFits(r, t, q)
  BY TurnGrows DEF LogsFit
<1> QED BY <1>1, <1>2 DEF LogsFit

LEMMA ShownPut ==
  ASSUME NEW u \in Shown, NEW c \in Convs, NEW v \in Conversation, NEW p, NEW q,
         NEW n \in Nat, NEW k \in Nat, ShownFits(u, p, n), Grows(p, q), n <= k,
         Fits(c, v, q, k)
  PROVE  ShownFits([u EXCEPT ![c] = v], q, k)
<1>1. ShownFits(u, q, k)
  BY ShownGrows
<1> QED BY <1>1 DEF ShownFits, Shown

-----------------------------------------------------------------------------
(* The history after a step. *)

LEMMA NotedFields ==
  ASSUME NEW p \in History, NEW s \in Store, chat \in Store, NEW q, q = Noted(p, s),
         \A m \in Sent(s) : WhereIs(s, m) \in Convs
  PROVE  /\ q \in History
         /\ q.msgs = p.msgs /\ q.rare = p.rare /\ q.home = p.home /\ q.dropped = p.dropped
         /\ q.gone = p.gone /\ q.direct = p.direct /\ q.raced = p.raced
         /\ q.went = [m \in Msgs |-> IF m \in Sent(s) THEN WhereIs(s, m) ELSE p.went[m]]
         /\ p.moved \subseteq q.moved
         /\ \A m \in QueuedMsgs(chat) : s.active # p.home[m] => m \in q.moved
         /\ q.crossed <=> \/ p.crossed
                          \/ s.turns > chat.turns /\ \E t \in Turns : Live(chat, t) /\ Live(s, t)
<1> DEFINE w == [m \in Msgs |-> IF m \in Sent(s) THEN WhereIs(s, m) ELSE p.went[m]]
           mv == p.moved \cup {m \in QueuedMsgs(chat) : s.active # p.home[m] \/ chat.active # p.home[m]}
           x == p.crossed \/ (s.turns > chat.turns /\ \E t \in Turns : Live(chat, t) /\ Live(s, t))
<1>1. w \in [Msgs -> Convs \cup {None}]
  BY DEF History
<1>2. QueuedMsgs(chat) \subseteq Msgs
  <2>1. chat.queue \in Seq(Queued)
    BY DEF Store
  <2>2. \A i \in 1..Len(chat.queue) : chat.queue[i] \in Queued
    BY <2>1, ElementOfSeq
  <2> QED BY <2>2 DEF QueuedMsgs, Queued
<1>3. mv \in SUBSET Msgs /\ p.moved \subseteq mv
  BY <1>2 DEF History
<1>4. x \in BOOLEAN
  OBVIOUS
<1>5. q = [p EXCEPT !.went = w, !.moved = mv, !.crossed = x]
  BY DEF Noted, History
<1>6. \A m \in QueuedMsgs(chat) : s.active # p.home[m] => m \in mv
  OBVIOUS
<1> HIDE DEF w, mv, x
<1>7. /\ q.went = w /\ q.moved = mv /\ q.crossed = x
      /\ q.msgs = p.msgs /\ q.rare = p.rare /\ q.home = p.home /\ q.dropped = p.dropped
      /\ q.gone = p.gone /\ q.direct = p.direct /\ q.raced = p.raced
  BY <1>5 DEF History
<1>8. q \in History
  BY <1>5, <1>1, <1>3, <1>4 DEF History
<1>9. q.crossed <=> x
  BY <1>7
<1> QED BY <1>3, <1>6, <1>7, <1>8, <1>9 DEF w, x

(* Nothing is sent by a step that shows no message that was not sent before. *)
LEMMA NothingSent ==
  ASSUME NEW p \in History, NEW s \in Store, p.went = past.went, ShownFits(s.conv, p, s.ids)
  PROVE  Sent(s) = {}
<1> SUFFICES ASSUME NEW m \in Msgs, NEW c \in Convs, NEW i \in 1..(MaxMsgs + 1),
                    Present(s, c), i <= Len(s.conv[c].log), s.conv[c].log[i].msg = m,
                    past.went[m] = None
             PROVE  FALSE
  BY DEF Sent
<1>1. Belongs(c, s.conv[c].log, p, s.ids) /\ s.conv[c].log \in Seq(Exchange)
  BY DEF ShownFits, Fits, Present, Store, Shown, Conversation
<1>2. i \in 1..Len(s.conv[c].log)
  BY <1>1, LenProperties
<1>3. m # 0
  BY DEF Msgs
<1>4. p.went[m] = c
  BY <1>1, <1>2, <1>3 DEF Belongs
<1> QED BY <1>4, Numbers

(* The one message a step sends is found where it was put. *)
LEMMA OneSent ==
  ASSUME NEW p \in History, NEW s \in Store, p.went = past.went,
         NEW m \in Msgs, NEW d \in Convs, p.went[m] = None, NEW q,
         q.went = [p.went EXCEPT ![m] = d],
         ShownFits(s.conv, q, s.ids), s.conv[d] # None,
         \E i \in 1..Len(s.conv[d].log) : s.conv[d].log[i].msg = m
  PROVE  Sent(s) = {m} /\ WhereIs(s, m) = d
<1>0. p.went \in [Msgs -> Convs \cup {None}]
  BY DEF History
<1>1. ASSUME NEW c \in Convs, NEW e \in Msgs, s.conv[c] # None,
             NEW i \in 1..Len(s.conv[c].log), s.conv[c].log[i].msg = e
      PROVE  q.went[e] = c /\ i \in 1..(MaxMsgs + 1)
  <2>1. Belongs(c, s.conv[c].log, q, s.ids) /\ s.conv[c].log \in Seq(Exchange)
    BY <1>1 DEF ShownFits, Fits, Store, Shown, Conversation
  <2>2. q.went[e] = c
    <3>1. e # 0
      BY DEF Msgs
    <3>2. s.conv[c].log[i].msg # 0 => q.went[s.conv[c].log[i].msg] = c
      BY <2>1 DEF Belongs
    <3> QED BY <3>1, <3>2, <1>1
  <2>3. Len(s.conv[c].log) <= MaxMsgs + 1 /\ Len(s.conv[c].log) \in Nat
    BY <2>1, LogIsShort, LenProperties DEF Belongs
  <2> QED BY <2>2, <2>3, Numbers
<1>2. m \in Sent(s)
  <2>1. PICK i \in 1..Len(s.conv[d].log) : s.conv[d].log[i].msg = m
    OBVIOUS
  <2>2. i \in 1..(MaxMsgs + 1) /\ i <= Len(s.conv[d].log)
    BY <1>1, <2>1
  <2>3. Present(s, d)
    BY Numbers DEF Present
  <2> QED BY <2>1, <2>2, <2>3 DEF Sent
<1>3. ASSUME NEW e \in Sent(s) PROVE e = m
  <2>1. PICK c \in Convs, i \in 1..(MaxMsgs + 1) :
          Present(s, c) /\ i <= Len(s.conv[c].log) /\ s.conv[c].log[i].msg = e
    BY DEF Sent
  <2>2. e \in Msgs /\ past.went[e] = None
    BY DEF Sent
  <2>3. Len(s.conv[c].log) \in Nat
    BY <2>1, LenProperties DEF Store, Shown, Conversation, Present
  <2>4. q.went[e] = c
    BY <1>1, <2>1, <2>2, <2>3 DEF Present
  <2> QED BY <2>2, <2>4, <1>0, Numbers
<1>4. ASSUME NEW c \in Convs, Present(s, c), \E i \in 1..Len(s.conv[c].log) : s.conv[c].log[i].msg = m
      PROVE  c = d
  BY <1>0, <1>1, <1>4 DEF Present
<1>5. Present(s, d)
  BY Numbers DEF Present
<1>6. WhereIs(s, m) = d
  BY <1>4, <1>5 DEF WhereIs
<1> QED BY <1>2, <1>3, <1>6

-----------------------------------------------------------------------------
(* Sending a message. *)

LEMMA TurnAborted ==
  ASSUME NEW r \in Turn
  PROVE  LET a == [r EXCEPT !.aborted = TRUE] IN
         a.stage = r.stage /\ a.conv = r.conv /\ a.copy = r.copy /\ a.aborted
BY DEF Turn

LEMMA AppendFits ==
  ASSUME NEW c \in Convs, NEW log \in Seq(Exchange), NEW p, NEW q, NEW n \in Nat,
         Belongs(c, log, q, n) \/ (log = << >> /\ c <= n), Grows(p, q),
         NEW m \in Msgs, q.went[m] = c, p.went[m] = None,
         \A e \in Msgs : p.went[e] # None /\ e > m => e \in p.direct,
         \A i \in 1..Len(log) : log[i].msg # 0 => p.went[log[i].msg] # None
  PROVE  Belongs(c, Append(log, [msg |-> m, reply |-> "empty"]), q, n)
<1> DEFINE x == [msg |-> m, reply |-> "empty"]
           l2 == Append(log, x)
           k == Len(log)
<1>1. k \in Nat /\ \A i \in 1..k : log[i] \in Exchange /\ log[i].msg \in 0..MaxMsgs
                                   /\ (log[i].msg # 0 => log[i].msg \in Msgs)
  BY LenProperties, Entry
<1>2. Len(l2) = k + 1 /\ l2[k + 1] = x /\ \A i \in 1..k : l2[i] = log[i]
  BY <1>1
<1>3. \A i \in 1..(k + 1) : i \in 1..k \/ i = k + 1
  BY <1>1
<1>4. x.msg = m /\ m # 0 /\ m \in Nat
  BY Numbers DEF Msgs
<1> HIDE DEF x, l2
<1>5. \A i \in 1..k : log[i].msg # m
  BY <1>1, <1>4
<1>6. /\ c <= n
      /\ \A i \in 1..k : log[i].msg # 0 => q.went[log[i].msg] = c
      /\ \A i, j \in 1..k : log[i].msg = log[j].msg => i = j
      /\ ~Persist => \A i, j \in 1..k :
                        i < j => log[i].msg < log[j].msg \/ log[i].msg \in q.direct
  <2>1. CASE Belongs(c, log, q, n)
    BY <2>1 DEF Belongs
  <2>2. CASE log = << >> /\ c <= n
    <3>1. k = 0
      BY <2>2
    <3>2. 1..k = {}
      BY <3>1
    <3> QED BY <3>2, <2>2
  <2> QED BY <2>1, <2>2
<1>7. \A i \in 1..(k + 1) : l2[i].msg # 0 => q.went[l2[i].msg] = c
  BY <1>2, <1>3, <1>4, <1>6
<1>8. \A i, j \in 1..(k + 1) : l2[i].msg = l2[j].msg => i = j
  BY <1>2, <1>3, <1>4, <1>5, <1>6
<1>9. ASSUME NEW i \in 1..k PROVE log[i].msg < m \/ log[i].msg \in q.direct
  <2>1. CASE log[i].msg = 0
    BY <2>1, <1>4
  <2>2. CASE log[i].msg # 0
    <3>1. log[i].msg \in Msgs /\ p.went[log[i].msg] # None /\ log[i].msg \in Nat
      BY <1>1, <2>2, Numbers
    <3>2. log[i].msg > m => log[i].msg \in q.direct
      BY <3>1 DEF Grows
    <3> QED BY <3>1, <3>2, <1>4, <1>5
  <2> QED BY <2>1, <2>2
<1>10. ASSUME ~Persist, NEW i \in 1..(k + 1), NEW j \in 1..(k + 1), i < j
       PROVE  l2[i].msg < l2[j].msg \/ l2[i].msg \in q.direct
  <2>1. i \in 1..k
    BY <1>1, <1>10
  <2>2. CASE j \in 1..k
    BY <2>1, <2>2, <1>2, <1>6, <1>10
  <2>3. CASE j = k + 1
    BY <2>1, <2>3, <1>2, <1>4, <1>9
  <2> QED BY <1>3, <2>2, <2>3
<1>11. Belongs(c, l2, q, n)
  BY <1>2, <1>6, <1>7, <1>8, <1>10 DEF Belongs
<1> QED BY <1>11 DEF l2, x

(* Message m may be sent from store s: it is the next one, or decides a plan. *)
MaySend(s, p, m) ==
    /\ m <= p.msgs /\ p.went[m] = None
    /\ \A i \in 1..Len(s.queue) : s.queue[i].msg # m /\ (s.queue[i].msg < m => m \in p.direct)
    /\ \A e \in Msgs : p.went[e] # None /\ e > m => e \in p.direct
    /\ s.turns + Len(s.queue) < p.msgs + p.rare
    /\ s.ids + Len(s.queue) < p.msgs + 1

(* What the history of a step keeps of the one before. *)
Follows(p, q) ==
    /\ q \in History /\ Grows(p, q)
    /\ q.msgs = p.msgs /\ q.rare = p.rare /\ q.home = p.home /\ q.dropped = p.dropped
    /\ q.gone = p.gone /\ q.direct = p.direct /\ q.raced = p.raced
    /\ p.moved \subseteq q.moved
    /\ p.crossed => q.crossed

LEMMA TargetFacts ==
  ASSUME NEW s \in Store, s.ids < MaxMsgs + 1
  PROVE  /\ Target(s) \in Convs /\ Base(s) \in Conversation /\ Base(s).log \in Seq(Exchange)
         /\ \/ Present(s, Target(s)) /\ Base(s) = s.conv[Target(s)] /\ Target(s) = s.active
            \/ Target(s) = s.ids + 1 /\ Base(s).log = << >>
<1>1. s.ids \in Convs /\ s.ids + 1 \in Convs
  BY Numbers DEF Store, Convs
<1>2. NoConversation \in Conversation /\ NoConversation.log = << >> /\ << >> \in Seq(Exchange)
  BY DEF NoConversation, Conversation
<1>3. CASE Present(s, s.active)
  BY <1>3 DEF Target, Base, Present, Store, Shown, Conversation
<1>4. CASE ~Present(s, s.active)
  BY <1>4, <1>1, <1>2 DEF Target, Base
<1> QED BY <1>3, <1>4

LEMMA SendKeepsGood ==
  ASSUME NEW y, NEW p, NEW op, chat \in Store, Good(y, p, op), p.went = past.went,
         NEW m \in Msgs, MaySend(y, p, m), y.turns = chat.turns,
         \A t \in Turns : Live(y, t) => Live(chat, t),
         m \in QueuedMsgs(chat) \/ p.home[m] = Target(y),
         NEW new, new = SendNow(y, m), NEW q, q = Noted(p, new)
  PROVE  /\ Good(new, q, op) /\ Follows(p, q) /\ new.queue = y.queue /\ y.ids <= new.ids
         /\ q.went[m] # None /\ \A e \in Msgs \ {m} : q.went[e] = p.went[e]
<1> DEFINE d == Target(y)
           t1 == y.turns + 1
           v == [Base(y) EXCEPT !.streaming = TRUE, !.error = FALSE,
                                !.log = Append(@, [msg |-> m, reply |-> "empty"])]
           pm == [p EXCEPT !.went = [@ EXCEPT ![m] = d]]
<1>1. /\ y \in Store /\ p \in History /\ op \subseteq Convs /\ LogsFit(y, p)
      /\ QueueFits(y.queue, p) /\ Paid(y, p) /\ Backed(y) /\ Lone(y, p) /\ Removed(y, p, op)
      /\ SentHome(p)
  BY DEF Good
<1>2. /\ y.ids \in Nat /\ y.turns \in Nat /\ Len(y.queue) \in Nat
      /\ p.msgs \in Nat /\ p.rare \in Nat /\ p.msgs <= MaxMsgs /\ p.rare <= MaxRare
  BY <1>1, StoreTypes, HistoryTypes
<1>3. y.ids < MaxMsgs + 1 /\ y.turns < MaxMsgs + MaxRare
  <2>1. y.turns + Len(y.queue) < p.msgs + p.rare /\ y.ids + Len(y.queue) < p.msgs + 1
    BY DEF MaySend
  <2>2. MaxMsgs \in Nat /\ MaxRare \in Nat
    BY Numbers
  <2>3. y.ids < MaxMsgs + 1
    BY ONLY <2>1, <2>2, <1>2
  <2>4. y.turns < MaxMsgs + MaxRare
    BY ONLY <2>1, <2>2, <1>2
  <2> QED BY <2>3, <2>4
<1>4. /\ d \in Convs /\ Base(y) \in Conversation /\ Base(y).log \in Seq(Exchange)
      /\ \/ Present(y, d) /\ Base(y) = y.conv[d] /\ d = y.active
         \/ d = y.ids + 1 /\ Base(y).log = << >>
  BY <1>1, <1>3, TargetFacts
<1>5. /\ v \in Conversation /\ v.streaming /\ v.log = Append(Base(y).log, [msg |-> m, reply |-> "empty"])
  <2>1. [msg |-> m, reply |-> "empty"] \in Exchange
    BY DEF Exchange, Replies, Msgs
  <2>2. Append(Base(y).log, [msg |-> m, reply |-> "empty"]) \in Seq(Exchange)
    BY <2>1, <1>4
  <2> QED BY <2>2, <1>4 DEF Conversation
<1>6. new = StreamTurn(y, d, v)
  BY DEF SendNow
<1> HIDE DEF d, v
<1>7. /\ new \in Store /\ new.conv = [y.conv EXCEPT ![d] = v] /\ new.active = d
      /\ new.queue = y.queue /\ new.controller = t1 /\ new.turns = t1 /\ t1 \in Turns
      /\ new.ids = IF d > y.ids THEN d ELSE y.ids
      /\ new.stored = y.stored \/ new.stored = [conv |-> new.conv, active |-> new.active]
      /\ new.turn[t1] = Begun(d, v)
      /\ \A t \in Turns \ {t1} :
            new.turn[t] = IF y.controller = t THEN [y.turn[t] EXCEPT !.aborted = TRUE]
                          ELSE y.turn[t]
  <2>1. y \in Store /\ d \in Convs /\ v \in Conversation /\ y.turns < MaxMsgs + MaxRare
    BY <1>1, <1>3, <1>4, <1>5
  <2>2. /\ new \in Store /\ new.conv = [y.conv EXCEPT ![d] = v] /\ new.active = d
        /\ new.queue = y.queue /\ new.controller = t1 /\ new.turns = t1 /\ t1 \in Turns
        /\ new.ids = IF d > y.ids THEN d ELSE y.ids
        /\ new.stored = y.stored \/ new.stored = [conv |-> new.conv, active |-> d]
        /\ new.turn[t1] = Begun(d, v)
        /\ \A t \in Turns \ {t1} :
              new.turn[t] = IF y.controller = t THEN [y.turn[t] EXCEPT !.aborted = TRUE]
                            ELSE y.turn[t]
    BY ONLY <2>1, <1>6, StreamTurnFields
  <2> QED BY <2>2
<1>8. \A t \in Turns \ {t1} :
         /\ new.turn[t].stage = y.turn[t].stage /\ new.turn[t].conv = y.turn[t].conv
         /\ new.turn[t].copy = y.turn[t].copy
         /\ y.turn[t].aborted => new.turn[t].aborted
  <2>1. \A t \in Turns : y.turn[t] \in Turn
    BY <1>1 DEF Store
  <2> SUFFICES ASSUME NEW t \in Turns \ {t1}
               PROVE  /\ new.turn[t].stage = y.turn[t].stage /\ new.turn[t].conv = y.turn[t].conv
                      /\ new.turn[t].copy = y.turn[t].copy
                      /\ y.turn[t].aborted => new.turn[t].aborted
    OBVIOUS
  <2>2. CASE y.controller = t
    <3>1. new.turn[t] = [y.turn[t] EXCEPT !.aborted = TRUE]
      BY <2>2, <1>7
    <3> QED BY <2>1, <3>1, TurnAborted
  <2>3. CASE y.controller # t
    <3>1. new.turn[t] = y.turn[t]
      BY <2>3, <1>7
    <3> QED BY <3>1
  <2> QED BY <2>2, <2>3
<1>9. Begun(d, v).stage = "request" /\ Begun(d, v).conv = d /\ Begun(d, v).copy = v
  BY DEF Begun
<1>10. y.ids <= new.ids /\ d <= new.ids /\ new.ids \in Nat /\ new.ids <= y.ids + 1
  <2>1. d \in Nat /\ (d <= y.ids \/ d = y.ids + 1)
    BY <1>1, <1>4, Numbers DEF LogsFit, ShownFits, Fits, Belongs, Present
  <2>2. new.ids = IF d > y.ids THEN d ELSE y.ids
    BY <1>7
  <2> QED BY ONLY <2>1, <2>2, <1>2
<1>11. /\ pm \in History /\ pm.went = [p.went EXCEPT ![m] = d] /\ pm.direct = p.direct
       /\ p.went \in [Msgs -> Convs \cup {None}] /\ p.went[m] = None
  BY <1>1, <1>4 DEF History, MaySend
<1> HIDE DEF pm
<1>12. Grows(p, pm)
  BY <1>11 DEF Grows
<1>13. y.conv \in Shown
  BY <1>1 DEF Store
<1>14. Belongs(d, v.log, pm, new.ids)
  <2>1. Belongs(d, Base(y).log, p, y.ids) \/ Base(y).log = << >>
    BY <1>1, <1>4 DEF LogsFit, ShownFits, Fits, Present
  <2>2. Belongs(d, Base(y).log, pm, new.ids) \/ (Base(y).log = << >> /\ d <= new.ids)
    BY <2>1, <1>2, <1>4, <1>10, <1>12, BelongsGrows
  <2>3. \A i \in 1..Len(Base(y).log) : Base(y).log[i].msg # 0 => p.went[Base(y).log[i].msg] # None
    <3>1. CASE Base(y).log = << >>
      BY <3>1
    <3>2. CASE Belongs(d, Base(y).log, p, y.ids)
      BY <3>2, <1>4, Numbers DEF Belongs
    <3> QED BY <2>1, <3>1, <3>2
  <2>4. \A e \in Msgs : p.went[e] # None /\ e > m => e \in p.direct
    BY DEF MaySend
  <2>5. pm.went[m] = d
    BY <1>11
  <2>6. Belongs(d, Append(Base(y).log, [msg |-> m, reply |-> "empty"]), pm, new.ids)
    BY ONLY <2>2, <2>3, <2>4, <2>5, <1>4, <1>10, <1>11, <1>12, AppendFits, m \in Msgs
  <2> QED BY <2>6, <1>5
<1>15. v.log # << >> /\ \E i \in 1..Len(v.log) : v.log[i].msg = m
  <2>1. Len(Base(y).log) \in Nat
    BY <1>4, LenProperties
  <2>2. Len(v.log) = Len(Base(y).log) + 1 /\ v.log[Len(Base(y).log) + 1].msg = m
    BY <1>4, <1>5
  <2> QED BY <2>1, <2>2, <1>5
<1>16. ShownFits(new.conv, pm, new.ids)
  <2>1. ShownFits(y.conv, p, y.ids)
    BY <1>1 DEF LogsFit
  <2>2. ShownFits([y.conv EXCEPT ![d] = v], pm, new.ids)
    <3>1. y.ids \in Nat /\ new.ids \in Nat /\ y.ids <= new.ids /\ d \in Convs /\ v \in Conversation
      BY <1>2, <1>4, <1>5, <1>10
    <3>2. Fits(d, v, pm, new.ids)
      BY <1>14, <1>15 DEF Fits
    <3> QED BY ONLY <2>1, <3>1, <3>2, <1>12, <1>13, ShownPut
  <2> QED BY <2>2, <1>7
<1>17. new.conv[d] = v /\ v # None
  BY <1>4, <1>5, <1>7, <1>13, Numbers DEF Shown
<1>18. Sent(new) = {m} /\ WhereIs(new, m) = d
  <2>1. \E i \in 1..Len(new.conv[d].log) : new.conv[d].log[i].msg = m
    BY <1>17, <1>15
  <2>2. pm.went = [p.went EXCEPT ![m] = d]
    BY <1>11
  <2>3. new.conv[d] # None /\ p \in History /\ new \in Store /\ d \in Convs /\ p.went[m] = None
    BY <1>1, <1>4, <1>7, <1>11, <1>17
  <2>4. m \in Msgs /\ p.went = past.went
    OBVIOUS
  <2> QED BY ONLY <2>1, <2>2, <2>3, <2>4, <1>16, OneSent
<1>19. /\ q \in History
       /\ q.msgs = p.msgs /\ q.rare = p.rare /\ q.home = p.home /\ q.dropped = p.dropped
       /\ q.gone = p.gone /\ q.direct = p.direct /\ q.raced = p.raced
       /\ q.went = [e \in Msgs |-> IF e \in Sent(new) THEN WhereIs(new, e) ELSE p.went[e]]
       /\ p.moved \subseteq q.moved
       /\ \A e \in QueuedMsgs(chat) : new.active # p.home[e] => e \in q.moved
       /\ q.crossed <=> \/ p.crossed
                        \/ new.turns > chat.turns /\ \E t \in Turns : Live(chat, t) /\ Live(new, t)
  BY <1>1, <1>4, <1>7, <1>18, NotedFields
<1>20. q.went[m] = d /\ \A e \in Msgs \ {m} : q.went[e] = p.went[e]
  BY <1>18, <1>19
<1>21. Grows(p, q) /\ Grows(pm, q)
  BY <1>11, <1>19, <1>20 DEF Grows
<1>22. Follows(p, q)
  BY <1>19, <1>21 DEF Follows
<1>23. LogsFit(new, q)
  <2>1. ShownFits(new.conv, q, new.ids)
    BY <1>16, <1>21, <1>7, <1>10, ShownGrows DEF Store
  <2>2. Belongs(d, v.log, q, new.ids)
    <3>1. v.log \in Seq(Exchange) /\ new.ids <= new.ids /\ d \in Convs /\ new.ids \in Nat
      BY <1>4, <1>5, <1>10 DEF Conversation
    <3> QED BY ONLY <3>1, <1>14, <1>21, BelongsGrows
  <2>3. TurnFits(new, t1, q)
    BY <2>2, <1>4, <1>7, <1>9, <1>15 DEF TurnFits
  <2>4. \A t \in Turns \ {t1} : TurnKept(new.turn[t], y.turn[t])
    BY <1>8 DEF TurnKept
  <2> QED BY <2>1, <2>3, <2>4, <1>1, <1>7, <1>10, <1>21, LogsAfter
<1>24. QueueFits(new.queue, q)
  <2>1. y.queue \in Seq(Queued) /\ \A i \in 1..Len(y.queue) : y.queue[i].msg \in Msgs
    BY <1>1, StoreTypes
  <2>2. \A i \in 1..Len(y.queue) : y.queue[i].msg <= q.msgs /\ q.went[y.queue[i].msg] = None
    BY <2>1, <1>1, <1>19, <1>20 DEF QueueFits, MaySend
  <2>3. ASSUME NEW i \in 1..Len(y.queue), NEW e \in Msgs, q.went[e] # None, e > y.queue[i].msg
        PROVE  e \in q.direct
    <3>1. CASE e = m
      BY <3>1, <2>3, <1>19, <2>1, Numbers DEF MaySend
    <3>2. CASE e # m
      BY <3>2, <2>3, <1>1, <1>19, <1>20 DEF QueueFits
    <3> QED BY <3>1, <3>2
  <2> QED BY <2>2, <2>3, <1>1, <1>7 DEF QueueFits
<1>25. Paid(new, q)
  <2>1. new.turns + Len(new.queue) <= q.msgs + q.rare /\ new.ids + Len(new.queue) <= q.msgs + 1
    <3>1. y.turns + Len(y.queue) < p.msgs + p.rare /\ y.ids + Len(y.queue) < p.msgs + 1
      BY DEF MaySend
    <3>2. new.turns = y.turns + 1 /\ new.queue = y.queue /\ q.msgs = p.msgs /\ q.rare = p.rare
      BY <1>7, <1>19
    <3>3. y.turns + 1 + Len(y.queue) <= p.msgs + p.rare /\ new.ids + Len(y.queue) <= p.msgs + 1
      <4>1. new.ids \in Nat /\ new.ids <= y.ids + 1
        BY <1>10
      <4>2. new.ids + Len(y.queue) <= p.msgs + 1
        BY ONLY <3>1, <1>2, <4>1
      <4>3. y.turns + 1 + Len(y.queue) <= p.msgs + p.rare
        BY ONLY <3>1, <1>2
      <4> QED BY <4>2, <4>3
    <3> QED BY <3>2, <3>3
  <2>2. ASSUME NEW t \in Turns, t > new.turns PROVE ~Live(new, t)
    <3>1. t > y.turns /\ t # t1
      BY <2>2, <1>2, <1>7, Numbers
    <3> QED BY <3>1, <1>1, <1>8 DEF Paid, Live
  <2> QED BY <2>1, <2>2 DEF Paid
<1>26. Backed(new)
  <2> SUFFICES ASSUME NEW c \in Convs, Streaming(new, c) PROVE LiveOn(new, c) # {}
    BY DEF Backed
  <2>1. CASE c = d
    <3>1. t1 \in LiveOn(new, c)
      BY <2>1, <1>7, <1>9 DEF LiveOn, Live
    <3> QED BY <3>1
  <2>2. CASE c # d
    <3>1. Streaming(y, c)
      BY <2>2, <1>4, <1>7, <1>13 DEF Streaming, Present, Shown
    <3>2. PICK t \in Turns : Live(y, t) /\ y.turn[t].conv = c
      BY <3>1, <1>1 DEF Backed, LiveOn
    <3>3. t # t1
      BY <3>2, <1>1, <1>2 DEF Paid
    <3>4. t \in LiveOn(new, c)
      BY <3>2, <3>3, <1>8 DEF LiveOn, Live
    <3> QED BY <3>4
  <2> QED BY <2>1, <2>2
<1>27. Lone(new, q)
  <2>1. ASSUME ~q.crossed, NEW t \in Turns, Live(new, t) PROVE t = t1
    <3>1. SUFFICES ASSUME t # t1 PROVE FALSE
      OBVIOUS
    <3>2. Live(chat, t)
      BY <2>1, <3>1, <1>8 DEF Live
    <3>3. new.turns > chat.turns
      BY <1>2, <1>7
    <3> QED BY <2>1, <3>2, <3>3, <1>19
  <2> QED BY <2>1, <1>7 DEF Lone
<1>28. Removed(new, q, op)
  <2> SUFFICES ASSUME NEW c \in Convs
               PROVE  /\ q.gone[c] # "no" => c <= new.ids
                      /\ q.gone[c] \in {"cleared", "deleted"} /\ ~q.crossed =>
                             /\ ~Present(new, c) /\ c \notin op
                             /\ \A t \in LiveOn(new, c) : new.turn[t].aborted
    BY DEF Removed
  <2>1. q.gone[c] # "no" => c <= y.ids
    BY <1>1, <1>19 DEF Removed
  <2>2. q.gone[c] # "no" => c <= new.ids
    BY <2>1, <1>2, <1>10, Numbers
  <2>3. ASSUME q.gone[c] \in {"cleared", "deleted"}, ~q.crossed
        PROVE  /\ ~Present(new, c) /\ c \notin op
               /\ \A t \in LiveOn(new, c) : new.turn[t].aborted
    <3>1. /\ ~Present(y, c) /\ c \notin op
          /\ \A t \in LiveOn(y, c) : y.turn[t].aborted
      BY <2>3, <1>1, <1>19 DEF Removed
    <3>2. c # d
      BY <3>1, <2>1, <2>3, <1>2, <1>4, Numbers
    <3>3. ~Present(new, c)
      BY <3>1, <3>2, <1>4, <1>7, <1>13 DEF Present, Shown
    <3>4. ASSUME NEW t \in LiveOn(new, c) PROVE new.turn[t].aborted
      <4>1. t \in Turns /\ t # t1
        BY <3>2, <3>4, <1>7, <1>9 DEF LiveOn
      <4>2. t \in LiveOn(y, c)
        BY <4>1, <3>4, <1>8 DEF LiveOn, Live
      <4> QED BY <4>1, <4>2, <3>1, <1>8
    <3> QED BY <3>1, <3>3, <3>4
  <2> QED BY <2>2, <2>3
<1>29. SentHome(q)
  <2>1. ASSUME NEW e \in Msgs PROVE q.went[e] \in {None, q.home[e]} \/ e \in q.moved
    <3>1. CASE e # m
      BY <3>1, <1>1, <1>19, <1>20 DEF SentHome
    <3>2. CASE e = m
      BY <3>2, <1>7, <1>19, <1>20 DEF d
    <3> QED BY <3>1, <3>2
  <2>2. ASSUME NEW e \in Msgs, e > q.msgs PROVE q.went[e] = None
    <3>1. e # m
      BY <2>2, <1>2, <1>19, Numbers DEF MaySend
    <3> QED BY <3>1, <2>2, <1>1, <1>19, <1>20 DEF SentHome
  <2> QED BY <2>1, <2>2 DEF SentHome
<1>30. Good(new, q, op)
  BY <1>1, <1>7, <1>19, <1>23, <1>24, <1>25, <1>26, <1>27, <1>28, <1>29 DEF Good
<1> QED BY <1>7, <1>10, <1>20, <1>22, <1>30, <1>4, Numbers

-----------------------------------------------------------------------------
(* Steps that send nothing, and the drain. *)

LEMMA GrowsRefl ==
  ASSUME NEW p PROVE Grows(p, p)
BY DEF Grows

(* The queue, the active conversation and the snapshot may change. *)
LEMMA Relisted ==
  ASSUME NEW s, NEW r \in Store, NEW p, NEW op, Good(s, p, op),
         r.conv = s.conv, r.controller = s.controller, r.turn = s.turn,
         r.turns = s.turns, r.ids = s.ids,
         r.stored = s.stored \/ r.stored = [conv |-> r.conv, active |-> r.active],
         QueueFits(r.queue, p), r.turns + Len(r.queue) <= p.msgs + p.rare,
         r.ids + Len(r.queue) <= p.msgs + 1
  PROVE  Good(r, p, op)
<1>1. /\ s \in Store /\ p \in History /\ op \subseteq Convs /\ LogsFit(s, p)
      /\ Paid(s, p) /\ Backed(s) /\ Lone(s, p) /\ Removed(s, p, op) /\ SentHome(p)
  BY DEF Good
<1>2. LogsFit(r, p)
  <2>1. ShownFits(r.conv, p, r.ids) /\ r.ids \in Nat /\ r.ids <= r.ids
    BY <1>1, StoreTypes DEF LogsFit
  <2>2. \A t \in Turns : TurnKept(r.turn[t], s.turn[t])
    BY DEF TurnKept
  <2> QED BY <1>1, <2>1, <2>2, GrowsRefl, LogsAfter
<1>3. Paid(r, p)
  BY <1>1 DEF Paid, Live
<1>4. Backed(r)
  BY <1>1 DEF Backed, Streaming, Present, LiveOn, Live
<1>5. Lone(r, p)
  BY <1>1 DEF Lone, Live
<1>6. Removed(r, p, op)
  BY <1>1 DEF Removed, Present, LiveOn, Live
<1> QED BY <1>1, <1>2, <1>3, <1>4, <1>5, <1>6 DEF Good

LEMMA PatchedKeepsGood ==
  ASSUME NEW s, NEW p, NEW op, Good(s, p, op)
  PROVE  Good(Patched(s), p, op) /\ Snaps(Patched(s), s)
<1> DEFINE r == Patched(s)
<1>1. s \in Store /\ QueueFits(s.queue, p) /\ Paid(s, p)
  BY DEF Good
<1>2. r \in Store /\ Snaps(r, s)
  BY <1>1, PatchedSnaps
<1> HIDE DEF r
<1>3. Good(r, p, op)
  <2>1. /\ r.conv = s.conv /\ r.controller = s.controller /\ r.turn = s.turn
        /\ r.turns = s.turns /\ r.ids = s.ids /\ r.queue = s.queue
        /\ r.stored = s.stored \/ r.stored = [conv |-> r.conv, active |-> r.active]
    BY <1>2 DEF Snaps
  <2>2. /\ QueueFits(r.queue, p) /\ r.turns + Len(r.queue) <= p.msgs + p.rare
        /\ r.ids + Len(r.queue) <= p.msgs + 1
    BY <2>1, <1>1 DEF Paid
  <2> QED BY ONLY <2>1, <2>2, <1>2, Relisted, Good(s, p, op)
<1> QED BY <1>2, <1>3 DEF r

(* The history that follows p has sent nothing more. *)
LEMMA NotedQuietly ==
  ASSUME NEW s \in Store, NEW p \in History, chat \in Store, p.went = past.went,
         ShownFits(s.conv, p, s.ids), NEW q, q = Noted(p, s)
  PROVE  /\ Follows(p, q) /\ q.went = p.went
         /\ q.crossed <=> \/ p.crossed
                          \/ s.turns > chat.turns /\ \E t \in Turns : Live(chat, t) /\ Live(s, t)
<1>1. Sent(s) = {}
  BY NothingSent
<1>2. /\ q \in History
      /\ q.msgs = p.msgs /\ q.rare = p.rare /\ q.home = p.home /\ q.dropped = p.dropped
      /\ q.gone = p.gone /\ q.direct = p.direct /\ q.raced = p.raced
      /\ q.went = [m \in Msgs |-> IF m \in Sent(s) THEN WhereIs(s, m) ELSE p.went[m]]
      /\ p.moved \subseteq q.moved
      /\ q.crossed <=> \/ p.crossed
                       \/ s.turns > chat.turns /\ \E t \in Turns : Live(chat, t) /\ Live(s, t)
  BY <1>1, NotedFields
<1>3. p.went \in [Msgs -> Convs \cup {None}]
  BY HistoryTypes
<1>4. q.went = p.went
  BY <1>1, <1>2, <1>3
<1>5. Grows(p, q)
  BY <1>2, <1>4 DEF Grows
<1> QED BY <1>2, <1>4, <1>5 DEF Follows

LEMMA FollowsKeepsParts ==
  ASSUME NEW s \in Store, NEW p \in History, NEW q, Follows(p, q), q.went = p.went,
         LogsFit(s, p), QueueFits(s.queue, p), Paid(s, p), SentHome(p)
  PROVE  LogsFit(s, q) /\ QueueFits(s.queue, q) /\ Paid(s, q) /\ SentHome(q)
<1>1. LogsFit(s, q)
  <2>1. ShownFits(s.conv, q, s.ids)
    BY StoreTypes, ShownGrows DEF LogsFit, Follows
  <2>2. \A t \in Turns : TurnKept(s.turn[t], s.turn[t])
    BY DEF TurnKept
  <2>3. Grows(p, q) /\ s.ids <= s.ids
    BY StoreTypes DEF Follows
  <2> QED BY ONLY <2>1, <2>2, <2>3, LogsAfter, LogsFit(s, p), s \in Store
<1>2. QueueFits(s.queue, q)
  BY DEF QueueFits, Follows
<1>3. Paid(s, q)
  BY DEF Paid, Follows
<1>4. SentHome(q)
  BY DEF SentHome, Follows
<1> QED BY <1>1, <1>2, <1>3, <1>4

LEMMA FollowsKeepsGone ==
  ASSUME NEW s, NEW p, NEW q, NEW op, Follows(p, q), Lone(s, p), Removed(s, p, op)
  PROVE  Lone(s, q) /\ Removed(s, q, op)
<1>1. (p.crossed => q.crossed) /\ q.gone = p.gone
  BY DEF Follows
<1>2. Lone(s, q)
  BY <1>1 DEF Lone
<1>3. Removed(s, q, op)
  BY <1>1 DEF Removed
<1> QED BY <1>2, <1>3

LEMMA QuietKeepsGood ==
  ASSUME NEW s, NEW p, NEW op, chat \in Store, Good(s, p, op), p.went = past.went,
         NEW q, q = Noted(p, s)
  PROVE  /\ Good(s, q, op) /\ Follows(p, q)
         /\ Accounted(s, p) => Accounted(s, q)
<1>1. /\ s \in Store /\ p \in History /\ op \subseteq Convs /\ LogsFit(s, p)
      /\ QueueFits(s.queue, p) /\ Paid(s, p) /\ Backed(s) /\ Lone(s, p) /\ Removed(s, p, op)
      /\ SentHome(p)
  BY DEF Good
<1>2. Follows(p, q) /\ q.went = p.went
  BY <1>1, NotedQuietly DEF LogsFit
<1>3. LogsFit(s, q) /\ QueueFits(s.queue, q) /\ Paid(s, q) /\ SentHome(q)
  BY <1>1, <1>2, FollowsKeepsParts
<1>4. Lone(s, q) /\ Removed(s, q, op)
  BY <1>1, <1>2, FollowsKeepsGone
<1>5. Accounted(s, p) => Accounted(s, q)
  BY <1>2 DEF Accounted, Follows
<1> QED BY <1>1, <1>2, <1>3, <1>4, <1>5 DEF Good, Follows

LEMMA DrainKeepsGood ==
  ASSUME NEW x, NEW p, NEW op, chat \in Store, Good(x, p, op), Accounted(x, p),
         p.went = past.went, x.turns = chat.turns,
         \A t \in Turns : Live(x, t) => Live(chat, t),
         x.queue # << >> => \/ x.queue[1].msg \in QueuedMsgs(chat)
                            \/ p.home[x.queue[1].msg] = Target(x),
         NEW new, new = Drain(x), NEW q, q = Noted(p, new)
  PROVE  Good(new, q, op) /\ Accounted(new, q) /\ Follows(p, q) /\ x.ids <= new.ids
<1>1. /\ x \in Store /\ p \in History /\ QueueFits(x.queue, p) /\ Paid(x, p)
  BY DEF Good
<1>2. /\ x.ids \in Nat /\ x.turns \in Nat /\ Len(x.queue) \in Nat /\ x.queue \in Seq(Queued)
      /\ p.msgs \in Nat /\ p.rare \in Nat
      /\ \A i \in 1..Len(x.queue) : x.queue[i].msg \in Msgs
  BY <1>1, StoreTypes, HistoryTypes
<1>3. CASE ~MayDrain(x)
  <2>1. new = x
    BY <1>3 DEF Drain
  <2> QED BY <2>1, <1>2, QuietKeepsGood
<1>4. CASE MayDrain(x)
  <2> DEFINE m == Head(x.queue).msg
             z == [x EXCEPT !.queue = Tail(@)]
             y == Patched(z)
             n == Len(x.queue)
  <2>1. x.queue # << >> /\ new = SendNow(y, m)
    BY <1>4 DEF MayDrain, Drain
  <2>2. /\ n >= 1 /\ Head(x.queue) = x.queue[1] /\ Tail(x.queue) \in Seq(Queued)
        /\ Len(Tail(x.queue)) = n - 1 /\ \A i \in 1..(n - 1) : Tail(x.queue)[i] = x.queue[i + 1]
    BY <2>1, <1>2
  <2>3. m \in Msgs /\ m = x.queue[1].msg
    BY <2>2, <1>2
  <2>4. /\ z \in Store /\ z.queue = Tail(x.queue) /\ z.conv = x.conv /\ z.active = x.active
        /\ z.controller = x.controller /\ z.turn = x.turn /\ z.turns = x.turns
        /\ z.ids = x.ids /\ z.stored = x.stored
    BY <1>1, <2>2 DEF Store
  <2> HIDE DEF z
  <2>5. \A i \in 1..Len(z.queue) : i + 1 \in 1..n /\ z.queue[i] = x.queue[i + 1]
    BY <2>2, <2>4, <1>2
  <2>6. QueueFits(z.queue, p)
    <3>1. ASSUME NEW i \in 1..Len(z.queue), NEW j \in 1..Len(z.queue), i < j
          PROVE  z.queue[i].msg < z.queue[j].msg
      <4>1. /\ i + 1 \in 1..n /\ j + 1 \in 1..n /\ i + 1 < j + 1
            /\ z.queue[i] = x.queue[i + 1] /\ z.queue[j] = x.queue[j + 1]
        <5>1. i + 1 < j + 1
          BY <3>1
        <5>2. i + 1 \in 1..n /\ z.queue[i] = x.queue[i + 1]
          BY ONLY <2>5, i \in 1..Len(z.queue)
        <5>3. j + 1 \in 1..n /\ z.queue[j] = x.queue[j + 1]
          BY ONLY <2>5, j \in 1..Len(z.queue)
        <5> QED BY ONLY <5>1, <5>2, <5>3
      <4> QED BY <4>1, <1>1 DEF QueueFits
    <3> QED BY <3>1, <2>5, <1>1 DEF QueueFits
  <2>7. x.turns + n <= p.msgs + p.rare /\ x.ids + n <= p.msgs + 1
    BY <1>1 DEF Paid
  <2>8. z.turns + Len(z.queue) < p.msgs + p.rare /\ z.ids + Len(z.queue) < p.msgs + 1
    <3>1. n - 1 \in Nat /\ n = (n - 1) + 1
      BY <2>2, <1>2
    <3>2. x.turns + (n - 1) < p.msgs + p.rare
      BY <2>2, <2>7, <1>2
    <3>3. x.ids + (n - 1) < p.msgs + 1
      BY <2>2, <2>7, <1>2
    <3> QED BY <2>2, <2>4, <3>2, <3>3
  <2>9. Good(z, p, op)
    <3>1. Len(z.queue) \in Nat /\ z.turns \in Nat /\ z.ids \in Nat
      BY <2>4, StoreTypes
    <3>2. z.turns + Len(z.queue) <= p.msgs + p.rare
      BY <3>1, <2>8, <1>2
    <3>3. z.ids + Len(z.queue) <= p.msgs + 1
      BY <3>1, <2>8, <1>2
    <3> QED BY <3>2, <3>3, <2>4, <2>6, Relisted
  <2>10. Good(y, p, op) /\ Snaps(y, z)
    BY <2>9, PatchedKeepsGood
  <2> HIDE DEF y
  <2>11. /\ y.queue = z.queue /\ y.conv = x.conv /\ y.active = x.active /\ y.turn = x.turn
         /\ y.turns = x.turns /\ y.ids = x.ids
    BY <2>10, <2>4 DEF Snaps
  <2>12. MaySend(y, p, m)
    <3>1. m <= p.msgs /\ p.went[m] = None
      BY <2>2, <2>3, <1>1, <1>2 DEF QueueFits
    <3>2. ASSUME NEW i \in 1..Len(y.queue)
          PROVE  y.queue[i].msg # m /\ (y.queue[i].msg < m => m \in p.direct)
      <4>1. i + 1 \in 1..n /\ y.queue[i] = x.queue[i + 1] /\ 1 \in 1..n /\ 1 < i + 1
        BY <2>5, <2>11, <2>2, <1>2
      <4>2. m < y.queue[i].msg /\ m \in Nat /\ y.queue[i].msg \in Nat
        BY <4>1, <2>3, <1>1, <1>2, Numbers DEF QueueFits
      <4> QED BY <4>2
    <3>3. \A e \in Msgs : p.went[e] # None /\ e > m => e \in p.direct
      BY <2>2, <2>3, <1>1, <1>2 DEF QueueFits
    <3>4. y.turns + Len(y.queue) < p.msgs + p.rare /\ y.ids + Len(y.queue) < p.msgs + 1
      BY <2>8, <2>11, <2>4
    <3> QED BY <3>1, <3>2, <3>3, <3>4 DEF MaySend
  <2>13. Target(y) = Target(x)
    BY <2>11 DEF Target, Present
  <2>14. m \in QueuedMsgs(chat) \/ p.home[m] = Target(y)
    BY <2>1, <2>3, <2>13
  <2>15. y.turns = chat.turns /\ \A t \in Turns : Live(y, t) => Live(chat, t)
    BY <2>11 DEF Live
  <2>16. /\ Good(new, q, op) /\ Follows(p, q) /\ new.queue = y.queue /\ y.ids <= new.ids
         /\ q.went[m] # None /\ \A e \in Msgs \ {m} : q.went[e] = p.went[e]
    BY <2>1, <2>3, <2>10, <2>12, <2>14, <2>15, SendKeepsGood
  <2>17. Accounted(new, q)
    <3> SUFFICES ASSUME NEW e \in Msgs, e <= q.msgs, q.went[e] = None
                 PROVE  e \in QueuedMsgs(new) \cup q.dropped
      BY DEF Accounted
    <3>1. e # m /\ p.went[e] = None /\ q.msgs = p.msgs /\ q.dropped = p.dropped
      BY <2>16 DEF Follows
    <3>2. e \in QueuedMsgs(x) \cup p.dropped
      BY <3>1 DEF Accounted
    <3>3. ASSUME e \in QueuedMsgs(x) PROVE e \in QueuedMsgs(new)
      <4>1. PICK i \in 1..n : x.queue[i].msg = e
        BY <3>3 DEF QueuedMsgs
      <4>2. i # 1
        BY <4>1, <3>1, <2>3
      <4>3. i - 1 \in 1..Len(z.queue) /\ (i - 1) + 1 = i
        BY <4>1, <4>2, <2>2, <2>4, <1>2
      <4>4. z.queue[i - 1] = x.queue[i]
        BY <4>3, <2>5
      <4> QED BY <4>1, <4>3, <4>4, <2>11, <2>16 DEF QueuedMsgs
    <3> QED BY <3>1, <3>2, <3>3
  <2> QED BY <2>11, <2>16, <2>17
<1> QED BY <1>3, <1>4

-----------------------------------------------------------------------------
(* The invariant after a step, by the part of the state it touches. *)

(* The history q records more than p, and nothing about what was sent. *)
Notes(p, q) ==
    /\ q \in History /\ q.went = p.went /\ p.direct \subseteq q.direct
    /\ p.msgs <= q.msgs /\ p.rare <= q.rare /\ q.moved = p.moved
    /\ (q.crossed <=> p.crossed)
    /\ \A m \in Msgs : q.home[m] = p.home[m] \/ p.went[m] = None

Records(p, q) == Notes(p, q) /\ q.gone = p.gone /\ q.raced = p.raced

LEMMA NotesKeepsGood ==
  ASSUME NEW s, NEW p, NEW q, NEW op, NEW oq, Good(s, p, op), Notes(p, q),
         Removed(s, q, oq), oq \subseteq Convs
  PROVE  Good(s, q, oq)
<1>1. /\ s \in Store /\ p \in History /\ op \subseteq Convs /\ LogsFit(s, p)
      /\ QueueFits(s.queue, p) /\ Paid(s, p) /\ Backed(s) /\ Lone(s, p) /\ Removed(s, p, op)
      /\ SentHome(p)
  BY DEF Good
<1>2. /\ s.ids \in Nat /\ s.turns \in Nat /\ Len(s.queue) \in Nat
      /\ p.msgs \in Nat /\ p.rare \in Nat /\ q.msgs \in Nat /\ q.rare \in Nat
      /\ p.msgs <= q.msgs /\ p.rare <= q.rare /\ q \in History
      /\ \A i \in 1..Len(s.queue) : s.queue[i].msg \in Nat
  BY <1>1, StoreTypes, HistoryTypes, Numbers DEF Notes
<1>3. Grows(p, q)
  BY DEF Grows, Notes
<1>4. LogsFit(s, q)
  <2>1. ShownFits(s.conv, q, s.ids)
    BY <1>1, <1>2, <1>3, StoreTypes, ShownGrows DEF LogsFit
  <2>2. \A t \in Turns : TurnKept(s.turn[t], s.turn[t])
    BY DEF TurnKept
  <2>3. s.ids <= s.ids
    BY <1>2
  <2> QED BY ONLY <2>1, <2>2, <2>3, <1>1, <1>3, LogsAfter
<1>5. QueueFits(s.queue, q)
  <2>1. \A i \in 1..Len(s.queue) : s.queue[i].msg <= q.msgs
    <3> SUFFICES ASSUME NEW i \in 1..Len(s.queue) PROVE s.queue[i].msg <= q.msgs
      OBVIOUS
    <3>1. s.queue[i].msg <= p.msgs /\ s.queue[i].msg \in Nat
      BY <1>1, <1>2 DEF QueueFits
    <3> QED BY ONLY <3>1, <1>2
  <2> QED BY <2>1, <1>1 DEF QueueFits, Notes
<1>6. Paid(s, q)
  <2>1. s.turns + Len(s.queue) <= p.msgs + p.rare /\ s.ids + Len(s.queue) <= p.msgs + 1
    BY <1>1 DEF Paid
  <2>2. s.turns + Len(s.queue) <= q.msgs + q.rare
    BY ONLY <2>1, <1>2
  <2>3. s.ids + Len(s.queue) <= q.msgs + 1
    BY ONLY <2>1, <1>2
  <2> QED BY <2>2, <2>3, <1>1 DEF Paid
<1>7. Lone(s, q)
  BY <1>1 DEF Lone, Notes
<1>8. SentHome(q)
  <2>1. ASSUME NEW m \in Msgs PROVE q.went[m] \in {None, q.home[m]} \/ m \in q.moved
    BY <1>1 DEF SentHome, Notes
  <2>2. ASSUME NEW m \in Msgs, m > q.msgs PROVE q.went[m] = None
    <3>1. m > p.msgs
      BY <2>2, <1>2, Numbers
    <3> QED BY <3>1, <1>1 DEF SentHome, Notes
  <2> QED BY <2>1, <2>2 DEF SentHome
<1> QED BY <1>1, <1>2, <1>4, <1>5, <1>6, <1>7, <1>8 DEF Good

LEMMA RecordsKeepsGood ==
  ASSUME NEW s, NEW p, NEW q, NEW op, Good(s, p, op), Records(p, q)
  PROVE  Good(s, q, op)
<1>1. Removed(s, p, op) /\ op \subseteq Convs
  BY DEF Good
<1>2. Removed(s, q, op)
  BY <1>1 DEF Removed, Records, Notes
<1> QED BY <1>1, <1>2, NotesKeepsGood DEF Records

LEMMA NetFollows ==
  ASSUME NEW sv, NEW wr, NEW op, NEW p, NEW q, NEW n \in Nat, NEW k \in Nat,
         NetFits(sv, wr, op, p, n), Grows(p, q), n <= k
  PROVE  NetFits(sv, wr, op, q, k)
<1>1. /\ sv \in [Convs -> Saved] /\ wr \subseteq Request
      /\ ~Persist => wr = {} /\ op = {} /\ \A c \in Convs : sv[c] = Unsaved
  BY DEF NetFits
<1>2. ASSUME NEW c \in Convs PROVE RowsFit(c, sv[c].rows, q)
  <2>1. RowsFit(c, sv[c].rows, p)
    BY DEF NetFits
  <2>2. ASSUME NEW x \in sv[c].rows, x.msg # 0 PROVE q.went[x.msg] = c
    <3>1. x \in Row
      BY <1>1 DEF Saved
    <3>2. x.msg \in Msgs
      BY <2>2, <3>1, Numbers DEF Row, Msgs
    <3>3. p.went[x.msg] = c
      BY <2>1, <2>2 DEF RowsFit
    <3> QED BY <3>2, <3>3, Numbers DEF Grows
  <2> QED BY <2>1, <2>2 DEF RowsFit
<1>3. \A c \in Convs : (sv[c].status = "active" \/ c \in op) => c <= k
  <2>1. \A c \in Convs : (sv[c].status = "active" \/ c \in op) => c <= n
    BY DEF NetFits
  <2> QED BY <2>1, Numbers
<1>4. ASSUME NEW r \in wr
      PROVE  r.conv <= k /\ (r.kind = "turn" /\ r.row.msg # 0 => q.went[r.row.msg] = r.conv)
  <2>1. r.conv <= n /\ (r.kind = "turn" /\ r.row.msg # 0 => p.went[r.row.msg] = r.conv)
    BY <1>4 DEF NetFits
  <2>2. r.conv \in Convs /\ (r.kind = "turn" => r.row \in Row)
    BY <1>1, <1>4 DEF Request
  <2>3. r.conv <= k
    <3>1. r.conv \in Nat /\ r.conv <= n
      BY <2>1, <2>2, Numbers
    <3> QED BY ONLY <3>1, n \in Nat, k \in Nat, n <= k
  <2>4. ASSUME r.kind = "turn", r.row.msg # 0 PROVE q.went[r.row.msg] = r.conv
    <3>1. r.row.msg \in Msgs
      BY <2>2, <2>4, Numbers DEF Row, Msgs
    <3> QED BY <3>1, <2>1, <2>2, <2>4, Numbers DEF Grows
  <2> QED BY <2>3, <2>4
<1> QED BY <1>1, <1>2, <1>3, <1>4 DEF NetFits

(* What a step owes on the server's side when it touches only the browser. *)
LEMMA LocalNet ==
  ASSUME NEW p, NEW q, NEW n \in Nat, NEW k \in Nat, n <= k, Follows(p, q),
         NetFits(server, wire, opening, p, n), DeletionHolds(server, wire, p),
         UNCHANGED <<server, wire, opening>>
  PROVE  NetFits(server', wire', opening', q, k) /\ DeletionHolds(server', wire', q)
<1>1. server' = server /\ wire' = wire /\ opening' = opening
  OBVIOUS
<1>2. NetFits(server, wire, opening, q, k)
  BY NetFollows DEF Follows
<1>3. (p.crossed => q.crossed) /\ q.gone = p.gone /\ q.raced = p.raced
  BY DEF Follows
<1>4. DeletionHolds(server, wire, q)
  BY <1>3 DEF DeletionHolds
<1> QED BY <1>1, <1>2, <1>4

LEMMA FinishQuiet ==
  ASSUME NEW s, NEW p, chat \in Store, Good(s, p, opening'), Accounted(s, p), p.went = past.went,
         NetFits(server', wire', opening', p, s.ids), DeletionHolds(server', wire', p), Becomes(s, p)
  PROVE  ChatInv'
<1>1. chat' = s /\ past' = Noted(p, s)
  BY DEF Becomes
<1>2. Good(s, past', opening') /\ Follows(p, past') /\ Accounted(s, past')
  BY <1>1, QuietKeepsGood
<1>3. s.ids \in Nat /\ s.ids <= s.ids
  BY <1>2, StoreTypes DEF Good
<1>4. NetFits(server', wire', opening', past', s.ids)
  BY <1>2, <1>3, NetFollows DEF Follows
<1>5. (p.crossed => past'.crossed) /\ past'.gone = p.gone /\ past'.raced = p.raced
  BY <1>2 DEF Follows
<1>6. DeletionHolds(server', wire', past')
  BY <1>5 DEF DeletionHolds
<1> QED BY <1>1, <1>2, <1>4, <1>6 DEF ChatInv

LEMMA FinishDrain ==
  ASSUME NEW x, NEW p, chat \in Store, Good(x, p, opening'), Accounted(x, p), p.went = past.went,
         x.turns = chat.turns, \A t \in Turns : Live(x, t) => Live(chat, t),
         x.queue # << >> => \/ x.queue[1].msg \in QueuedMsgs(chat)
                            \/ p.home[x.queue[1].msg] = Target(x),
         NetFits(server', wire', opening', p, x.ids), DeletionHolds(server', wire', p),
         Becomes(Drain(x), p)
  PROVE  ChatInv'
<1> DEFINE new == Drain(x)
<1>1. chat' = new /\ past' = Noted(p, new)
  BY DEF Becomes
<1>2. Good(new, past', opening') /\ Accounted(new, past') /\ Follows(p, past') /\ x.ids <= new.ids
  BY <1>1, DrainKeepsGood
<1> HIDE DEF new
<1>3. x.ids \in Nat /\ new.ids \in Nat
  BY <1>2, StoreTypes DEF Good
<1>4. NetFits(server', wire', opening', past', new.ids)
  BY <1>2, <1>3, NetFollows DEF Follows
<1>5. (p.crossed => past'.crossed) /\ past'.gone = p.gone /\ past'.raced = p.raced
  BY <1>2 DEF Follows
<1>6. DeletionHolds(server', wire', past')
  BY <1>5 DEF DeletionHolds
<1> QED BY <1>1, <1>2, <1>4, <1>6 DEF ChatInv

LEMMA LocalQuiet ==
  ASSUME NEW s, NEW p, chat \in Store, Good(s, p, opening), Accounted(s, p), p.went = past.went,
         NetFits(server, wire, opening, p, s.ids), DeletionHolds(server, wire, p), Locally(s, p)
  PROVE  ChatInv'
<1>1. Becomes(s, p) /\ server' = server /\ wire' = wire /\ opening' = opening
  BY DEF Locally
<1>2. /\ Good(s, p, opening') /\ NetFits(server', wire', opening', p, s.ids)
      /\ DeletionHolds(server', wire', p)
  BY <1>1
<1> QED BY <1>1, <1>2, FinishQuiet

(* Setting the queue, which drains it. *)
LEMMA SetQueueStep ==
  ASSUME NEW p, NEW qn \in Seq(Queued), chat \in Store, Good(chat, p, opening), p.went = past.went,
         QueueFits(qn, p), chat.turns + Len(qn) <= p.msgs + p.rare,
         chat.ids + Len(qn) <= p.msgs + 1,
         \A m \in Msgs : m <= p.msgs /\ p.went[m] = None =>
                            m \in {qn[i].msg : i \in 1..Len(qn)} \cup p.dropped,
         qn # << >> => qn[1].msg \in QueuedMsgs(chat) \/ p.home[qn[1].msg] = Target(chat),
         NetFits(server, wire, opening, p, chat.ids), DeletionHolds(server, wire, p),
         Locally(SetQueue(chat, qn), p)
  PROVE  ChatInv'
<1> DEFINE z == [chat EXCEPT !.queue = qn]
           x == Patched(z)
<1>1. /\ z \in Store /\ z.queue = qn /\ z.conv = chat.conv /\ z.active = chat.active
      /\ z.controller = chat.controller /\ z.turn = chat.turn /\ z.turns = chat.turns
      /\ z.ids = chat.ids /\ z.stored = chat.stored
  BY DEF Store
<1>2. Locally(Drain(x), p)
  BY DEF SetQueue
<1> HIDE DEF z
<1>3. Good(z, p, opening)
  BY <1>1, Relisted
<1>4. Good(x, p, opening) /\ Snaps(x, z)
  BY <1>3, PatchedKeepsGood
<1> HIDE DEF x
<1>5. /\ x.queue = qn /\ x.conv = chat.conv /\ x.active = chat.active /\ x.turn = chat.turn
      /\ x.turns = chat.turns /\ x.ids = chat.ids
  BY <1>1, <1>4 DEF Snaps
<1>6. Accounted(x, p)
  BY <1>5 DEF Accounted, QueuedMsgs
<1>7. Target(x) = Target(chat)
  BY <1>5 DEF Target, Present
<1>8. \A t \in Turns : Live(x, t) => Live(chat, t)
  BY <1>5 DEF Live
<1>9. /\ NetFits(server', wire', opening', p, x.ids) /\ DeletionHolds(server', wire', p)
      /\ Good(x, p, opening') /\ Becomes(Drain(x), p)
  BY <1>2, <1>4, <1>5 DEF Locally
<1>10. x.queue # << >> => x.queue[1].msg \in QueuedMsgs(chat) \/ p.home[x.queue[1].msg] = Target(x)
  BY <1>5, <1>7
<1> QED BY <1>5, <1>6, <1>8, <1>9, <1>10, FinishDrain

-----------------------------------------------------------------------------
(* Typing. *)

LEMMA InvParts ==
  ASSUME ChatInv
  PROVE  /\ chat \in Store /\ past \in History /\ opening \subseteq Convs
         /\ Good(chat, past, opening) /\ Accounted(chat, past)
         /\ NetFits(server, wire, opening, past, chat.ids)
         /\ DeletionHolds(server, wire, past)
         /\ LogsFit(chat, past) /\ QueueFits(chat.queue, past) /\ Paid(chat, past)
         /\ Backed(chat) /\ Lone(chat, past) /\ Removed(chat, past, opening) /\ SentHome(past)
BY DEF ChatInv, Good

LEMMA RecordsKeepsNet ==
  ASSUME NEW p, NEW q, NEW n, Records(p, q),
         NetFits(server, wire, opening, p, n), DeletionHolds(server, wire, p)
  PROVE  NetFits(server, wire, opening, q, n) /\ DeletionHolds(server, wire, q)
<1>1. NetFits(server, wire, opening, q, n)
  BY DEF Records, Notes, NetFits, RowsFit
<1>2. DeletionHolds(server, wire, q)
  BY DEF Records, Notes, DeletionHolds
<1> QED BY <1>1, <1>2

(* Message m has been recorded with the conversation it is meant for. *)
Composed(p, m) ==
    /\ past.msgs < MaxMsgs /\ m = past.msgs + 1
    /\ \/ p = [past EXCEPT !.msgs = m, !.home[m] = Target(chat)]
       \/ \E dir \in {past.direct, past.direct \cup {m}} :
            p = [past EXCEPT !.msgs = m, !.home[m] = Target(chat), !.direct = dir]

LEMMA NewMessage ==
  ASSUME ChatInv, NEW m, NEW p, Composed(p, m)
  PROVE  /\ m \in Msgs /\ past.went[m] = None /\ Records(past, p) /\ chat.ids < MaxMsgs + 1
         /\ p.msgs = m /\ p.rare = past.rare /\ p.home[m] = Target(chat)
         /\ p.dropped = past.dropped
         /\ chat.turns + Len(chat.queue) + 1 <= p.msgs + p.rare
         /\ chat.ids + Len(chat.queue) + 1 <= p.msgs + 1
<1>1. /\ chat \in Store /\ past \in History /\ SentHome(past) /\ Paid(chat, past)
  BY InvParts
<1>2. /\ chat.ids \in Nat /\ chat.turns \in Nat /\ Len(chat.queue) \in Nat
      /\ past.msgs \in Nat /\ past.rare \in Nat /\ past.msgs < MaxMsgs /\ MaxMsgs \in Nat
  BY <1>1, StoreTypes, HistoryTypes, Numbers DEF Composed
<1>3. m \in Msgs /\ m \in 0..MaxMsgs /\ past.msgs <= m /\ m > past.msgs
  BY <1>2 DEF Msgs, Composed
<1>4. past.went[m] = None
  BY <1>1, <1>3 DEF SentHome
<1>5. /\ chat.turns + Len(chat.queue) <= past.msgs + past.rare
      /\ chat.ids + Len(chat.queue) <= past.msgs + 1
  BY <1>1 DEF Paid
<1>6. chat.ids < MaxMsgs + 1
  BY ONLY <1>2, <1>5
<1>7. Target(chat) \in Convs
  BY <1>1, <1>6, TargetFacts
<1> DEFINE h == [past.home EXCEPT ![m] = Target(chat)]
<1>8. h \in [Msgs -> Convs \cup {None}] /\ h[m] = Target(chat) /\ \A e \in Msgs \ {m} : h[e] = past.home[e]
  BY <1>1, <1>3, <1>7 DEF History
<1>9. PICK dir \in SUBSET Msgs : /\ past.direct \subseteq dir
                                 /\ p = [past EXCEPT !.msgs = m, !.home = h, !.direct = dir]
  <2>1. past.direct \in SUBSET Msgs /\ past.direct \cup {m} \in SUBSET Msgs
    BY <1>1, <1>3 DEF History
  <2>2. CASE p = [past EXCEPT !.msgs = m, !.home[m] = Target(chat)]
    <3>1. p = [past EXCEPT !.msgs = m, !.home = h, !.direct = past.direct]
      BY <2>2, <1>1 DEF History
    <3> QED BY <3>1, <2>1
  <2>3. ASSUME NEW dir \in {past.direct, past.direct \cup {m}},
               p = [past EXCEPT !.msgs = m, !.home[m] = Target(chat), !.direct = dir]
        PROVE  p = [past EXCEPT !.msgs = m, !.home = h, !.direct = dir]
    BY <2>3, <1>1 DEF History
  <2> HIDE DEF h
  <2> QED BY <2>1, <2>2, <2>3 DEF Composed
<1> HIDE DEF h
<1>11. /\ p.msgs = m /\ p.home = h /\ p.direct = dir /\ p.rare = past.rare /\ p.went = past.went
       /\ p.moved = past.moved /\ p.dropped = past.dropped /\ p.gone = past.gone
       /\ p.raced = past.raced /\ p.crossed = past.crossed
  BY <1>1, <1>9 DEF History
<1>12. p \in History
  BY <1>1, <1>3, <1>8, <1>9 DEF History
<1>13. \A e \in Msgs : p.home[e] = past.home[e] \/ past.went[e] = None
  BY <1>4, <1>8, <1>11
<1>14. past.rare <= p.rare /\ past.msgs <= p.msgs
  BY <1>2, <1>3, <1>11
<1>15. Records(past, p)
  BY <1>9, <1>11, <1>12, <1>13, <1>14 DEF Records, Notes
<1>16. chat.turns + Len(chat.queue) + 1 <= p.msgs + p.rare
  <2>1. chat.turns + Len(chat.queue) + 1 <= past.msgs + 1 + past.rare
    BY ONLY <1>2, <1>5
  <2> QED BY <2>1, <1>11 DEF Composed
<1>17. chat.ids + Len(chat.queue) + 1 <= p.msgs + 1
  <2>1. chat.ids + Len(chat.queue) + 1 <= past.msgs + 1 + 1
    BY ONLY <1>2, <1>5
  <2> QED BY <2>1, <1>11 DEF Composed
<1> QED BY <1>3, <1>4, <1>6, <1>8, <1>11, <1>15, <1>16, <1>17

LEMMA QueueMessageStep ==
  ASSUME ChatInv, NEW m, NEW p, Composed(p, m), Locally(QueueMessage(chat, m), p)
  PROVE  ChatInv'
<1> DEFINE x == [msg |-> m, editing |-> FALSE]
           n == Len(chat.queue)
           qn == Append(chat.queue, x)
<1>1. /\ chat \in Store /\ past \in History /\ SentHome(past) /\ QueueFits(chat.queue, past)
      /\ Accounted(chat, past) /\ Good(chat, past, opening)
      /\ NetFits(server, wire, opening, past, chat.ids) /\ DeletionHolds(server, wire, past)
  BY InvParts
<1>2. /\ m \in Msgs /\ past.went[m] = None /\ Records(past, p)
      /\ p.msgs = m /\ p.rare = past.rare /\ p.home[m] = Target(chat)
      /\ p.dropped = past.dropped
      /\ chat.turns + n + 1 <= p.msgs + p.rare
      /\ chat.ids + n + 1 <= p.msgs + 1
  BY NewMessage
<1>3. /\ n \in Nat /\ chat.queue \in Seq(Queued) /\ chat.ids \in Nat /\ chat.turns \in Nat
      /\ past.msgs \in Nat /\ m \in Nat
      /\ \A i \in 1..n : chat.queue[i] \in Queued /\ chat.queue[i].msg \in Msgs
  BY <1>1, <1>2, StoreTypes, HistoryTypes, Numbers
<1>4. x \in Queued /\ x.msg = m
  BY <1>2 DEF Queued
<1>5. /\ qn \in Seq(Queued) /\ Len(qn) = n + 1 /\ qn[n + 1] = x
      /\ \A i \in 1..n : qn[i] = chat.queue[i]
  BY <1>3, <1>4
<1>6. \A i \in 1..Len(qn) : i \in 1..n \/ i = n + 1
  BY <1>3, <1>5
<1>7. /\ p.went = past.went /\ past.direct \subseteq p.direct /\ Good(chat, p, opening)
      /\ NetFits(server, wire, opening, p, chat.ids) /\ DeletionHolds(server, wire, p)
  <2>1. Good(chat, p, opening)
    BY ONLY <1>1, <1>2, RecordsKeepsGood
  <2>2. NetFits(server, wire, opening, p, chat.ids) /\ DeletionHolds(server, wire, p)
    BY ONLY <1>1, <1>2, RecordsKeepsNet
  <2> QED BY <2>1, <2>2, <1>2 DEF Records, Notes
<1>8. Locally(SetQueue(chat, qn), p)
  BY DEF QueueMessage
<1> HIDE DEF qn, x
<1>9. \A i \in 1..n : chat.queue[i].msg <= past.msgs /\ chat.queue[i].msg < m
  <2> SUFFICES ASSUME NEW i \in 1..n PROVE chat.queue[i].msg <= past.msgs /\ chat.queue[i].msg < m
    OBVIOUS
  <2>1. chat.queue[i].msg <= past.msgs /\ chat.queue[i].msg \in Nat
    BY <1>1, <1>3, Numbers DEF QueueFits
  <2> QED BY <2>1, <1>3 DEF Composed
<1>10. QueueFits(qn, p)
  <2>1. ASSUME NEW i \in 1..Len(qn), NEW j \in 1..Len(qn), i < j PROVE qn[i].msg < qn[j].msg
    <3>1. i \in 1..n
      BY <2>1, <1>3, <1>5
    <3>2. CASE j \in 1..n
      BY <3>1, <3>2, <2>1, <1>1, <1>5 DEF QueueFits
    <3>3. CASE j = n + 1
      BY <3>1, <3>3, <1>4, <1>5, <1>9
    <3> QED BY <3>2, <3>3, <1>6
  <2>2. ASSUME NEW i \in 1..Len(qn) PROVE qn[i].msg <= p.msgs /\ p.went[qn[i].msg] = None
    <3>1. CASE i \in 1..n
      <4>1. qn[i].msg < m /\ qn[i].msg \in Nat /\ p.went[qn[i].msg] = None
        BY <3>1, <1>1, <1>3, <1>5, <1>7, <1>9, Numbers DEF QueueFits
      <4> QED BY <4>1, <1>2, <1>3
    <3>2. CASE i = n + 1
      BY <3>2, <1>2, <1>3, <1>4, <1>5, <1>7
    <3> QED BY <3>1, <3>2, <1>6
  <2>3. ASSUME NEW i \in 1..Len(qn), NEW e \in Msgs, p.went[e] # None, e > qn[i].msg
        PROVE  e \in p.direct
    <3>1. CASE i \in 1..n
      BY <3>1, <2>3, <1>1, <1>5, <1>7 DEF QueueFits
    <3>2. CASE i = n + 1
      <4>1. e > past.msgs
        BY <3>2, <2>3, <1>3, <1>4, <1>5, Numbers DEF Composed
      <4> QED BY <4>1, <2>3, <1>1, <1>7 DEF SentHome
    <3> QED BY <3>1, <3>2, <1>6
  <2> QED BY <2>1, <2>2, <2>3 DEF QueueFits
<1>11. chat.turns + Len(qn) <= p.msgs + p.rare /\ chat.ids + Len(qn) <= p.msgs + 1
  <2>1. chat.turns + (n + 1) = chat.turns + n + 1 /\ chat.ids + (n + 1) = chat.ids + n + 1
    BY <1>3
  <2> QED BY <2>1, <1>2, <1>5
<1>12. ASSUME NEW e \in Msgs, e <= p.msgs, p.went[e] = None
       PROVE  e \in {qn[i].msg : i \in 1..Len(qn)} \cup p.dropped
  <2>1. CASE e = m
    <3>1. n + 1 \in 1..Len(qn) /\ qn[n + 1].msg = e
      BY <2>1, <1>3, <1>4, <1>5
    <3> QED BY <3>1
  <2>2. CASE e # m
    <3>1. e <= past.msgs
      BY <2>2, <1>12, <1>2, <1>3, Numbers DEF Composed
    <3>2. e \in QueuedMsgs(chat) \cup past.dropped
      BY <3>1, <1>12, <1>1, <1>7 DEF Accounted
    <3>3. ASSUME e \in QueuedMsgs(chat) PROVE \E i \in 1..Len(qn) : qn[i].msg = e
      <4>1. PICK i \in 1..n : chat.queue[i].msg = e
        BY <3>3 DEF QueuedMsgs
      <4>2. i \in 1..Len(qn)
        BY <1>3, <1>5
      <4> QED BY <4>1, <4>2, <1>5
    <3> QED BY <3>2, <3>3, <1>2
  <2> QED BY <2>1, <2>2
<1>13. qn[1].msg \in QueuedMsgs(chat) \/ p.home[qn[1].msg] = Target(chat)
  <2>1. CASE n = 0
    BY <2>1, <1>2, <1>4, <1>5
  <2>2. CASE n # 0
    <3>1. 1 \in 1..n
      BY <2>2, <1>3
    <3> QED BY <3>1, <1>5 DEF QueuedMsgs
  <2> QED BY <2>1, <2>2
<1> QED BY <1>1, <1>5, <1>7, <1>8, <1>10, <1>11, <1>12, <1>13, SetQueueStep

LEMMA ComposeKeeps ==
  ASSUME ChatInv, Compose PROVE ChatInv'
<1> DEFINE m == past.msgs + 1
           p == [past EXCEPT !.msgs = m, !.home[m] = Target(chat)]
<1>1. past.msgs < MaxMsgs /\ Locally(QueueMessage(chat, m), p)
  BY DEF Compose
<1>2. Composed(p, m)
  BY <1>1 DEF Composed
<1> HIDE DEF p, m
<1> QED BY <1>1, <1>2, QueueMessageStep

LEMMA SendDirectKeeps ==
  ASSUME ChatInv, SendDirect PROVE ChatInv'
<1> DEFINE m == past.msgs + 1
           dir == IF chat.queue = << >> THEN past.direct ELSE past.direct \cup {m}
           p == [past EXCEPT !.msgs = m, !.home[m] = Target(chat), !.direct = dir]
<1>1. /\ past.msgs < MaxMsgs
      /\ Locally(IF Idle(chat) THEN SendNow(chat, m) ELSE QueueMessage(chat, m), p)
  <2>1. past \in History
    BY InvParts
  <2>2. p = [past EXCEPT !.msgs = m, !.home[m] = Target(chat),
                         !.direct = IF chat.queue = << >> THEN @ ELSE @ \cup {m}]
    BY <2>1 DEF History
  <2> HIDE DEF p
  <2> QED BY <2>2 DEF SendDirect
<1>2. Composed(p, m)
  BY <1>1 DEF Composed
<1>3. p.direct = dir /\ m = past.msgs + 1
  <2>1. past \in History
    BY InvParts
  <2> QED BY <2>1 DEF History
<1> HIDE DEF p, m
<1>4. CASE ~Idle(chat)
  BY <1>1, <1>2, <1>4, QueueMessageStep
<1>5. CASE Idle(chat)
  <2> DEFINE new == SendNow(chat, m)
  <2>1. chat' = new /\ past' = Noted(p, new) /\ UNCHANGED <<server, wire, opening>>
    BY <1>1, <1>5 DEF Locally, Becomes
  <2>2. /\ chat \in Store /\ past \in History /\ SentHome(past) /\ QueueFits(chat.queue, past)
        /\ Accounted(chat, past) /\ Good(chat, past, opening)
        /\ NetFits(server, wire, opening, past, chat.ids) /\ DeletionHolds(server, wire, past)
    BY InvParts
  <2>3. /\ m \in Msgs /\ past.went[m] = None /\ Records(past, p)
        /\ p.msgs = m /\ p.rare = past.rare /\ p.home[m] = Target(chat)
        /\ p.dropped = past.dropped
        /\ chat.turns + Len(chat.queue) + 1 <= p.msgs + p.rare
        /\ chat.ids + Len(chat.queue) + 1 <= p.msgs + 1
    BY <1>2, NewMessage
  <2>4. Good(chat, p, opening)
    BY ONLY <2>2, <2>3, RecordsKeepsGood
  <2>5. NetFits(server, wire, opening, p, chat.ids) /\ DeletionHolds(server, wire, p)
    BY ONLY <2>2, <2>3, RecordsKeepsNet
  <2>6. p.went = past.went /\ p \in History
    BY <2>3 DEF Records, Notes
  <2>7. /\ chat.ids \in Nat /\ chat.turns \in Nat /\ Len(chat.queue) \in Nat
        /\ p.msgs \in Nat /\ p.rare \in Nat /\ m \in Nat /\ past.msgs \in Nat
        /\ \A i \in 1..Len(chat.queue) : chat.queue[i].msg \in Msgs
    BY <2>2, <2>3, <2>6, StoreTypes, HistoryTypes, Numbers
  <2>8. MaySend(chat, p, m)
    <3>1. m <= p.msgs /\ p.went[m] = None
      BY <2>3, <2>6, <2>7
    <3>2. ASSUME NEW i \in 1..Len(chat.queue)
          PROVE  chat.queue[i].msg # m /\ m \in p.direct
      <4>1. chat.queue[i].msg <= past.msgs /\ chat.queue[i].msg \in Nat
        BY <2>2, <2>7, Numbers DEF QueueFits
      <4>2. chat.queue # << >>
        BY <2>7
      <4> QED BY <4>1, <4>2, <1>3, <2>7
    <3>3. ASSUME NEW e \in Msgs, p.went[e] # None, e > m PROVE e \in p.direct
      <4>1. e > past.msgs
        BY <3>3, <1>3, <2>7, Numbers
      <4> QED BY <4>1, <3>3, <2>2, <2>6 DEF SentHome
    <3>4. chat.turns + Len(chat.queue) < p.msgs + p.rare
      BY ONLY <2>3, <2>7
    <3>5. chat.ids + Len(chat.queue) < p.msgs + 1
      BY ONLY <2>3, <2>7
    <3> QED BY <3>1, <3>2, <3>3, <3>4, <3>5 DEF MaySend
  <2>9. chat.turns = chat.turns /\ \A t \in Turns : Live(chat, t) => Live(chat, t)
    OBVIOUS
  <2>10. /\ Good(new, past', opening) /\ Follows(p, past') /\ new.queue = chat.queue
         /\ chat.ids <= new.ids /\ past'.went[m] # None
         /\ \A e \in Msgs \ {m} : past'.went[e] = p.went[e]
    BY ONLY <2>1, <2>2, <2>3, <2>4, <2>6, <2>8, <2>9, SendKeepsGood
  <2> HIDE DEF new
  <2>11. Accounted(new, past')
    <3> SUFFICES ASSUME NEW e \in Msgs, e <= past'.msgs, past'.went[e] = None
                 PROVE  e \in QueuedMsgs(new) \cup past'.dropped
      BY DEF Accounted
    <3>1. e # m /\ past.went[e] = None /\ past'.msgs = m /\ past'.dropped = past.dropped
      BY <2>3, <2>6, <2>10 DEF Follows
    <3>2. e <= past.msgs
      BY <3>1, <1>3, <2>7, Numbers
    <3>3. e \in QueuedMsgs(chat) \cup past.dropped
      BY <3>1, <3>2, <2>2 DEF Accounted
    <3> QED BY <3>1, <3>3, <2>10 DEF QueuedMsgs
  <2>12. new.ids \in Nat
    BY <2>10, StoreTypes DEF Good
  <2>13. NetFits(server', wire', opening', past', new.ids) /\ DeletionHolds(server', wire', past')
    BY ONLY <2>1, <2>5, <2>7, <2>10, <2>12, LocalNet
  <2> QED BY <2>1, <2>10, <2>11, <2>13 DEF ChatInv
<1> QED BY <1>4, <1>5

(* A queue made of messages of the old one, in their order. *)
LEMMA Requeue ==
  ASSUME ChatInv, NEW qn \in Seq(Queued), NEW p, Records(past, p), p.msgs = past.msgs,
         p.rare = past.rare, NEW f, Len(qn) <= Len(chat.queue),
         \A k \in 1..Len(qn) : f[k] \in 1..Len(chat.queue) /\ qn[k].msg = chat.queue[f[k]].msg,
         \A j, k \in 1..Len(qn) : j < k => f[j] < f[k]
  PROVE  /\ QueueFits(qn, p) /\ chat.turns + Len(qn) <= p.msgs + p.rare
         /\ chat.ids + Len(qn) <= p.msgs + 1
         /\ qn # << >> => qn[1].msg \in QueuedMsgs(chat)
<1>1. chat \in Store /\ past \in History /\ QueueFits(chat.queue, past) /\ Paid(chat, past)
  BY InvParts
<1>2. /\ chat.ids \in Nat /\ chat.turns \in Nat /\ Len(chat.queue) \in Nat /\ Len(qn) \in Nat
      /\ past.msgs \in Nat /\ past.rare \in Nat /\ Len(qn) <= Len(chat.queue)
  BY <1>1, StoreTypes, HistoryTypes, LenProperties
<1>3. QueueFits(qn, p)
  <2>1. p.went = past.went /\ past.direct \subseteq p.direct
    BY DEF Records, Notes
  <2>2. ASSUME NEW j \in 1..Len(qn), NEW k \in 1..Len(qn), j < k PROVE qn[j].msg < qn[k].msg
    <3>1. /\ f[j] \in 1..Len(chat.queue) /\ f[k] \in 1..Len(chat.queue) /\ f[j] < f[k]
          /\ qn[j].msg = chat.queue[f[j]].msg /\ qn[k].msg = chat.queue[f[k]].msg
      BY <2>2
    <3> QED BY <3>1, <1>1 DEF QueueFits
  <2>3. ASSUME NEW k \in 1..Len(qn)
        PROVE  /\ qn[k].msg <= p.msgs /\ p.went[qn[k].msg] = None
               /\ \A e \in Msgs : p.went[e] # None /\ e > qn[k].msg => e \in p.direct
    <3>1. f[k] \in 1..Len(chat.queue) /\ qn[k].msg = chat.queue[f[k]].msg
      OBVIOUS
    <3> QED BY <2>1, <3>1, <1>1 DEF QueueFits
  <2> QED BY <2>2, <2>3 DEF QueueFits
<1>4. /\ chat.turns + Len(chat.queue) <= past.msgs + past.rare
      /\ chat.ids + Len(chat.queue) <= past.msgs + 1
  BY <1>1 DEF Paid
<1>5. chat.turns + Len(qn) <= past.msgs + past.rare
  BY ONLY <1>2, <1>4
<1>6. chat.ids + Len(qn) <= past.msgs + 1
  BY ONLY <1>2, <1>4
<1>7. ASSUME qn # << >> PROVE qn[1].msg \in QueuedMsgs(chat)
  <2>1. 1 \in 1..Len(qn)
    BY <1>7, <1>2
  <2> QED BY <2>1 DEF QueuedMsgs
<1> QED BY <1>3, <1>5, <1>6, <1>7

LEMMA RequeueStep ==
  ASSUME ChatInv, NEW qn \in Seq(Queued), NEW p, Records(past, p), p.msgs = past.msgs,
         p.rare = past.rare, NEW f, Len(qn) <= Len(chat.queue),
         \A k \in 1..Len(qn) : f[k] \in 1..Len(chat.queue) /\ qn[k].msg = chat.queue[f[k]].msg,
         \A j, k \in 1..Len(qn) : j < k => f[j] < f[k],
         past.dropped \subseteq p.dropped,
         \A m \in QueuedMsgs(chat) : m \in {qn[k].msg : k \in 1..Len(qn)} \cup p.dropped,
         Locally(SetQueue(chat, qn), p)
  PROVE  ChatInv'
<1>1. /\ chat \in Store /\ Good(chat, past, opening) /\ Accounted(chat, past)
      /\ NetFits(server, wire, opening, past, chat.ids) /\ DeletionHolds(server, wire, past)
  BY InvParts
<1>2. /\ QueueFits(qn, p) /\ chat.turns + Len(qn) <= p.msgs + p.rare
      /\ chat.ids + Len(qn) <= p.msgs + 1
      /\ qn # << >> => qn[1].msg \in QueuedMsgs(chat)
  BY Requeue
<1>3. Good(chat, p, opening)
  BY ONLY <1>1, Records(past, p), RecordsKeepsGood
<1>4. NetFits(server, wire, opening, p, chat.ids) /\ DeletionHolds(server, wire, p)
  BY ONLY <1>1, Records(past, p), RecordsKeepsNet
<1>5. p.went = past.went
  BY DEF Records, Notes
<1>6. \A m \in Msgs : m <= p.msgs /\ p.went[m] = None =>
                            m \in {qn[i].msg : i \in 1..Len(qn)} \cup p.dropped
  BY <1>1, <1>5 DEF Accounted
<1> QED BY <1>1, <1>2, <1>3, <1>4, <1>5, <1>6, SetQueueStep

LEMMA RemoveAtFacts ==
  ASSUME NEW S, NEW q \in Seq(S), NEW i \in 1..Len(q), NEW r, r = RemoveAt(q, i)
  PROVE  /\ r \in Seq(S) /\ Len(r) = Len(q) - 1
         /\ \A k \in 1..Len(r) : r[k] = IF k < i THEN q[k] ELSE q[k + 1]
<1> DEFINE a == SubSeq(q, 1, i - 1)
           b == SubSeq(q, i + 1, Len(q))
           n == Len(q)
<1>1. n \in Nat /\ i \in Nat /\ i >= 1 /\ i <= n /\ \A k \in 1..n : q[k] \in S
  BY ElementOfSeq, LenProperties
<1>2. a \in Seq(S) /\ Len(a) = i - 1 /\ \A k \in 1..(i - 1) : a[k] = q[k]
  BY <1>1
<1>3. b \in Seq(S) /\ Len(b) = n - i /\ \A k \in 1..(n - i) : b[k] = q[k + i]
  BY <1>1
<1>4. r = a \o b
  BY DEF RemoveAt
<1> HIDE DEF a, b
<1>5. /\ r \in Seq(S) /\ Len(r) = Len(a) + Len(b)
      /\ \A k \in 1..(Len(a) + Len(b)) : r[k] = IF k <= Len(a) THEN a[k] ELSE b[k - Len(a)]
  <2>1. a \in Seq(S) /\ b \in Seq(S)
    BY <1>2, <1>3
  <2>2. /\ a \o b \in Seq(S) /\ Len(a \o b) = Len(a) + Len(b)
        /\ \A k \in 1..(Len(a) + Len(b)) : (a \o b)[k] = IF k <= Len(a) THEN a[k] ELSE b[k - Len(a)]
    BY ONLY <2>1, ConcatProperties
  <2> QED BY ONLY <2>2, <1>4
<1>6. Len(r) = n - 1
  BY <1>1, <1>2, <1>3, <1>5
<1>7. ASSUME NEW k \in 1..(n - 1) PROVE r[k] = IF k < i THEN q[k] ELSE q[k + 1]
  <2>1. k \in Nat /\ k \in 1..(Len(a) + Len(b))
    BY <1>1, <1>2, <1>3
  <2>2. CASE k < i
    <3>1. k \in 1..(i - 1) /\ k <= Len(a)
      BY <2>1, <2>2, <1>1, <1>2
    <3> QED BY <2>1, <2>2, <3>1, <1>2, <1>5
  <2>3. CASE ~(k < i)
    <3>1. ~(k <= Len(a)) /\ k - Len(a) \in 1..(n - i) /\ (k - Len(a)) + i = k + 1
      BY <2>1, <2>3, <1>1, <1>2
    <3> QED BY <2>1, <2>3, <3>1, <1>3, <1>5
  <2> QED BY <2>2, <2>3
<1> QED BY <1>5, <1>6, <1>7

LEMMA DroppedRecords ==
  ASSUME past \in History, NEW d \in SUBSET Msgs, NEW p, p = [past EXCEPT !.dropped = @ \cup d]
  PROVE  /\ Records(past, p) /\ p.dropped = past.dropped \cup d
         /\ p.msgs = past.msgs /\ p.rare = past.rare
<1>1. past.dropped \cup d \in SUBSET Msgs
  BY DEF History
<1>2. p = [past EXCEPT !.dropped = past.dropped \cup d]
  OBVIOUS
<1>3. /\ p.msgs = past.msgs /\ p.home = past.home /\ p.direct = past.direct /\ p.rare = past.rare
      /\ p.went = past.went /\ p.moved = past.moved /\ p.dropped = past.dropped \cup d
      /\ p.gone = past.gone /\ p.raced = past.raced /\ p.crossed = past.crossed
  BY <1>2 DEF History
<1>4. p \in History
  BY <1>1, <1>2 DEF History
<1>5. past.msgs <= p.msgs /\ past.rare <= p.rare
  BY <1>3, HistoryTypes
<1> QED BY <1>3, <1>4, <1>5 DEF Records, Notes

LEMMA SameRecords ==
  ASSUME past \in History PROVE Records(past, past)
BY HistoryTypes DEF Records, Notes

LEMMA RemoveQueuedKeeps ==
  ASSUME ChatInv, NEW i, RemoveQueued(i) PROVE ChatInv'
<1> DEFINE n == Len(chat.queue)
           qn == RemoveAt(chat.queue, i)
           d == {chat.queue[i].msg}
           p == [past EXCEPT !.dropped = @ \cup d]
           f == [k \in 1..Len(qn) |-> IF k < i THEN k ELSE k + 1]
<1>1. chat \in Store /\ past \in History
  BY InvParts
<1>2. n \in Nat /\ chat.queue \in Seq(Queued) /\ \A k \in 1..n : chat.queue[k].msg \in Msgs
  BY <1>1, StoreTypes
<1>3. i \in 1..n /\ Locally(SetQueue(chat, qn), p)
  BY <1>2, LenProperties DEF RemoveQueued
<1>4. /\ Records(past, p) /\ p.dropped = past.dropped \cup d
      /\ p.msgs = past.msgs /\ p.rare = past.rare
  BY <1>1, <1>2, <1>3, DroppedRecords
<1>5. /\ qn \in Seq(Queued) /\ Len(qn) = n - 1
      /\ \A k \in 1..Len(qn) : qn[k] = IF k < i THEN chat.queue[k] ELSE chat.queue[k + 1]
  BY <1>2, <1>3, RemoveAtFacts
<1> HIDE DEF qn, p
<1>6. \A k \in 1..Len(qn) : f[k] \in 1..n /\ qn[k].msg = chat.queue[f[k]].msg
  <2> SUFFICES ASSUME NEW k \in 1..Len(qn)
               PROVE  f[k] \in 1..n /\ qn[k].msg = chat.queue[f[k]].msg
    OBVIOUS
  <2>1. f[k] = IF k < i THEN k ELSE k + 1
    OBVIOUS
  <2>2. k \in 1..n /\ k + 1 \in 1..n
    BY <1>2, <1>5
  <2> QED BY <2>1, <2>2, <1>5
<1>7. \A j, k \in 1..Len(qn) : j < k => f[j] < f[k]
  BY <1>3
<1>8. ASSUME NEW m \in QueuedMsgs(chat)
      PROVE  m \in {qn[k].msg : k \in 1..Len(qn)} \cup p.dropped
  <2>1. PICK k \in 1..n : chat.queue[k].msg = m
    BY DEF QueuedMsgs
  <2>2. CASE k = i
    BY <2>1, <2>2, <1>4
  <2>3. CASE k < i
    <3>1. k \in 1..Len(qn)
      BY <2>3, <1>2, <1>3, <1>5
    <3> QED BY <2>1, <2>3, <3>1, <1>5
  <2>4. CASE k > i
    <3>1. k - 1 \in 1..Len(qn) /\ ~(k - 1 < i) /\ (k - 1) + 1 = k
      BY <2>4, <1>2, <1>3, <1>5
    <3>2. qn[k - 1].msg = m
      BY <2>1, <3>1, <1>5
    <3> QED BY <3>1, <3>2
  <2> QED BY <1>3, <2>2, <2>3, <2>4
<1>9. Len(qn) <= n
  BY <1>2, <1>5
<1>10. past.dropped \subseteq p.dropped
  BY <1>4
<1> HIDE DEF f
<1> QED BY <1>3, <1>4, <1>5, <1>6, <1>7, <1>8, <1>9, <1>10, RequeueStep

(* Editing changes no message. *)
LEMMA EditFacts ==
  ASSUME ChatInv, NEW qn \in Seq(Queued), Len(qn) = Len(chat.queue),
         \A k \in 1..Len(qn) : qn[k].msg = chat.queue[k].msg
  PROVE  /\ QueueFits(qn, past) /\ {qn[k].msg : k \in 1..Len(qn)} = QueuedMsgs(chat)
         /\ qn # << >> => qn[1].msg \in QueuedMsgs(chat)
         /\ chat.turns + Len(qn) <= past.msgs + past.rare /\ chat.ids + Len(qn) <= past.msgs + 1
<1>1. chat \in Store /\ past \in History /\ QueueFits(chat.queue, past) /\ Paid(chat, past)
  BY InvParts
<1>2. QueueFits(qn, past)
  BY <1>1 DEF QueueFits
<1>3. {qn[k].msg : k \in 1..Len(qn)} = QueuedMsgs(chat)
  BY DEF QueuedMsgs
<1>4. qn # << >> => qn[1].msg \in QueuedMsgs(chat)
  <2>1. qn # << >> => 1 \in 1..Len(qn)
    BY LenProperties
  <2> QED BY <2>1, <1>3
<1> QED BY <1>1, <1>2, <1>3, <1>4 DEF Paid

LEMMA EditStep ==
  ASSUME ChatInv, NEW qn \in Seq(Queued), Len(qn) = Len(chat.queue),
         \A k \in 1..Len(qn) : qn[k].msg = chat.queue[k].msg, Locally(SetQueue(chat, qn), past)
  PROVE  ChatInv'
<1>1. /\ chat \in Store /\ Good(chat, past, opening) /\ Accounted(chat, past)
      /\ NetFits(server, wire, opening, past, chat.ids) /\ DeletionHolds(server, wire, past)
  BY InvParts
<1>2. /\ QueueFits(qn, past) /\ {qn[k].msg : k \in 1..Len(qn)} = QueuedMsgs(chat)
      /\ qn # << >> => qn[1].msg \in QueuedMsgs(chat)
      /\ chat.turns + Len(qn) <= past.msgs + past.rare /\ chat.ids + Len(qn) <= past.msgs + 1
  BY EditFacts
<1>3. \A m \in Msgs : m <= past.msgs /\ past.went[m] = None =>
                            m \in {qn[i].msg : i \in 1..Len(qn)} \cup past.dropped
  BY <1>1, <1>2 DEF Accounted
<1> QED BY <1>1, <1>2, <1>3, SetQueueStep

LEMMA CommitQueuedKeeps ==
  ASSUME ChatInv, NEW i, CommitQueued(i) PROVE ChatInv'
<1> DEFINE qn == [chat.queue EXCEPT ![i].editing = FALSE]
<1>1. chat.queue \in Seq(Queued) /\ \A k \in 1..Len(chat.queue) : chat.queue[k] \in Queued
  BY InvParts, StoreTypes
<1>2. i \in 1..Len(chat.queue) /\ Locally(SetQueue(chat, qn), past)
  BY <1>1, LenProperties DEF CommitQueued
<1>3. [chat.queue[i] EXCEPT !.editing = FALSE] \in Queued
      /\ [chat.queue[i] EXCEPT !.editing = FALSE].msg = chat.queue[i].msg
  BY <1>1, <1>2 DEF Queued
<1>4. qn = [chat.queue EXCEPT ![i] = [chat.queue[i] EXCEPT !.editing = FALSE]]
  BY <1>1, <1>2
<1> HIDE DEF qn
<1>5. /\ qn \in Seq(Queued) /\ Len(qn) = Len(chat.queue)
      /\ \A k \in 1..Len(qn) : qn[k].msg = chat.queue[k].msg
  BY <1>1, <1>2, <1>3, <1>4
<1> QED BY <1>2, <1>5, EditStep

LEMMA ClearQueuedEditingKeeps ==
  ASSUME ChatInv, ClearQueuedEditing PROVE ChatInv'
<1> DEFINE qn == [i \in DOMAIN chat.queue |-> [chat.queue[i] EXCEPT !.editing = FALSE]]
<1>1. /\ chat.queue \in Seq(Queued) /\ \A k \in 1..Len(chat.queue) : chat.queue[k] \in Queued
      /\ DOMAIN chat.queue = 1..Len(chat.queue) /\ Len(chat.queue) \in Nat
  BY InvParts, StoreTypes, LenProperties
<1>2. Locally(SetQueue(chat, qn), past)
  BY DEF ClearQueuedEditing
<1>3. \A k \in 1..Len(chat.queue) : /\ [chat.queue[k] EXCEPT !.editing = FALSE] \in Queued
                                    /\ [chat.queue[k] EXCEPT !.editing = FALSE].msg = chat.queue[k].msg
  BY <1>1 DEF Queued
<1>4. /\ qn \in [1..Len(chat.queue) -> Queued]
      /\ \A k \in 1..Len(chat.queue) : qn[k].msg = chat.queue[k].msg
  BY <1>1, <1>3
<1> HIDE DEF qn
<1>5. qn \in Seq(Queued) /\ Len(qn) = Len(chat.queue)
  BY <1>1, <1>4, IsASeq
<1> QED BY <1>2, <1>4, <1>5, EditStep

LEMMA EditQueuedKeeps ==
  ASSUME ChatInv, NEW i, EditQueued(i) PROVE ChatInv'
<1> DEFINE qn == [chat.queue EXCEPT ![i].editing = TRUE]
           z == [chat EXCEPT !.queue = qn]
           x == Patched(z)
<1>1. /\ chat.queue \in Seq(Queued) /\ \A k \in 1..Len(chat.queue) : chat.queue[k] \in Queued
      /\ chat \in Store /\ Good(chat, past, opening) /\ Accounted(chat, past) /\ past \in History
      /\ NetFits(server, wire, opening, past, chat.ids) /\ DeletionHolds(server, wire, past)
  BY InvParts, StoreTypes
<1>2. i \in 1..Len(chat.queue) /\ Locally(x, past)
  <2>1. i \in 1..Len(chat.queue)
    BY <1>1, LenProperties DEF EditQueued
  <2>2. z = [chat EXCEPT !.queue[i].editing = TRUE]
    BY <2>1, <1>1 DEF Store
  <2> QED BY <2>1, <2>2 DEF EditQueued
<1>3. [chat.queue[i] EXCEPT !.editing = TRUE] \in Queued
      /\ [chat.queue[i] EXCEPT !.editing = TRUE].msg = chat.queue[i].msg
  BY <1>1, <1>2 DEF Queued
<1>4. qn = [chat.queue EXCEPT ![i] = [chat.queue[i] EXCEPT !.editing = TRUE]]
  BY <1>1, <1>2
<1> HIDE DEF qn
<1>5. /\ qn \in Seq(Queued) /\ Len(qn) = Len(chat.queue)
      /\ \A k \in 1..Len(qn) : qn[k].msg = chat.queue[k].msg
  BY <1>1, <1>2, <1>3, <1>4
<1>6. /\ QueueFits(qn, past) /\ {qn[k].msg : k \in 1..Len(qn)} = QueuedMsgs(chat)
      /\ chat.turns + Len(qn) <= past.msgs + past.rare /\ chat.ids + Len(qn) <= past.msgs + 1
  BY <1>5, EditFacts
<1>7. /\ z \in Store /\ z.queue = qn /\ z.conv = chat.conv /\ z.active = chat.active
      /\ z.controller = chat.controller /\ z.turn = chat.turn /\ z.turns = chat.turns
      /\ z.ids = chat.ids /\ z.stored = chat.stored
  BY <1>1, <1>5 DEF Store
<1> HIDE DEF z
<1>8. Good(z, past, opening)
  BY <1>1, <1>6, <1>7, Relisted
<1>9. Good(x, past, opening) /\ Snaps(x, z)
  BY <1>8, PatchedKeepsGood
<1> HIDE DEF x
<1>10. x.queue = qn /\ x.ids = chat.ids
  BY <1>7, <1>9 DEF Snaps
<1>11. Accounted(x, past)
  BY <1>1, <1>6, <1>10 DEF Accounted, QueuedMsgs
<1> QED BY <1>1, <1>2, <1>9, <1>10, <1>11, LocalQuiet

-----------------------------------------------------------------------------
(* Stop, and what removes conversations. *)

(* Conversations, messages and snapshots go, turns are at most aborted. *)
Less(r, s) ==
    /\ r \in Store
    /\ \A c \in Convs : r.conv[c] = s.conv[c] \/ r.conv[c] = None
    /\ \A t \in Turns : /\ r.turn[t].stage = s.turn[t].stage /\ r.turn[t].conv = s.turn[t].conv
                        /\ r.turn[t].copy = s.turn[t].copy
                        /\ s.turn[t].aborted => r.turn[t].aborted
                        /\ s.controller = t => r.turn[t].aborted \/ r.controller = t
    /\ r.turns = s.turns /\ r.ids = s.ids
    /\ r.stored = s.stored \/ r.stored = None
    /\ r.queue = s.queue \/ r.queue = << >>

LEMMA Shrinks ==
  ASSUME NEW s, NEW r, NEW p, NEW op, Good(s, p, op), Less(r, s)
  PROVE  Good(r, p, op)
<1>0. /\ r \in Store
      /\ \A c \in Convs : r.conv[c] = s.conv[c] \/ r.conv[c] = None
      /\ \A t \in Turns : /\ r.turn[t].stage = s.turn[t].stage /\ r.turn[t].conv = s.turn[t].conv
                          /\ r.turn[t].copy = s.turn[t].copy
                          /\ s.turn[t].aborted => r.turn[t].aborted
                          /\ s.controller = t => r.turn[t].aborted \/ r.controller = t
      /\ r.turns = s.turns /\ r.ids = s.ids
      /\ r.stored = s.stored \/ r.stored = None
      /\ r.queue = s.queue \/ r.queue = << >>
  BY DEF Less
<1>1. /\ s \in Store /\ p \in History /\ op \subseteq Convs /\ LogsFit(s, p)
      /\ QueueFits(s.queue, p) /\ Paid(s, p) /\ Backed(s) /\ Lone(s, p) /\ Removed(s, p, op)
      /\ SentHome(p)
  BY DEF Good
<1>2. LogsFit(r, p)
  <2>1. ShownFits(r.conv, p, r.ids)
    BY <1>0, <1>1 DEF LogsFit, ShownFits
  <2>2. \A t \in Turns : TurnFits(r, t, p)
    BY <1>0, <1>1 DEF LogsFit, TurnFits, Live
  <2>3. r.stored # None => ShownFits(r.stored.conv, p, r.ids)
    BY <1>0, <1>1 DEF LogsFit
  <2> QED BY <2>1, <2>2, <2>3 DEF LogsFit
<1>3. QueueFits(r.queue, p) /\ Paid(r, p)
  <2>1. CASE r.queue = s.queue
    BY <2>1, <1>0, <1>1 DEF Paid, Live
  <2>2. CASE r.queue = << >>
    <3>1. Len(r.queue) = 0 /\ 1..Len(r.queue) = {}
      BY <2>2
    <3>2. QueueFits(r.queue, p)
      BY <3>1 DEF QueueFits
    <3>3. /\ s.turns \in Nat /\ s.ids \in Nat /\ Len(s.queue) \in Nat
          /\ p.msgs \in Nat /\ p.rare \in Nat
      BY <1>1, StoreTypes, HistoryTypes
    <3>4. s.turns + Len(s.queue) <= p.msgs + p.rare /\ s.ids + Len(s.queue) <= p.msgs + 1
      BY <1>0, <1>1 DEF Paid
    <3>5. s.turns + 0 <= p.msgs + p.rare
      BY ONLY <3>3, <3>4
    <3>6. s.ids + 0 <= p.msgs + 1
      BY ONLY <3>3, <3>4
    <3> QED BY <3>1, <3>2, <3>5, <3>6, <1>0, <1>1 DEF Paid, Live
  <2> QED BY <2>1, <2>2, <1>0
<1>4. Backed(r)
  <2> SUFFICES ASSUME NEW c \in Convs, Streaming(r, c) PROVE LiveOn(r, c) # {}
    BY DEF Backed
  <2>1. Streaming(s, c)
    BY <1>0 DEF Streaming, Present
  <2>2. LiveOn(r, c) = LiveOn(s, c)
    BY <1>0 DEF LiveOn, Live
  <2> QED BY <2>1, <2>2, <1>0, <1>1 DEF Backed
<1>5. Lone(r, p)
  BY <1>0, <1>1 DEF Lone, Live
<1>6. Removed(r, p, op)
  <2>1. \A c \in Convs : LiveOn(r, c) = LiveOn(s, c) /\ (Present(r, c) => Present(s, c))
    BY <1>0 DEF LiveOn, Live, Present
  <2>2. \A c \in Convs : \A t \in LiveOn(s, c) : t \in Turns
    BY DEF LiveOn
  <2> QED BY <2>1, <2>2, <1>0, <1>1 DEF Removed
<1> QED BY <1>0, <1>1, <1>2, <1>3, <1>4, <1>5, <1>6 DEF Good

(* The turns after an abort: only the signal of the controller's changes. *)
Signals(ts, s) ==
    \A t \in Turns : /\ ts[t].stage = s.turn[t].stage /\ ts[t].conv = s.turn[t].conv
                     /\ ts[t].copy = s.turn[t].copy
                     /\ s.turn[t].aborted => ts[t].aborted
                     /\ s.controller = t => ts[t].aborted

LEMMA AbortSignals ==
  ASSUME NEW s \in Store, NEW ts, Aborts(ts, s)
  PROVE  Signals(ts, s)
<1> SUFFICES ASSUME NEW t \in Turns
             PROVE  /\ ts[t].stage = s.turn[t].stage /\ ts[t].conv = s.turn[t].conv
                    /\ ts[t].copy = s.turn[t].copy
                    /\ s.turn[t].aborted => ts[t].aborted
                    /\ s.controller = t => ts[t].aborted
  BY DEF Signals
<1>1. CASE s.controller = t
  <2>1. ts[t] = [s.turn[t] EXCEPT !.aborted = TRUE]
    BY <1>1 DEF Aborts
  <2>2. s.turn[t] \in Turn
    BY DEF Store
  <2> QED BY <2>1, <2>2, TurnAborted
<1>2. CASE s.controller # t
  <2>1. ts[t] = s.turn[t]
    BY <1>2 DEF Aborts
  <2> QED BY <2>1, <1>2
<1> QED BY <1>1, <1>2

LEMMA StopKeeps ==
  ASSUME ChatInv, Stop PROVE ChatInv'
<1> DEFINE r == AbortTurn(chat)
<1>1. /\ chat \in Store /\ past \in History /\ Good(chat, past, opening) /\ Accounted(chat, past)
      /\ NetFits(server, wire, opening, past, chat.ids) /\ DeletionHolds(server, wire, past)
  BY InvParts
<1>2. Locally(r, past)
  BY DEF Stop
<1>3. /\ r \in Store /\ r.conv = chat.conv /\ r.queue = chat.queue
      /\ r.controller = chat.controller /\ r.turns = chat.turns /\ r.ids = chat.ids
      /\ r.stored = chat.stored /\ Aborts(r.turn, chat)
  BY <1>1, AbortFields
<1> HIDE DEF r
<1>4. Signals(r.turn, chat)
  BY <1>1, <1>3, AbortSignals
<1>5. Good(r, past, opening)
  <2>1. Less(r, chat)
    BY <1>3, <1>4 DEF Less, Signals
  <2> QED BY <2>1, <1>1, Shrinks
<1>6. Accounted(r, past) /\ NetFits(server, wire, opening, past, r.ids)
  BY <1>1, <1>3 DEF Accounted, QueuedMsgs
<1> QED BY <1>1, <1>2, <1>5, <1>6, LocalQuiet

(* The store after conversations and the whole queue are gone. *)
Cleared(r, s) ==
    /\ r.turns = s.turns /\ r.ids = s.ids /\ r.queue = << >>
    /\ r.stored = s.stored \/ r.stored = None
    /\ \A c \in Convs : r.conv[c] = s.conv[c] \/ r.conv[c] = None

AbortedTo(r, s, v) ==
    r = [AbortTurn(s) EXCEPT !.controller = None, !.conv = v, !.active = None, !.queue = << >>]

LEMMA AbortedAway ==
  ASSUME NEW s \in Store, NEW v \in Shown, NEW r, AbortedTo(r, s, v),
         \A c \in Convs : v[c] = s.conv[c] \/ v[c] = None
  PROVE  r \in Store /\ r.conv = v /\ Cleared(r, s) /\ Signals(r.turn, s) /\ r.stored = s.stored
<1> DEFINE a == AbortTurn(s)
           e == << >>
<1>1. /\ a \in Store /\ a.turns = s.turns /\ a.ids = s.ids /\ a.stored = s.stored
      /\ Aborts(a.turn, s)
  BY AbortFields
<1>2. r = [a EXCEPT !.controller = None, !.conv = v, !.active = None, !.queue = e]
  BY DEF AbortedTo
<1>3. Signals(a.turn, s)
  BY <1>1, AbortSignals
<1>4. e \in Seq(Queued)
  OBVIOUS
<1> HIDE DEF a, e
<1>5. /\ r.conv = v /\ r.turns = a.turns /\ r.ids = a.ids /\ r.stored = a.stored
      /\ r.queue = e /\ r.turn = a.turn
  BY <1>1, <1>2 DEF Store
<1>6. r \in Store
  BY <1>1, <1>2, <1>4 DEF Store
<1> QED BY <1>1, <1>3, <1>5, <1>6 DEF Cleared, e

LEMMA QueueDropped ==
  ASSUME ChatInv, NEW p, p.went = past.went, p.msgs = past.msgs,
         past.dropped \cup QueuedMsgs(chat) \subseteq p.dropped, NEW s
  PROVE  Accounted(s, p)
BY InvParts DEF Accounted

LEMMA QueuedAreMsgs ==
  ASSUME NEW s \in Store PROVE QueuedMsgs(s) \subseteq Msgs
BY StoreTypes DEF QueuedMsgs

LEMMA EmptyFits == Empty \in Shown /\ \A c \in Convs : Empty[c] = None
BY DEF Empty, Shown

(* The history of a step that removes conversations. *)
Wiped(p, d, g, ra) == p = [past EXCEPT !.rare = past.rare + 1, !.dropped = d, !.gone = g, !.raced = ra]

LEMMA WipedNotes ==
  ASSUME past \in History, past.rare < MaxRare, NEW p, NEW d \in SUBSET Msgs, NEW ra \in SUBSET Convs,
         NEW g \in [Convs -> Fates], Wiped(p, d, g, ra)
  PROVE  /\ Notes(past, p) /\ p.dropped = d /\ p.gone = g /\ p.raced = ra
         /\ p.msgs = past.msgs /\ p.rare = past.rare + 1 /\ p.direct = past.direct
<1>1. past.rare \in Nat /\ past.rare + 1 \in 0..MaxRare /\ past.rare <= past.rare + 1
      /\ past.msgs <= past.msgs
  BY HistoryTypes, Numbers
<1>2. /\ p \in History /\ p.rare = past.rare + 1 /\ p.dropped = d /\ p.gone = g /\ p.raced = ra
      /\ p.msgs = past.msgs /\ p.home = past.home /\ p.direct = past.direct
      /\ p.went = past.went /\ p.moved = past.moved
      /\ p.crossed = past.crossed
  BY <1>1 DEF History, Wiped
<1> QED BY <1>1, <1>2 DEF Notes

(* The queue goes with them, the server is not told. *)
LEMMA WipeStep ==
  ASSUME ChatInv, past.rare < MaxRare, NEW p, NEW g \in [Convs -> Fates],
         Wiped(p, past.dropped \cup QueuedMsgs(chat), g, past.raced),
         \A c \in Convs : g[c] = "deleted" => past.gone[c] = "deleted",
         NEW x, Good(x, past, opening), Removed(x, p, opening), x.ids = chat.ids, Locally(x, p)
  PROVE  ChatInv'
<1>1. /\ chat \in Store /\ past \in History /\ opening \subseteq Convs /\ past.raced \in SUBSET Convs
      /\ NetFits(server, wire, opening, past, chat.ids) /\ DeletionHolds(server, wire, past)
  BY InvParts DEF History
<1>2. past.dropped \cup QueuedMsgs(chat) \in SUBSET Msgs
  BY <1>1, QueuedAreMsgs DEF History
<1>3. /\ Notes(past, p) /\ p.dropped = past.dropped \cup QueuedMsgs(chat) /\ p.gone = g
      /\ p.raced = past.raced /\ p.msgs = past.msgs
  BY <1>1, <1>2, WipedNotes
<1>4. p.went = past.went /\ (p.crossed <=> past.crossed)
  BY <1>3 DEF Notes
<1>5. Good(x, p, opening)
  BY <1>1, <1>3, NotesKeepsGood
<1>6. Accounted(x, p)
  BY <1>3, <1>4, QueueDropped
<1>7. NetFits(server, wire, opening, p, x.ids)
  BY <1>1, <1>4 DEF NetFits, RowsFit
<1>8. DeletionHolds(server, wire, p)
  BY <1>1, <1>3, <1>4 DEF DeletionHolds
<1> QED BY <1>1, <1>4, <1>5, <1>6, <1>7, <1>8, LocalQuiet

LEMMA NewConversationKeeps ==
  ASSUME ChatInv, NewConversation PROVE ChatInv'
<1> DEFINE r == [AbortTurn(chat) EXCEPT !.controller = None, !.conv = Empty,
                            !.active = None, !.queue = << >>]
           x == Patched(r)
           g == [c \in Convs |-> IF Present(chat, c) /\ c \notin opening THEN "cleared"
                                 ELSE past.gone[c]]
           d == past.dropped \cup QueuedMsgs(chat)
           p == [past EXCEPT !.rare = past.rare + 1, !.dropped = d, !.gone = g, !.raced = past.raced]
<1>1. /\ chat \in Store /\ past \in History /\ opening \subseteq Convs
      /\ Good(chat, past, opening) /\ LogsFit(chat, past) /\ Lone(chat, past)
      /\ Removed(chat, past, opening)
  BY InvParts
<1>2. past.rare < MaxRare /\ Locally(x, p)
  <2>1. p = [past EXCEPT !.rare = @ + 1, !.dropped = @ \cup QueuedMsgs(chat),
                            !.gone = [c \in Convs |->
                                IF Present(chat, c) /\ c \notin opening
                                THEN "cleared" ELSE @[c]]]
    BY <1>1 DEF History
  <2> HIDE DEF p, x
  <2> QED BY <2>1 DEF NewConversation, x
<1>3. Wiped(p, d, g, past.raced)
  BY DEF Wiped
<1>4. g \in [Convs -> Fates] /\ d \in SUBSET Msgs /\ past.raced \in SUBSET Convs
  BY <1>1, QueuedAreMsgs DEF History, Fates
<1> HIDE DEF g, p
<1>5. p.gone = g /\ (p.crossed <=> past.crossed)
  BY <1>1, <1>2, <1>3, <1>4, WipedNotes DEF Notes
<1>6. /\ r \in Store /\ r.conv = Empty /\ Cleared(r, chat) /\ Signals(r.turn, chat)
      /\ r.stored = chat.stored
  <2>1. AbortedTo(r, chat, Empty)
    BY DEF AbortedTo
  <2> HIDE DEF r
  <2> QED BY <2>1, <1>1, EmptyFits, AbortedAway
<1> HIDE DEF r
<1>7. Good(r, past, opening)
  <2>1. Less(r, chat)
    BY <1>6 DEF Less, Cleared, Signals
  <2> QED BY <2>1, <1>1, Shrinks
<1>8. Good(x, past, opening) /\ Snaps(x, r)
  BY <1>7, PatchedKeepsGood
<1> HIDE DEF x
<1>9. x.conv = Empty /\ x.ids = chat.ids /\ x.turn = r.turn
  BY <1>6, <1>8 DEF Snaps, Cleared
<1>10. Removed(x, p, opening)
  <2> SUFFICES ASSUME NEW c \in Convs
               PROVE  /\ p.gone[c] # "no" => c <= x.ids
                      /\ p.gone[c] \in {"cleared", "deleted"} /\ ~p.crossed =>
                             /\ ~Present(x, c) /\ c \notin opening
                             /\ \A t \in LiveOn(x, c) : x.turn[t].aborted
    BY DEF Removed
  <2>1. ~Present(x, c)
    BY <1>9, EmptyFits DEF Present
  <2>2. LiveOn(x, c) = LiveOn(chat, c)
    BY <1>6, <1>9 DEF LiveOn, Live, Signals
  <2>3. CASE Present(chat, c) /\ c \notin opening
    <3>1. c <= x.ids
      BY <2>3, <1>1, <1>9 DEF LogsFit, ShownFits, Fits, Belongs, Present
    <3>2. ASSUME ~p.crossed, NEW t \in LiveOn(x, c) PROVE x.turn[t].aborted
      BY <3>2, <2>2, <1>1, <1>5, <1>6, <1>9 DEF Lone, LiveOn, Signals
    <3> QED BY <3>1, <3>2, <2>1, <2>3
  <2>4. CASE ~(Present(chat, c) /\ c \notin opening)
    <3>1. p.gone[c] = past.gone[c]
      BY <2>4, <1>5 DEF g
    <3>2. \A t \in LiveOn(chat, c) : chat.turn[t].aborted => x.turn[t].aborted
      BY <1>6, <1>9 DEF Signals, LiveOn
    <3> QED BY <3>1, <3>2, <2>1, <2>2, <1>1, <1>5, <1>9 DEF Removed
  <2> QED BY <2>3, <2>4
<1>11. \A c \in Convs : g[c] = "deleted" => past.gone[c] = "deleted"
  BY DEF g
<1> QED BY <1>2, <1>3, <1>4, <1>8, <1>9, <1>10, <1>11, WipeStep

LEMMA RefreshKeeps ==
  ASSUME ChatInv, Refresh PROVE ChatInv'
<1> DEFINE e == << >>
           x == [chat EXCEPT !.conv = Empty, !.active = None, !.queue = e, !.stored = None]
           g == [c \in Convs |-> IF ~Present(chat, c) THEN past.gone[c]
                                 ELSE IF LiveOn(chat, c) = {} /\ c \notin opening THEN "cleared"
                                 ELSE "refreshed"]
           d == past.dropped \cup QueuedMsgs(chat)
           p == [past EXCEPT !.rare = past.rare + 1, !.dropped = d, !.gone = g, !.raced = past.raced]
<1>1. /\ chat \in Store /\ past \in History /\ opening \subseteq Convs
      /\ Good(chat, past, opening) /\ LogsFit(chat, past) /\ Removed(chat, past, opening)
  BY InvParts
<1>2. past.rare < MaxRare /\ Locally(x, p)
  <2>1. p = [past EXCEPT !.rare = @ + 1, !.dropped = @ \cup QueuedMsgs(chat),
                            !.gone = [c \in Convs |->
                                IF ~Present(chat, c) THEN @[c]
                                ELSE IF LiveOn(chat, c) = {} /\ c \notin opening
                                THEN "cleared" ELSE "refreshed"]]
    BY <1>1 DEF History
  <2> HIDE DEF p, x
  <2> QED BY <2>1 DEF Refresh, x
<1>3. Wiped(p, d, g, past.raced)
  BY DEF Wiped
<1>4. g \in [Convs -> Fates] /\ d \in SUBSET Msgs /\ past.raced \in SUBSET Convs
  BY <1>1, QueuedAreMsgs DEF History, Fates
<1> HIDE DEF g, p
<1>5. p.gone = g /\ (p.crossed <=> past.crossed)
  BY <1>1, <1>2, <1>3, <1>4, WipedNotes DEF Notes
<1>6. e \in Seq(Queued) /\ Empty \in Shown /\ \A c \in Convs : Empty[c] = None
  BY EmptyFits
<1> HIDE DEF e
<1>7. /\ x.conv = Empty /\ x.turn = chat.turn /\ x.controller = chat.controller
      /\ x.turns = chat.turns /\ x.ids = chat.ids /\ x.queue = e /\ x.stored = None
  BY <1>1 DEF Store
<1>8. x \in Store
  BY <1>1, <1>6 DEF Store
<1> HIDE DEF x
<1>9. Good(x, past, opening)
  <2>1. x.queue = << >>
    BY <1>7 DEF e
  <2>2. Less(x, chat)
    BY <2>1, <1>6, <1>7, <1>8 DEF Less
  <2> QED BY <2>2, <1>1, Shrinks
<1>10. Removed(x, p, opening)
  <2> SUFFICES ASSUME NEW c \in Convs
               PROVE  /\ p.gone[c] # "no" => c <= x.ids
                      /\ p.gone[c] \in {"cleared", "deleted"} /\ ~p.crossed =>
                             /\ ~Present(x, c) /\ c \notin opening
                             /\ \A t \in LiveOn(x, c) : x.turn[t].aborted
    BY DEF Removed
  <2>1. ~Present(x, c)
    BY <1>6, <1>7 DEF Present
  <2>2. LiveOn(x, c) = LiveOn(chat, c)
    BY <1>7 DEF LiveOn, Live
  <2>3. CASE Present(chat, c)
    <3>1. c <= x.ids
      BY <2>3, <1>1, <1>7 DEF LogsFit, ShownFits, Fits, Belongs, Present
    <3>2. p.gone[c] \in {"cleared", "deleted"} => LiveOn(chat, c) = {} /\ c \notin opening
      BY <2>3, <1>5 DEF g
    <3> QED BY <3>1, <3>2, <2>1, <2>2
  <2>4. CASE ~Present(chat, c)
    <3>1. p.gone[c] = past.gone[c]
      BY <2>4, <1>5 DEF g
    <3> QED BY <3>1, <2>1, <2>2, <1>1, <1>5, <1>7 DEF Removed
  <2> QED BY <2>3, <2>4
<1>11. \A c \in Convs : g[c] = "deleted" => past.gone[c] = "deleted"
  BY DEF g
<1> QED BY <1>2, <1>3, <1>4, <1>7, <1>9, <1>10, <1>11, WipeStep

(* The store after a deletion, before it is stored. *)
DeletedFrom(r, c, own) ==
    r = [IF own THEN [AbortTurn(chat) EXCEPT !.controller = None, !.active = None, !.queue = << >>]
         ELSE chat EXCEPT !.conv[c] = None]

LEMMA DeletedFields ==
  ASSUME chat \in Store, NEW c \in Convs, NEW own \in BOOLEAN, NEW r, DeletedFrom(r, c, own)
  PROVE  /\ r \in Store /\ r.conv = [chat.conv EXCEPT ![c] = None]
         /\ r.turns = chat.turns /\ r.ids = chat.ids /\ r.stored = chat.stored
         /\ own => Signals(r.turn, chat) /\ r.queue = << >>
         /\ ~own => r.turn = chat.turn /\ r.controller = chat.controller /\ r.queue = chat.queue
<1> DEFINE v == [chat.conv EXCEPT ![c] = None]
<1>1. v \in Shown /\ \A d \in Convs : v[d] = chat.conv[d] \/ v[d] = None
  BY DEF Store, Shown
<1>2. CASE own
  <2> DEFINE a == AbortTurn(chat)
             b == [a EXCEPT !.controller = None, !.active = None, !.queue = << >>]
  <2>1. a \in Store /\ a.conv = chat.conv
    BY AbortFields
  <2>2. r = [b EXCEPT !.conv[c] = None]
    BY <1>2 DEF DeletedFrom
  <2> HIDE DEF a
  <2>3. b.conv = chat.conv
    BY <2>1 DEF Store
  <2>4. r = [b EXCEPT !.conv = v]
    <3> HIDE DEF b
    <3>1. [b EXCEPT !.conv[c] = None] = [b EXCEPT !.conv = [b.conv EXCEPT ![c] = None]]
      OBVIOUS
    <3> QED BY <2>2, <2>3, <3>1
  <2> HIDE DEF v
  <2>5. r = [a EXCEPT !.controller = None, !.conv = v, !.active = None, !.queue = << >>]
    BY <2>1, <2>4 DEF Store
  <2>6. AbortedTo(r, chat, v)
    BY <2>5 DEF AbortedTo, a
  <2>7. r \in Store /\ r.conv = v /\ Cleared(r, chat) /\ Signals(r.turn, chat) /\ r.stored = chat.stored
    BY <2>6, <1>1, AbortedAway
  <2> QED BY <2>7, <1>2 DEF Cleared, v
<1>3. CASE ~own
  <2>1. r = [chat EXCEPT !.conv[c] = None]
    BY <1>3 DEF DeletedFrom
  <2>2. r = [chat EXCEPT !.conv = v]
    BY <2>1 DEF Store
  <2> HIDE DEF v
  <2>3. /\ r \in Store /\ r.conv = v /\ r.turns = chat.turns /\ r.ids = chat.ids
        /\ r.stored = chat.stored /\ r.turn = chat.turn /\ r.controller = chat.controller
        /\ r.queue = chat.queue
    BY <2>2, <1>1 DEF Store
  <2> QED BY <2>3, <1>3 DEF v
<1> QED BY <1>2, <1>3

LEMMA DeleteKeeps ==
  ASSUME ChatInv, NEW c \in Convs, Delete(c) PROVE ChatInv'
<1> DEFINE own == Present(chat, c) /\ chat.active = c
           del == [kind |-> "delete", conv |-> c]
           r == [IF own THEN [AbortTurn(chat) EXCEPT !.controller = None, !.active = None, !.queue = << >>]
                 ELSE chat EXCEPT !.conv[c] = None]
           x == Patched(r)
           f == IF own /\ c \notin opening THEN "deleted" ELSE "aside"
           g == [past.gone EXCEPT ![c] = f]
           d == IF own THEN past.dropped \cup QueuedMsgs(chat) ELSE past.dropped
           ra == IF \E w \in wire : w.conv = c THEN past.raced \cup {c} ELSE past.raced \ {c}
           p == [past EXCEPT !.rare = past.rare + 1, !.dropped = d, !.gone = g, !.raced = ra]
<1>1. /\ chat \in Store /\ past \in History /\ opening \subseteq Convs
      /\ Good(chat, past, opening) /\ LogsFit(chat, past) /\ Lone(chat, past)
      /\ Accounted(chat, past)
      /\ NetFits(server, wire, opening, past, chat.ids) /\ DeletionHolds(server, wire, past)
  BY InvParts
<1>2. /\ past.rare < MaxRare /\ (Present(chat, c) \/ OnServer(c)) /\ Becomes(x, p)
      /\ wire' = wire \cup (IF Persist THEN {del} ELSE {})
      /\ server' = server /\ opening' = opening
  <2>1. p = [past EXCEPT !.rare = @ + 1,
                         !.gone[c] = IF own /\ c \notin opening THEN "deleted" ELSE "aside",
                         !.raced = IF \E w \in wire : w.conv = c
                                   THEN @ \cup {c} ELSE @ \ {c},
                         !.dropped = IF own THEN @ \cup QueuedMsgs(chat) ELSE @]
    BY <1>1 DEF History
  <2> HIDE DEF p, x
  <2> QED BY <2>1 DEF Delete, x
<1>3. Wiped(p, d, g, ra)
  BY DEF Wiped
<1>4. g \in [Convs -> Fates] /\ d \in SUBSET Msgs /\ ra \in SUBSET Convs
  BY <1>1, QueuedAreMsgs DEF History, Fates
<1>5. \A b \in Convs \ {c} : g[b] = past.gone[b] /\ (b \in ra <=> b \in past.raced)
  BY <1>1 DEF History
<1>6. g[c] = f
  BY <1>1 DEF History
<1> HIDE DEF g, p, ra, d
<1>7. /\ Notes(past, p) /\ p.gone = g /\ (p.crossed <=> past.crossed) /\ p.raced = ra
      /\ p.dropped = d /\ p.went = past.went /\ p.msgs = past.msgs
  BY <1>1, <1>2, <1>3, <1>4, WipedNotes DEF Notes
<1>8. /\ r \in Store /\ r.conv = [chat.conv EXCEPT ![c] = None]
      /\ r.turns = chat.turns /\ r.ids = chat.ids /\ r.stored = chat.stored
      /\ own => Signals(r.turn, chat) /\ r.queue = << >>
      /\ ~own => r.turn = chat.turn /\ r.controller = chat.controller /\ r.queue = chat.queue
  <2>1. DeletedFrom(r, c, own) /\ own \in BOOLEAN
    BY DEF DeletedFrom, Present
  <2> HIDE DEF r, own
  <2> QED BY <2>1, <1>1, DeletedFields
<1> HIDE DEF r, own
<1>9. \A b \in Convs : r.conv[b] = chat.conv[b] \/ r.conv[b] = None
  BY <1>1, <1>8 DEF Store, Shown
<1>10. Good(r, past, opening)
  <2>1. Less(r, chat)
    <3>1. CASE own
      BY <3>1, <1>8, <1>9 DEF Less, Signals
    <3>2. CASE ~own
      BY <3>2, <1>8, <1>9 DEF Less
    <3> QED BY <3>1, <3>2
  <2> QED BY <2>1, <1>1, Shrinks
<1>11. Good(x, past, opening) /\ Snaps(x, r)
  BY <1>10, PatchedKeepsGood
<1> HIDE DEF x
<1>12. x.conv[c] = None /\ x.ids = chat.ids /\ x.turn = r.turn /\ x.queue = r.queue
  BY <1>1, <1>8, <1>11 DEF Snaps, Store, Shown
<1>13. c <= chat.ids
  BY <1>1, <1>2 DEF LogsFit, ShownFits, Fits, Belongs, Present, NetFits, OnServer
<1>14. Removed(x, p, opening)
  <2> SUFFICES ASSUME NEW b \in Convs
               PROVE  /\ p.gone[b] # "no" => b <= x.ids
                      /\ p.gone[b] \in {"cleared", "deleted"} /\ ~p.crossed =>
                             /\ ~Present(x, b) /\ b \notin opening
                             /\ \A t \in LiveOn(x, b) : x.turn[t].aborted
    BY DEF Removed
  <2>1. CASE b # c
    BY <2>1, <1>5, <1>7, <1>11 DEF Good, Removed
  <2>2. CASE b = c
    <3>1. ~Present(x, c)
      BY <1>12 DEF Present
    <3>2. p.gone[c] \in {"cleared", "deleted"} => own /\ c \notin opening
      BY <1>6, <1>7
    <3>3. ASSUME own, ~p.crossed, NEW t \in LiveOn(x, c) PROVE x.turn[t].aborted
      <4>1. Signals(x.turn, chat)
        BY <3>3, <1>8, <1>12
      <4> QED BY <4>1, <3>3, <1>1, <1>7 DEF Lone, LiveOn, Live, Signals
    <3> QED BY <2>2, <3>1, <3>2, <3>3, <1>12, <1>13
  <2> QED BY <2>1, <2>2
<1>15. Good(x, p, opening)
  BY <1>1, <1>7, <1>11, <1>14, NotesKeepsGood
<1>16. Accounted(x, p)
  <2>1. CASE own
    BY <2>1, <1>7, QueueDropped DEF d
  <2>2. CASE ~own
    <3>1. QueuedMsgs(x) = QueuedMsgs(chat) /\ d = past.dropped
      BY <2>2, <1>8, <1>12 DEF QueuedMsgs, d
    <3> QED BY <3>1, <1>1, <1>7 DEF Accounted
  <2> QED BY <2>1, <2>2
<1>17. del \in Request /\ del.conv = c /\ del.kind = "delete"
  BY DEF Request
<1> HIDE DEF del
<1>18. NetFits(server', wire', opening', p, x.ids)
  <2>1. /\ server \in [Convs -> Saved] /\ wire' \subseteq Request
        /\ \A b \in Convs : RowsFit(b, server[b].rows, p)
        /\ \A b \in Convs : (server[b].status = "active" \/ b \in opening) => b <= x.ids
    BY <1>1, <1>2, <1>7, <1>12, <1>17 DEF NetFits, RowsFit
  <2>2. ASSUME NEW w \in wire'
        PROVE  w.conv <= x.ids /\ (w.kind = "turn" /\ w.row.msg # 0 => p.went[w.row.msg] = w.conv)
    <3>1. CASE w \in wire
      BY <3>1, <1>1, <1>7, <1>12 DEF NetFits
    <3>2. CASE w = del
      BY <3>2, <1>12, <1>13, <1>17
    <3> QED BY <3>1, <3>2, <2>2, <1>2
  <2>3. ~Persist => wire' = {} /\ opening = {} /\ \A b \in Convs : server[b] = Unsaved
    BY <1>1, <1>2 DEF NetFits
  <2> QED BY <2>1, <2>2, <2>3, <1>2 DEF NetFits
<1>19. DeletionHolds(server', wire', p)
  <2> SUFFICES ASSUME NEW b \in Convs, p.gone[b] = "deleted", b \notin p.raced, ~p.crossed
               PROVE  /\ \A w \in wire' : w.conv = b => w.kind = "delete"
                      /\ server[b].status = "active" => [kind |-> "delete", conv |-> b] \in wire'
    BY <1>2 DEF DeletionHolds
  <2>1. CASE b # c
    <3>1. past.gone[b] = "deleted" /\ b \notin past.raced /\ ~past.crossed
      BY <2>1, <1>5, <1>7
    <3>2. /\ \A w \in wire : w.conv = b => w.kind = "delete"
          /\ server[b].status = "active" => [kind |-> "delete", conv |-> b] \in wire
      BY <3>1, <1>1 DEF DeletionHolds
    <3> QED BY <3>2, <1>2, <1>17
  <2>2. CASE b = c
    <3>1. \A w \in wire : w.conv # c
      BY <2>2, <1>7 DEF ra
    <3>2. ASSUME server[c].status = "active" PROVE Persist
      BY <3>2, <1>1 DEF NetFits, Unsaved
    <3> QED BY <2>2, <3>1, <3>2, <1>2, <1>17 DEF del
  <2> QED BY <2>1, <2>2
<1>20. Good(x, p, opening')
  BY <1>2, <1>15
<1> QED BY <1>1, <1>2, <1>7, <1>16, <1>18, <1>19, <1>20, FinishQuiet

-----------------------------------------------------------------------------
(* A reply changes, the messages do not. *)

SameMsgs(a, b) == Len(a) = Len(b) /\ \A i \in 1..Len(b) : a[i].msg = b[i].msg

LEMMA BelongsSame ==
  ASSUME NEW c, NEW a, NEW b, SameMsgs(a, b), NEW p, NEW n, Belongs(c, b, p, n)
  PROVE  Belongs(c, a, p, n)
BY DEF SameMsgs, Belongs

LEMMA ReplySet ==
  ASSUME NEW log \in Seq(Exchange), NEW i \in 1..Len(log), NEW e \in Replies,
         NEW a, a = [log EXCEPT ![i].reply = e]
  PROVE  a \in Seq(Exchange) /\ SameMsgs(a, log)
<1>1. log[i] \in Exchange
  BY Entry
<1>2. [log[i] EXCEPT !.reply = e] \in Exchange /\ [log[i] EXCEPT !.reply = e].msg = log[i].msg
  BY <1>1 DEF Exchange
<1>3. a = [log EXCEPT ![i] = [log[i] EXCEPT !.reply = e]]
  OBVIOUS
<1>4. /\ a \in Seq(Exchange) /\ Len(a) = Len(log)
      /\ \A k \in 1..Len(log) : a[k] = IF k = i THEN [log[i] EXCEPT !.reply = e] ELSE log[k]
  BY <1>2, <1>3
<1> QED BY <1>2, <1>4 DEF SameMsgs

LEMMA SameNonempty ==
  ASSUME NEW a \in Seq(Exchange), NEW b \in Seq(Exchange), SameMsgs(a, b)
  PROVE  a # << >> <=> b # << >>
BY DEF SameMsgs

LEMMA SanitizedFields ==
  ASSUME NEW v \in Conversation
  PROVE  /\ Sanitized(v) \in Conversation /\ ~Sanitized(v).streaming
         /\ Sanitized(v).error = v.error /\ SameMsgs(Sanitized(v).log, v.log)
<1> DEFINE n == Len(v.log)
           dangling == v.streaming /\ n > 0 /\ v.log[n].reply = "empty"
           l == IF dangling THEN [v.log EXCEPT ![n].reply = "none"] ELSE v.log
<1>1. v.log \in Seq(Exchange) /\ n \in Nat /\ v # None /\ v.error \in BOOLEAN
  BY LenProperties, Numbers DEF Conversation
<1>2. l \in Seq(Exchange) /\ SameMsgs(l, v.log)
  <2>1. CASE dangling
    <3>1. n \in 1..Len(v.log) /\ "none" \in Replies
      BY <2>1, <1>1 DEF Replies
    <3> HIDE DEF n
    <3> QED BY <2>1, <3>1, <1>1, ReplySet
  <2>2. CASE ~dangling
    BY <2>2, <1>1 DEF SameMsgs
  <2> QED BY <2>1, <2>2
<1>3. Sanitized(v) = [v EXCEPT !.streaming = FALSE, !.log = l]
  BY <1>1 DEF Sanitized
<1> HIDE DEF l
<1> QED BY <1>2, <1>3 DEF Conversation

LEMMA SanitizedFits ==
  ASSUME NEW u \in Shown, NEW v, v = [c \in Convs |-> Sanitized(u[c])],
         NEW p, NEW n, ShownFits(u, p, n)
  PROVE  v \in Shown /\ ShownFits(v, p, n) /\ \A c \in Convs : v[c] # None => ~v[c].streaming
<1>1. ASSUME NEW c \in Convs
      PROVE  /\ v[c] \in Conversation \cup {None}
             /\ v[c] # None => ~v[c].streaming /\ Fits(c, v[c], p, n)
  <2>1. CASE u[c] = None
    BY <2>1 DEF Sanitized
  <2>2. CASE u[c] # None
    <3>1. u[c] \in Conversation /\ Fits(c, u[c], p, n) /\ v[c] = Sanitized(u[c])
      BY <2>2 DEF Shown, ShownFits
    <3>2. /\ v[c] \in Conversation /\ ~v[c].streaming /\ v[c].error = u[c].error
          /\ SameMsgs(v[c].log, u[c].log)
      BY <3>1, SanitizedFields
    <3>3. v[c].log \in Seq(Exchange) /\ u[c].log \in Seq(Exchange)
      BY <3>1, <3>2 DEF Conversation
    <3>4. Fits(c, v[c], p, n)
      BY <3>1, <3>2, <3>3, SameNonempty, BelongsSame DEF Fits
    <3> QED BY <3>2, <3>4
  <2> QED BY <2>1, <2>2
<1> QED BY <1>1 DEF Shown, ShownFits

LEMMA ReloadKeeps ==
  ASSUME ChatInv, Reload PROVE ChatInv'
<1> DEFINE old == IF chat.stored = None THEN [conv |-> Empty, active |-> None] ELSE chat.stored
           v == [c \in Convs |-> Sanitized(old.conv[c])]
           e == << >>
           nt == [t \in Turns |-> NoTurn]
           s == [chat EXCEPT !.conv = v, !.active = old.active, !.queue = e,
                             !.controller = None, !.turn = nt]
           x == Patched(s)
           g == [c \in Convs |-> IF v[c] # None THEN "no" ELSE past.gone[c]]
           d == past.dropped \cup QueuedMsgs(chat)
           p == [past EXCEPT !.rare = past.rare + 1, !.dropped = d, !.gone = g, !.raced = past.raced]
<1>1. /\ chat \in Store /\ past \in History /\ opening \subseteq Convs
      /\ Good(chat, past, opening) /\ LogsFit(chat, past) /\ Removed(chat, past, opening)
      /\ NetFits(server, wire, opening, past, chat.ids) /\ DeletionHolds(server, wire, past)
  BY InvParts
<1>2. /\ past.rare < MaxRare /\ Becomes(x, p) /\ opening' = {}
      /\ server' = server /\ wire' = wire
  <2>1. s.conv = v
    BY <1>1 DEF Store
  <2>2. p = [past EXCEPT !.rare = @ + 1, !.dropped = @ \cup QueuedMsgs(chat),
                            !.gone = [c \in Convs |->
                                IF s.conv[c] # None THEN "no" ELSE @[c]]]
    <3> HIDE DEF s, v
    <3> QED BY <1>1, <2>1 DEF History
  <2> HIDE DEF p
  <2> QED BY <2>2 DEF Reload
<1>3. old.conv \in Shown /\ old.active \in Convs \cup {None} /\ ShownFits(old.conv, past, chat.ids)
  <2>1. CASE chat.stored = None
    <3>1. old.conv = Empty /\ old.active = None
      BY <2>1
    <3> QED BY <3>1, EmptyFits DEF ShownFits
  <2>2. CASE chat.stored # None
    BY <2>2, <1>1 DEF Store, Snapshot, LogsFit
  <2> QED BY <2>1, <2>2
<1> HIDE DEF old
<1>4. /\ v \in Shown /\ ShownFits(v, past, chat.ids)
      /\ \A c \in Convs : v[c] # None => ~v[c].streaming
  BY <1>3, SanitizedFits
<1>5. Wiped(p, d, g, past.raced)
  BY DEF Wiped
<1>6. g \in [Convs -> Fates] /\ d \in SUBSET Msgs /\ past.raced \in SUBSET Convs
  BY <1>1, QueuedAreMsgs DEF History, Fates
<1> HIDE DEF g, p, v
<1>7. /\ Notes(past, p) /\ p.gone = g /\ p.dropped = d /\ p.msgs = past.msgs
      /\ p.raced = past.raced
  BY <1>1, <1>2, <1>5, <1>6, WipedNotes
<1>8. (p.crossed <=> past.crossed) /\ p.went = past.went /\ Grows(past, p)
  BY <1>7 DEF Notes, Grows
<1>9. \A c \in Convs : p.gone[c] # "no" => p.gone[c] = past.gone[c] /\ v[c] = None
  BY <1>7 DEF g
<1>10. Removed(chat, p, {})
  BY <1>1, <1>8, <1>9 DEF Removed
<1>11. Good(chat, p, {})
  BY <1>1, <1>7, <1>10, NotesKeepsGood
<1>12. e \in Seq(Queued) /\ Len(e) = 0 /\ nt \in [Turns -> Turn] /\ \A t \in Turns : nt[t].stage = "off"
  BY DEF NoTurn, Turn, NoConversation, Conversation
<1> HIDE DEF e, nt
<1>13. /\ s.conv = v /\ s.queue = e /\ s.turn = nt /\ s.turns = chat.turns
       /\ s.ids = chat.ids /\ s.stored = chat.stored
  BY <1>1 DEF Store
<1>14. s \in Store
  BY <1>1, <1>3, <1>4, <1>12 DEF Store
<1> HIDE DEF s
<1>15. \A t \in Turns : ~Live(s, t)
  BY <1>12, <1>13 DEF Live
<1>16. LogsFit(s, p)
  <2>1. chat.ids \in Nat /\ chat.ids <= chat.ids
    BY <1>1, StoreTypes
  <2>2. ShownFits(s.conv, p, s.ids)
    BY <1>4, <1>8, <1>13, <2>1, ShownGrows
  <2>3. LogsFit(chat, p)
    BY <1>11 DEF Good
  <2> QED BY <2>2, <2>3, <1>13, <1>15 DEF LogsFit, TurnFits
<1>17. QueueFits(s.queue, p) /\ Paid(s, p)
  <2>1. Paid(chat, p)
    BY <1>11 DEF Good
  <2>2. /\ chat.turns \in Nat /\ chat.ids \in Nat /\ Len(chat.queue) \in Nat
        /\ p.msgs \in Nat /\ p.rare \in Nat
    BY <1>1, <1>7, StoreTypes, HistoryTypes DEF Notes
  <2>3. chat.turns + Len(chat.queue) <= p.msgs + p.rare /\ chat.ids + Len(chat.queue) <= p.msgs + 1
    BY <2>1 DEF Paid
  <2>4. chat.turns + 0 <= p.msgs + p.rare
    BY ONLY <2>2, <2>3
  <2>5. chat.ids + 0 <= p.msgs + 1
    BY ONLY <2>2, <2>3
  <2>6. Paid(s, p)
    BY <2>4, <2>5, <1>12, <1>13, <1>15 DEF Paid
  <2>7. 1..Len(s.queue) = {}
    BY <1>12, <1>13
  <2> QED BY <2>6, <2>7 DEF QueueFits
<1>18. Backed(s) /\ Lone(s, p)
  BY <1>4, <1>13, <1>15 DEF Backed, Streaming, Present, Lone
<1>19. Removed(s, p, {})
  <2>1. \A c \in Convs : LiveOn(s, c) = {}
    BY <1>15 DEF LiveOn
  <2> QED BY <2>1, <1>9, <1>10, <1>13 DEF Removed, Present
<1>20. Good(s, p, {})
  BY <1>11, <1>14, <1>16, <1>17, <1>18, <1>19 DEF Good
<1>21. Good(x, p, opening') /\ Snaps(x, s)
  BY <1>20, <1>2, PatchedKeepsGood
<1> HIDE DEF x
<1>22. Accounted(x, p)
  BY <1>7, <1>8, QueueDropped
<1>23. x.ids = chat.ids
  BY <1>13, <1>21 DEF Snaps
<1>24. NetFits(server', wire', opening', p, x.ids)
  BY <1>1, <1>2, <1>8, <1>23 DEF NetFits, RowsFit
<1>25. DeletionHolds(server', wire', p)
  BY <1>1, <1>2, <1>7, <1>8, <1>9 DEF DeletionHolds
<1> QED BY <1>1, <1>2, <1>8, <1>21, <1>22, <1>24, <1>25, FinishQuiet

-----------------------------------------------------------------------------
(* The history, and a conversation fetched from it. *)

(* As Good, but for whoever backs the stream of c. *)
Almost(s, p, op, c) ==
    /\ s \in Store /\ p \in History /\ op \subseteq Convs
    /\ LogsFit(s, p) /\ QueueFits(s.queue, p) /\ Paid(s, p)
    /\ \A b \in Convs \ {c} : Streaming(s, b) => LiveOn(s, b) # {}
    /\ Lone(s, p) /\ Removed(s, p, op) /\ SentHome(p)

LEMMA PutKeepsGood ==
  ASSUME NEW s, NEW p, NEW op, NEW oq \in SUBSET op, NEW c \in Convs, Almost(s, p, op, c),
         NEW v \in Conversation, Fits(c, v, p, s.ids), v.streaming => LiveOn(s, c) # {},
         p.gone[c] \in {"cleared", "deleted"} => p.crossed, NEW r, r = Put(s, c, v)
  PROVE  Good(r, p, oq)
<1>1. /\ s \in Store /\ p \in History /\ oq \subseteq Convs /\ LogsFit(s, p)
      /\ QueueFits(s.queue, p) /\ Paid(s, p) /\ Lone(s, p) /\ Removed(s, p, op)
      /\ SentHome(p)
  BY DEF Almost
<1>2. /\ r \in Store /\ r.conv = [s.conv EXCEPT ![c] = v] /\ r.active = c
      /\ r.queue = s.queue /\ r.controller = s.controller
      /\ r.turn = s.turn /\ r.turns = s.turns /\ r.ids = s.ids
      /\ r.stored = s.stored \/ r.stored = [conv |-> r.conv, active |-> c]
  BY <1>1, PutFields
<1>3. s.conv \in Shown /\ s.ids \in Nat /\ s.ids <= s.ids
  BY <1>1, StoreTypes
<1>4. LogsFit(r, p)
  <2>1. ShownFits(s.conv, p, s.ids)
    BY <1>1 DEF LogsFit
  <2>2. ShownFits([s.conv EXCEPT ![c] = v], p, s.ids)
    BY <2>1, <1>3, GrowsRefl, ShownPut
  <2>3. \A t \in Turns : TurnKept(r.turn[t], s.turn[t])
    BY <1>2 DEF TurnKept
  <2>4. ShownFits(r.conv, p, r.ids) /\ s.ids <= r.ids
    BY <2>2, <1>2, <1>3
  <2>5. r.stored = s.stored \/ r.stored = [conv |-> r.conv, active |-> r.active]
    BY <1>2
  <2> QED BY <2>3, <2>4, <2>5, <1>1, <1>2, GrowsRefl, LogsAfter
<1>5. r.conv[c] = v /\ \A b \in Convs \ {c} : r.conv[b] = s.conv[b]
  BY <1>2, <1>3 DEF Shown
<1>6. \A b \in Convs : LiveOn(r, b) = LiveOn(s, b)
  BY <1>2 DEF LiveOn, Live
<1>7. Paid(r, p) /\ QueueFits(r.queue, p)
  BY <1>1, <1>2 DEF Paid, Live
<1>8. Backed(r)
  BY <1>5, <1>6 DEF Almost, Backed, Streaming, Present
<1>9. Lone(r, p)
  BY <1>1, <1>2 DEF Lone, Live
<1>10. Removed(r, p, oq)
  <2>1. \A b \in Convs \ {c} : Present(r, b) <=> Present(s, b)
    BY <1>5 DEF Present
  <2> QED BY <2>1, <1>1, <1>2, <1>6 DEF Removed
<1> QED BY <1>1, <1>2, <1>4, <1>7, <1>8, <1>9, <1>10 DEF Good

LEMMA GoodIsAlmost ==
  ASSUME NEW s, NEW p, NEW op, NEW c, Good(s, p, op)
  PROVE  Almost(s, p, op, c)
BY DEF Good, Almost, Backed

(* The fate of one conversation is noted. *)
FateIs(p, c, f) == p = [past EXCEPT !.gone[c] = f]

LEMMA FateNotes ==
  ASSUME past \in History, NEW c \in Convs, NEW f \in Fates, NEW p, FateIs(p, c, f)
  PROVE  /\ Notes(past, p) /\ p.gone = [past.gone EXCEPT ![c] = f] /\ p.raced = past.raced
         /\ p.dropped = past.dropped /\ p.msgs = past.msgs
<1> DEFINE g == [past.gone EXCEPT ![c] = f]
<1>1. g \in [Convs -> Fates]
  BY DEF History
<1>2. p = [past EXCEPT !.gone = g]
  BY DEF FateIs
<1> HIDE DEF g
<1>3. /\ p \in History /\ p.rare = past.rare /\ p.dropped = past.dropped /\ p.gone = g
      /\ p.raced = past.raced /\ p.msgs = past.msgs /\ p.home = past.home
      /\ p.direct = past.direct /\ p.went = past.went /\ p.moved = past.moved
      /\ p.crossed = past.crossed
  BY <1>1, <1>2 DEF History
<1>4. past.rare <= past.rare /\ past.msgs <= past.msgs
  BY HistoryTypes
<1> QED BY <1>3, <1>4 DEF Notes, g

LEMMA OpenKeeps ==
  ASSUME ChatInv, NEW c \in Convs, Open(c) PROVE ChatInv'
<1>1. /\ chat \in Store /\ past \in History /\ opening \subseteq Convs /\ Good(chat, past, opening)
      /\ Accounted(chat, past) /\ QueueFits(chat.queue, past) /\ Paid(chat, past)
      /\ Removed(chat, past, opening)
      /\ NetFits(server, wire, opening, past, chat.ids) /\ DeletionHolds(server, wire, past)
  BY InvParts
<1>2. CASE Locally(Patched([chat EXCEPT !.active = c]), past)
  <2> DEFINE z == [chat EXCEPT !.active = c]
             x == Patched(z)
  <2>1. /\ z \in Store /\ z.conv = chat.conv /\ z.queue = chat.queue
        /\ z.controller = chat.controller /\ z.turn = chat.turn /\ z.turns = chat.turns
        /\ z.ids = chat.ids /\ z.stored = chat.stored
    BY <1>1 DEF Store
  <2> HIDE DEF z
  <2>2. Good(z, past, opening)
    BY <2>1, <1>1, Relisted DEF Paid
  <2>3. Good(x, past, opening) /\ Snaps(x, z)
    BY <2>2, PatchedKeepsGood
  <2>4. Locally(x, past)
    BY <1>2 DEF z
  <2> HIDE DEF x
  <2>5. Accounted(x, past) /\ x.ids = chat.ids
    BY <2>1, <2>3, <1>1 DEF Snaps, Accounted, QueuedMsgs
  <2> QED BY <2>3, <2>4, <2>5, <1>1, LocalQuiet
<1>3. CASE /\ OnServer(c) /\ opening' = opening \cup {c}
           /\ Becomes(chat, [past EXCEPT !.gone[c] = "no"])
           /\ UNCHANGED <<server, wire>>
  <2> DEFINE p == [past EXCEPT !.gone[c] = "no"]
  <2>1. FateIs(p, c, "no") /\ "no" \in Fates
    BY DEF FateIs, Fates
  <2>2. Becomes(chat, p)
    BY <1>3
  <2> HIDE DEF p
  <2>3. /\ Notes(past, p) /\ p.gone = [past.gone EXCEPT ![c] = "no"] /\ p.raced = past.raced
        /\ p.dropped = past.dropped /\ p.msgs = past.msgs
    BY <2>1, <1>1, FateNotes
  <2>4. p.went = past.went /\ (p.crossed <=> past.crossed)
    BY <2>3 DEF Notes
  <2>5. p.gone[c] = "no" /\ \A b \in Convs \ {c} : p.gone[b] = past.gone[b]
    BY <2>3, <1>1 DEF History
  <2>6. Removed(chat, p, opening')
    BY <2>4, <2>5, <1>1, <1>3 DEF Removed
  <2>7. Good(chat, p, opening')
    BY <2>3, <2>6, <1>1, <1>3, NotesKeepsGood
  <2>8. Accounted(chat, p)
    BY <2>3, <2>4, <1>1 DEF Accounted
  <2>9. c <= chat.ids /\ Persist
    BY <1>1, <1>3 DEF NetFits, OnServer, Unsaved
  <2>10. NetFits(server', wire', opening', p, chat.ids)
    BY <2>4, <2>9, <1>1, <1>3 DEF NetFits, RowsFit
  <2>11. DeletionHolds(server', wire', p)
    BY <2>3, <2>4, <2>5, <1>1, <1>3 DEF DeletionHolds
  <2> QED BY <2>2, <2>4, <2>7, <2>8, <2>10, <2>11, <1>1, FinishQuiet
<1> QED BY <1>2, <1>3 DEF Open

(* What the server sends of c is a log of c. *)
LEMMA FetchedFits ==
  ASSUME NEW c \in Convs, NEW rows \in SUBSET Row, NEW p, NEW n, RowsFit(c, rows, p), c <= n, Persist,
         NEW q \in InOrder(rows)
  PROVE  LogOf(q) \in Seq(Exchange) /\ Belongs(c, LogOf(q), p, n)
<1> DEFINE k == Cardinality(rows)
           f == [x \in rows |-> x.msg]
<1>1. \A x \in rows : x.msg \in 0..MaxMsgs /\ x.reply \in Replies
  BY DEF Row
<1>2. f \in Injection(rows, 0..MaxMsgs)
  BY <1>1 DEF Injection, IsInjective, RowsFit
<1>3. IsFiniteSet(0..MaxMsgs)
  <2>1. 0 \in Int /\ MaxMsgs \in Int
    BY Numbers
  <2> QED BY ONLY <2>1, FS_Interval
<1>4. IsFiniteSet(rows)
  <2> HIDE DEF f
  <2> QED BY <1>2, <1>3, FS_Injection
<1>5. k \in Nat
  BY <1>4, FS_CardinalityType
<1> HIDE DEF k
<1>6. q \in [1..k -> rows] /\ \A i, j \in 1..k : i < j => q[i] # q[j]
  BY DEF InOrder, k
<1> DEFINE l == LogOf(q)
<1>7. /\ l \in [1..k -> Exchange] /\ \A i \in 1..k : l[i].msg = q[i].msg
  BY <1>1, <1>6 DEF LogOf, Exchange
<1> HIDE DEF l
<1>8. l \in Seq(Exchange) /\ Len(l) = k
  BY <1>5, <1>7, IsASeq
<1>9. \A i, j \in 1..k : l[i].msg = l[j].msg => i = j
  <2> SUFFICES ASSUME NEW i \in 1..k, NEW j \in 1..k, l[i].msg = l[j].msg PROVE i = j
    OBVIOUS
  <2>1. q[i] = q[j]
    BY <1>6, <1>7 DEF RowsFit
  <2> QED BY <2>1, <1>5, <1>6
<1>10. \A i \in 1..k : l[i].msg # 0 => p.went[l[i].msg] = c
  BY <1>6, <1>7 DEF RowsFit
<1>11. Belongs(c, l, p, n)
  BY <1>8, <1>9, <1>10 DEF Belongs
<1> QED BY <1>8, <1>11 DEF l

LEMMA OpenedKeeps ==
  ASSUME ChatInv, NEW c \in Convs, Opened(c) PROVE ChatInv'
<1>1. /\ chat \in Store /\ past \in History /\ opening \subseteq Convs /\ Good(chat, past, opening)
      /\ Accounted(chat, past) /\ Removed(chat, past, opening)
      /\ NetFits(server, wire, opening, past, chat.ids) /\ DeletionHolds(server, wire, past)
  BY InvParts
<1>2. /\ c \in opening /\ opening' = opening \ {c} /\ server' = server /\ wire' = wire
  BY DEF Opened
<1>3. NetFits(server', wire', opening', past, chat.ids) /\ DeletionHolds(server', wire', past)
  BY <1>1, <1>2 DEF NetFits, DeletionHolds
<1>4. CASE Becomes(chat, past)
  <2>1. Removed(chat, past, opening') /\ Notes(past, past)
    BY <1>1, <1>2, SameRecords DEF Removed, Records
  <2>2. Good(chat, past, opening')
    BY <2>1, <1>1, <1>2, NotesKeepsGood
  <2> QED BY <2>2, <1>1, <1>3, <1>4, FinishQuiet
<1>5. ASSUME NEW q \in InOrder(server[c].rows),
             Becomes(Put(chat, c, [NoConversation EXCEPT !.log = LogOf(q)]), past)
      PROVE  ChatInv'
  <2> DEFINE v == [NoConversation EXCEPT !.log = LogOf(q)]
             x == Put(chat, c, v)
  <2>1. /\ server[c].rows \in SUBSET Row /\ RowsFit(c, server[c].rows, past) /\ c <= chat.ids
        /\ Persist
    BY <1>1, <1>2 DEF NetFits, Saved
  <2>2. LogOf(q) \in Seq(Exchange) /\ Belongs(c, LogOf(q), past, chat.ids)
    BY <2>1, FetchedFits
  <2>3. v \in Conversation /\ ~v.streaming /\ ~v.error /\ v.log = LogOf(q)
    BY <2>2 DEF NoConversation, Conversation
  <2> HIDE DEF v
  <2>4. Fits(c, v, past, chat.ids)
    BY <2>2, <2>3 DEF Fits
  <2>5. Almost(chat, past, opening, c)
    BY <1>1, GoodIsAlmost
  <2>6. past.gone[c] \in {"cleared", "deleted"} => past.crossed
    BY <1>1, <1>2 DEF Removed
  <2>7. Good(x, past, opening')
    BY <2>3, <2>4, <2>5, <2>6, <1>2, PutKeepsGood
  <2>8. x.queue = chat.queue /\ x.ids = chat.ids
    <3>1. chat \in Store /\ v \in Conversation /\ x = Put(chat, c, v)
      BY <1>1, <2>3
    <3> HIDE DEF x
    <3>2. /\ x \in Store /\ x.conv = [chat.conv EXCEPT ![c] = v] /\ x.active = c
          /\ x.queue = chat.queue /\ x.controller = chat.controller
          /\ x.turn = chat.turn /\ x.turns = chat.turns /\ x.ids = chat.ids
          /\ x.stored = chat.stored \/ x.stored = [conv |-> x.conv, active |-> c]
      BY ONLY <3>1, c \in Convs, PutFields
    <3> QED BY <3>2
  <2>9. Becomes(x, past)
    BY <1>5 DEF v
  <2> HIDE DEF x
  <2>10. Accounted(x, past)
    BY <2>8, <1>1 DEF Accounted, QueuedMsgs
  <2> QED BY <2>7, <2>8, <2>9, <2>10, <1>1, <1>3, FinishQuiet
<1> QED BY <1>4, <1>5 DEF Opened

-----------------------------------------------------------------------------
(* The backend. *)

LEMMA UpsertTurnKeeps ==
  ASSUME ChatInv, NEW r, UpsertTurn(r) PROVE ChatInv'
<1> DEFINE c == r.conv
           foreign == \E d \in Convs \ {c} : \E x \in server[d].rows : x.msg = r.row.msg
           kept == {x \in server[c].rows : x.msg # r.row.msg}
           rows == IF foreign THEN server[c].rows ELSE kept \cup {r.row}
           sv == [server EXCEPT ![c] = [status |-> "active", rows |-> rows]]
<1>1. /\ Good(chat, past, opening) /\ Accounted(chat, past)
      /\ NetFits(server, wire, opening, past, chat.ids) /\ DeletionHolds(server, wire, past)
  BY InvParts
<1>2. /\ r \in wire /\ r.kind = "turn" /\ wire' = wire \ {r} /\ server' = sv
      /\ opening' = opening /\ chat' = chat /\ past' = past
  BY DEF UpsertTurn
<1>3. /\ c \in Convs /\ r.row \in Row /\ c <= chat.ids /\ Persist
      /\ r.row.msg # 0 => past.went[r.row.msg] = c
  BY <1>1, <1>2 DEF NetFits, Request
<1>4. /\ server \in [Convs -> Saved] /\ server[c].rows \in SUBSET Row
      /\ RowsFit(c, server[c].rows, past)
  BY <1>1, <1>3 DEF NetFits, Saved
<1>5. rows \in SUBSET Row /\ RowsFit(c, rows, past)
  BY <1>3, <1>4 DEF RowsFit
<1> HIDE DEF rows
<1>6. /\ sv \in [Convs -> Saved] /\ sv[c].rows = rows /\ sv[c].status = "active"
      /\ \A b \in Convs \ {c} : sv[b] = server[b]
  BY <1>3, <1>4, <1>5 DEF Saved
<1> HIDE DEF sv
<1>7. NetFits(sv, wire \ {r}, opening, past, chat.ids)
  <2>1. \A b \in Convs : RowsFit(b, sv[b].rows, past)
    BY <1>1, <1>5, <1>6 DEF NetFits
  <2>2. \A b \in Convs : (sv[b].status = "active" \/ b \in opening) => b <= chat.ids
    BY <1>1, <1>3, <1>6 DEF NetFits
  <2> QED BY <2>1, <2>2, <1>1, <1>3, <1>6 DEF NetFits
<1>8. DeletionHolds(sv, wire \ {r}, past)
  <2> SUFFICES ASSUME NEW b \in Convs, past.gone[b] = "deleted", b \notin past.raced, ~past.crossed
               PROVE  /\ \A w \in wire \ {r} : w.conv = b => w.kind = "delete"
                      /\ sv[b].status = "active" => [kind |-> "delete", conv |-> b] \in wire \ {r}
    BY DEF DeletionHolds
  <2>1. /\ \A w \in wire : w.conv = b => w.kind = "delete"
        /\ server[b].status = "active" => [kind |-> "delete", conv |-> b] \in wire
    BY <1>1 DEF DeletionHolds
  <2>2. b # c
    BY <2>1, <1>2
  <2>3. [kind |-> "delete", conv |-> b] # r
    BY <1>2
  <2> QED BY <2>1, <2>2, <2>3, <1>6
<1> QED BY <1>1, <1>2, <1>7, <1>8 DEF ChatInv

LEMMA SoftDeleteKeeps ==
  ASSUME ChatInv, NEW r, SoftDelete(r) PROVE ChatInv'
<1> DEFINE c == r.conv
           sv == [server EXCEPT ![c].status = "deleted"]
<1>1. /\ Good(chat, past, opening) /\ Accounted(chat, past)
      /\ NetFits(server, wire, opening, past, chat.ids) /\ DeletionHolds(server, wire, past)
  BY InvParts
<1>2. /\ r \in wire /\ r.kind = "delete" /\ wire' = wire \ {r} /\ server' = sv
      /\ opening' = opening /\ chat' = chat /\ past' = past
  BY DEF SoftDelete
<1>3. c \in Convs /\ Persist /\ server \in [Convs -> Saved]
  BY <1>1, <1>2 DEF NetFits, Request
<1>4. /\ sv \in [Convs -> Saved] /\ sv[c].rows = server[c].rows /\ sv[c].status = "deleted"
      /\ \A b \in Convs \ {c} : sv[b] = server[b]
  BY <1>3 DEF Saved
<1> HIDE DEF sv
<1>5. NetFits(sv, wire \ {r}, opening, past, chat.ids)
  <2>1. \A b \in Convs : RowsFit(b, sv[b].rows, past)
    BY <1>1, <1>4 DEF NetFits
  <2>2. \A b \in Convs : (sv[b].status = "active" \/ b \in opening) => b <= chat.ids
    BY <1>1, <1>4 DEF NetFits
  <2> QED BY <2>1, <2>2, <1>1, <1>3, <1>4 DEF NetFits
<1>6. DeletionHolds(sv, wire \ {r}, past)
  <2> SUFFICES ASSUME NEW b \in Convs, past.gone[b] = "deleted", b \notin past.raced, ~past.crossed
               PROVE  /\ \A w \in wire \ {r} : w.conv = b => w.kind = "delete"
                      /\ sv[b].status = "active" => [kind |-> "delete", conv |-> b] \in wire \ {r}
    BY DEF DeletionHolds
  <2>1. /\ \A w \in wire : w.conv = b => w.kind = "delete"
        /\ server[b].status = "active" => [kind |-> "delete", conv |-> b] \in wire
    BY <1>1 DEF DeletionHolds
  <2>2. b # c => [kind |-> "delete", conv |-> b] # r
    OBVIOUS
  <2> QED BY <2>1, <2>2, <1>4
<1> QED BY <1>1, <1>2, <1>5, <1>6 DEF ChatInv

LEMMA DeleteFailsKeeps ==
  ASSUME ChatInv, NEW r, DeleteFails(r) PROVE ChatInv'
<1> DEFINE c == r.conv
           f == IF past.gone[c] = "deleted" /\ OnServer(c) THEN "cleared" ELSE past.gone[c]
           p == [past EXCEPT !.gone[c] = f]
<1>1. /\ chat \in Store /\ past \in History /\ opening \subseteq Convs /\ Good(chat, past, opening)
      /\ Accounted(chat, past) /\ Removed(chat, past, opening)
      /\ NetFits(server, wire, opening, past, chat.ids) /\ DeletionHolds(server, wire, past)
  BY InvParts
<1>2. /\ r \in wire /\ r.kind = "delete" /\ wire' = wire \ {r} /\ server' = server
      /\ opening' = opening /\ Becomes(chat, p)
  BY DEF DeleteFails
<1>3. c \in Convs
  BY <1>1, <1>2 DEF NetFits, Request
<1>4. FateIs(p, c, f) /\ f \in Fates
  BY <1>1, <1>3 DEF FateIs, Fates, History
<1> HIDE DEF p
<1>5. /\ Notes(past, p) /\ p.gone = [past.gone EXCEPT ![c] = f] /\ p.raced = past.raced
      /\ p.dropped = past.dropped /\ p.msgs = past.msgs
  BY <1>1, <1>3, <1>4, FateNotes
<1>6. p.went = past.went /\ (p.crossed <=> past.crossed)
  BY <1>5 DEF Notes
<1>7. p.gone[c] = f /\ \A b \in Convs \ {c} : p.gone[b] = past.gone[b]
  BY <1>1, <1>3, <1>5 DEF History
<1>8. Removed(chat, p, opening)
  BY <1>1, <1>6, <1>7 DEF Removed
<1>9. Good(chat, p, opening')
  BY <1>1, <1>2, <1>5, <1>8, NotesKeepsGood
<1>10. Accounted(chat, p)
  BY <1>1, <1>5, <1>6 DEF Accounted
<1>11. NetFits(server', wire', opening', p, chat.ids)
  BY <1>1, <1>2, <1>6 DEF NetFits, RowsFit
<1>12. DeletionHolds(server', wire', p)
  <2> SUFFICES ASSUME NEW b \in Convs, p.gone[b] = "deleted", b \notin p.raced, ~p.crossed
               PROVE  /\ \A w \in wire \ {r} : w.conv = b => w.kind = "delete"
                      /\ server[b].status = "active" => [kind |-> "delete", conv |-> b] \in wire \ {r}
    BY <1>2 DEF DeletionHolds
  <2>1. past.gone[b] = "deleted" /\ (b = c => ~OnServer(c))
    BY <1>7
  <2>2. /\ \A w \in wire : w.conv = b => w.kind = "delete"
        /\ server[b].status = "active" => [kind |-> "delete", conv |-> b] \in wire
    BY <2>1, <1>1, <1>5, <1>6 DEF DeletionHolds
  <2>3. b # c => [kind |-> "delete", conv |-> b] # r
    OBVIOUS
  <2> QED BY <2>1, <2>2, <2>3 DEF OnServer
<1> QED BY <1>1, <1>2, <1>6, <1>9, <1>10, <1>11, <1>12, FinishQuiet

-----------------------------------------------------------------------------
(* The turn. *)

LEMMA PutRest ==
  ASSUME NEW s \in Store, NEW c \in Convs, NEW v \in Conversation, NEW r, r = Put(s, c, v)
  PROVE  /\ r.queue = s.queue /\ r.turn = s.turn /\ r.turns = s.turns /\ r.ids = s.ids
<1>1. /\ r \in Store /\ r.conv = [s.conv EXCEPT ![c] = v] /\ r.active = c
      /\ r.queue = s.queue /\ r.controller = s.controller
      /\ r.turn = s.turn /\ r.turns = s.turns /\ r.ids = s.ids
      /\ r.stored = s.stored \/ r.stored = [conv |-> r.conv, active |-> c]
  BY PutFields
<1> QED BY <1>1

TurnIs(r, s, t, y) == r = [s EXCEPT !.turn[t] = y]

LEMMA TurnIsFields ==
  ASSUME NEW s \in Store, NEW t \in Turns, NEW y \in Turn, NEW r, TurnIs(r, s, t, y)
  PROVE  /\ r \in Store /\ r.conv = s.conv /\ r.active = s.active /\ r.queue = s.queue
         /\ r.controller = s.controller /\ r.turns = s.turns /\ r.ids = s.ids
         /\ r.stored = s.stored /\ r.turn[t] = y
         /\ \A u \in Turns \ {t} : r.turn[u] = s.turn[u]
<1> DEFINE ts == [s.turn EXCEPT ![t] = y]
<1>1. ts \in [Turns -> Turn] /\ ts[t] = y /\ \A u \in Turns \ {t} : ts[u] = s.turn[u]
  BY DEF Store
<1>2. r = [s EXCEPT !.turn = ts]
  BY DEF TurnIs
<1> HIDE DEF ts
<1>3. r.turn = ts
  BY <1>2 DEF Store
<1> QED BY <1>1, <1>2, <1>3 DEF Store

(* A turn goes on: it stays on its conversation with a copy that belongs there. *)
LEMMA TurnStep ==
  ASSUME NEW s, NEW p, NEW op, Good(s, p, op), NEW t \in Turns, Live(s, t), NEW y \in Turn,
         y.stage # "off", y.conv = s.turn[t].conv, y.aborted = s.turn[t].aborted,
         y.copy.log # << >>, Belongs(y.conv, y.copy.log, p, s.ids), NEW r, TurnIs(r, s, t, y)
  PROVE  Good(r, p, op)
<1>1. /\ s \in Store /\ p \in History /\ op \subseteq Convs /\ LogsFit(s, p)
      /\ QueueFits(s.queue, p) /\ Paid(s, p) /\ Backed(s) /\ Lone(s, p) /\ Removed(s, p, op)
      /\ SentHome(p)
  BY DEF Good
<1>2. /\ r \in Store /\ r.conv = s.conv /\ r.active = s.active /\ r.queue = s.queue
      /\ r.controller = s.controller /\ r.turns = s.turns /\ r.ids = s.ids
      /\ r.stored = s.stored /\ r.turn[t] = y
      /\ \A u \in Turns \ {t} : r.turn[u] = s.turn[u]
  BY <1>1, TurnIsFields
<1>3. \A u \in Turns : /\ Live(r, u) <=> Live(s, u)
                       /\ r.turn[u].conv = s.turn[u].conv /\ r.turn[u].aborted = s.turn[u].aborted
  BY <1>2 DEF Live
<1>4. \A c \in Convs : LiveOn(r, c) = LiveOn(s, c)
  BY <1>3 DEF LiveOn
<1>5. LogsFit(r, p)
  <2>1. TurnFits(r, t, p)
    BY <1>1, <1>2 DEF LogsFit, TurnFits
  <2>2. ASSUME NEW u \in Turns \ {t} PROVE TurnFits(r, u, p)
    BY <1>1, <1>2 DEF LogsFit, TurnFits, Live
  <2> QED BY <2>1, <2>2, <1>1, <1>2 DEF LogsFit
<1>6. Paid(r, p) /\ QueueFits(r.queue, p)
  BY <1>1, <1>2, <1>3 DEF Paid
<1>7. Backed(r)
  BY <1>1, <1>2, <1>4 DEF Backed, Streaming, Present
<1>8. Lone(r, p)
  BY <1>1, <1>2, <1>3 DEF Lone
<1>9. Removed(r, p, op)
  <2>1. \A c \in Convs : LiveOn(s, c) \subseteq Turns
    BY DEF LiveOn
  <2> QED BY <2>1, <1>1, <1>2, <1>3, <1>4 DEF Removed, Present
<1> QED BY <1>1, <1>2, <1>5, <1>6, <1>7, <1>8, <1>9 DEF Good

LEMMA LiveTurn ==
  ASSUME ChatInv, NEW t \in Turns, Live(chat, t)
  PROVE  /\ chat.turn[t] \in Turn /\ chat.turn[t].conv \in Convs /\ chat.turn[t].copy \in Conversation
         /\ chat.turn[t].copy.log \in Seq(Exchange) /\ chat.turn[t].copy.log # << >>
         /\ Belongs(chat.turn[t].conv, chat.turn[t].copy.log, past, chat.ids)
<1>1. chat \in Store /\ LogsFit(chat, past)
  BY InvParts
<1>2. chat.turn[t] \in Turn
  BY <1>1 DEF Store
<1> QED BY <1>1, <1>2 DEF LogsFit, TurnFits, Turn, Conversation

LEMMA RespondsKeeps ==
  ASSUME ChatInv, NEW t \in Turns, Responds(t) PROVE ChatInv'
<1> DEFINE y == [chat.turn[t] EXCEPT !.stage = "stream"]
           x == [chat EXCEPT !.turn[t] = y]
<1>1. /\ chat \in Store /\ Good(chat, past, opening) /\ Accounted(chat, past)
      /\ NetFits(server, wire, opening, past, chat.ids) /\ DeletionHolds(server, wire, past)
  BY InvParts
<1>2. Live(chat, t)
  BY DEF Responds, Live
<1>3. /\ chat.turn[t] \in Turn /\ chat.turn[t].copy.log # << >>
      /\ Belongs(chat.turn[t].conv, chat.turn[t].copy.log, past, chat.ids)
  BY <1>2, LiveTurn
<1>4. Locally(x, past)
  BY DEF Responds
<1>5. /\ y \in Turn /\ y.stage = "stream" /\ y.conv = chat.turn[t].conv
      /\ y.copy = chat.turn[t].copy /\ y.aborted = chat.turn[t].aborted
  BY <1>3 DEF Turn
<1>6. TurnIs(x, chat, t, y)
  BY DEF TurnIs
<1> HIDE DEF x, y
<1>7. Good(x, past, opening)
  BY <1>1, <1>2, <1>3, <1>5, <1>6, TurnStep
<1>8. x.queue = chat.queue /\ x.ids = chat.ids
  BY <1>1, <1>5, <1>6, TurnIsFields
<1>9. Accounted(x, past)
  BY <1>1, <1>8 DEF Accounted, QueuedMsgs
<1> QED BY <1>1, <1>4, <1>7, <1>8, <1>9, LocalQuiet

LEMMA RevealedFields ==
  ASSUME NEW v \in Conversation, v.log # << >>, NEW e \in Replies
  PROVE  /\ Revealed(v, e) \in Conversation /\ Revealed(v, e).streaming = v.streaming
         /\ Revealed(v, e).error = v.error /\ SameMsgs(Revealed(v, e).log, v.log)
<1> DEFINE n == Len(v.log)
           l == [v.log EXCEPT ![n].reply = e]
<1>1. v.log \in Seq(Exchange) /\ n \in 1..n
  BY DEF Conversation
<1>2. l \in Seq(Exchange) /\ SameMsgs(l, v.log)
  BY <1>1, ReplySet
<1>3. Revealed(v, e) = [v EXCEPT !.log = l]
  BY DEF Revealed
<1> HIDE DEF l
<1> QED BY <1>2, <1>3 DEF Conversation

(* Another reply or error in the log of c. *)
LEMMA FitsSame ==
  ASSUME NEW c, NEW v \in Conversation, NEW w \in Conversation, v.log # << >>,
         SameMsgs(w.log, v.log), NEW p, NEW n, Belongs(c, v.log, p, n)
  PROVE  Fits(c, w, p, n) /\ Belongs(c, w.log, p, n) /\ w.log # << >>
<1>1. v.log \in Seq(Exchange) /\ w.log \in Seq(Exchange)
  BY DEF Conversation
<1> QED BY <1>1, SameNonempty, BelongsSame DEF Fits

LEMMA FrameKeeps ==
  ASSUME ChatInv, NEW t \in Turns, Frame(t) PROVE ChatInv'
<1> DEFINE v == chat.turn[t].copy
           c == chat.turn[t].conv
<1>1. /\ chat \in Store /\ Good(chat, past, opening) /\ Accounted(chat, past)
      /\ Removed(chat, past, opening)
      /\ NetFits(server, wire, opening, past, chat.ids) /\ DeletionHolds(server, wire, past)
  BY InvParts
<1>2. Live(chat, t)
  BY DEF Frame, Live
<1>3. /\ chat.turn[t] \in Turn /\ c \in Convs /\ v \in Conversation
      /\ v.log \in Seq(Exchange) /\ v.log # << >> /\ Belongs(c, v.log, past, chat.ids)
  BY <1>2, LiveTurn
<1> HIDE DEF v
<1>4. PICK w \in {Revealed(v, "some"), [v EXCEPT !.error = TRUE]} :
        LET s == [chat EXCEPT !.turn[t].copy = w] IN
        Locally(IF chat.turn[t].aborted THEN s ELSE Put(s, c, w), past)
  BY DEF Frame, v
<1>5. w \in Conversation /\ w.streaming = v.streaming /\ SameMsgs(w.log, v.log)
  <2>1. CASE w = Revealed(v, "some")
    <3>1. "some" \in Replies
      BY DEF Replies
    <3> QED BY <2>1, <3>1, <1>3, RevealedFields
  <2>2. CASE w = [v EXCEPT !.error = TRUE]
    BY <2>2, <1>3 DEF Conversation, SameMsgs
  <2> QED BY <2>1, <2>2, <1>4
<1>6. Fits(c, w, past, chat.ids) /\ Belongs(c, w.log, past, chat.ids) /\ w.log # << >>
  BY <1>3, <1>5, FitsSame
<1> DEFINE y == [chat.turn[t] EXCEPT !.copy = w]
           z == [chat EXCEPT !.turn[t] = y]
           x == IF chat.turn[t].aborted THEN z ELSE Put(z, c, w)
<1>7. Locally(x, past)
  BY <1>4
<1>8. /\ y \in Turn /\ y.stage = chat.turn[t].stage /\ y.conv = c /\ y.copy = w
      /\ y.aborted = chat.turn[t].aborted
  BY <1>3, <1>5 DEF Turn
<1>9. TurnIs(z, chat, t, y)
  BY DEF TurnIs
<1> HIDE DEF y, z
<1>10. Good(z, past, opening)
  BY <1>1, <1>2, <1>6, <1>8, <1>9, TurnStep DEF Live
<1>11. /\ z \in Store /\ z.queue = chat.queue /\ z.ids = chat.ids /\ z.turn[t] = y
  BY <1>1, <1>8, <1>9, TurnIsFields
<1>12. Good(x, past, opening) /\ x.queue = chat.queue /\ x.ids = chat.ids
  <2>1. CASE chat.turn[t].aborted
    BY <2>1, <1>10, <1>11
  <2>2. CASE ~chat.turn[t].aborted
    <3>1. x = Put(z, c, w)
      BY <2>2
    <3>2. t \in LiveOn(z, c) /\ t \in LiveOn(chat, c)
      BY <1>2, <1>8, <1>11 DEF LiveOn, Live
    <3>3. past.gone[c] \in {"cleared", "deleted"} => past.crossed
      BY <2>2, <3>2, <1>1, <1>3 DEF Removed
    <3>4. Almost(z, past, opening, c) /\ Fits(c, w, past, z.ids)
      BY <1>6, <1>10, <1>11, GoodIsAlmost
    <3> HIDE DEF x, c
    <3>5. Good(x, past, opening)
      BY <3>1, <3>2, <3>3, <3>4, <1>3, <1>5, PutKeepsGood
    <3>6. x.queue = z.queue /\ x.turn = z.turn /\ x.turns = z.turns /\ x.ids = z.ids
      BY <3>1, <1>3, <1>5, <1>11, PutRest
    <3> QED BY <3>5, <3>6, <1>11
  <2> QED BY <2>1, <2>2
<1> HIDE DEF x
<1>13. Accounted(x, past)
  BY <1>1, <1>12 DEF Accounted, QueuedMsgs
<1> QED BY <1>1, <1>7, <1>12, <1>13, LocalQuiet

LEMMA SettledFields ==
  ASSUME NEW v \in Conversation, v.log # << >>, NEW ab \in BOOLEAN
  PROVE  /\ Settled(v, ab) \in Conversation /\ ~Settled(v, ab).streaming
         /\ SameMsgs(Settled(v, ab).log, v.log)
<1> DEFINE r == v.log[Len(v.log)].reply
           e == IF r = "empty" THEN "none" ELSE IF ab THEN "stopped" ELSE r
           w == Revealed(v, e)
<1>1. v.log \in Seq(Exchange) /\ Len(v.log) \in 1..Len(v.log)
  BY DEF Conversation
<1>2. v.log[Len(v.log)] \in Exchange
  BY <1>1, Entry
<1>3. e \in Replies
  BY <1>2 DEF Exchange, Replies
<1> HIDE DEF e
<1>4. w \in Conversation /\ SameMsgs(w.log, v.log)
  BY <1>3, RevealedFields
<1>5. Settled(v, ab) = [w EXCEPT !.streaming = FALSE]
  BY DEF Settled, e
<1> HIDE DEF w
<1> QED BY <1>4, <1>5 DEF Conversation

(* The turn and the controller's entry are gone. *)
EndedTo(z, t) == z = [chat EXCEPT !.controller = None, !.turn[t] = NoTurn]

LEMMA EndedFields ==
  ASSUME chat \in Store, NEW t \in Turns, NEW z, EndedTo(z, t)
  PROVE  /\ z \in Store /\ z.conv = chat.conv /\ z.active = chat.active /\ z.queue = chat.queue
         /\ z.turns = chat.turns /\ z.ids = chat.ids /\ z.stored = chat.stored
         /\ ~Live(z, t) /\ \A u \in Turns \ {t} : z.turn[u] = chat.turn[u]
<1> DEFINE ts == [chat.turn EXCEPT ![t] = NoTurn]
<1>1. NoTurn \in Turn /\ NoTurn.stage = "off"
  BY DEF NoTurn, Turn, NoConversation, Conversation
<1> HIDE DEF NoTurn
<1>2. ts \in [Turns -> Turn] /\ ts[t] = NoTurn /\ \A u \in Turns \ {t} : ts[u] = chat.turn[u]
  BY <1>1 DEF Store
<1>3. z = [chat EXCEPT !.controller = None, !.turn = ts]
  BY DEF EndedTo, Store
<1> HIDE DEF ts
<1>4. /\ z.turn = ts /\ z.conv = chat.conv /\ z.active = chat.active /\ z.queue = chat.queue
      /\ z.turns = chat.turns /\ z.ids = chat.ids /\ z.stored = chat.stored
  BY <1>3 DEF Store
<1>5. z \in Store
  BY <1>2, <1>3 DEF Store
<1> QED BY <1>1, <1>2, <1>4, <1>5 DEF Live

LEMMA EndedIsAlmost ==
  ASSUME ChatInv, NEW t \in Turns, Live(chat, t), NEW z, EndedTo(z, t)
  PROVE  Almost(z, past, opening, chat.turn[t].conv)
<1>1. /\ chat \in Store /\ past \in History /\ opening \subseteq Convs /\ LogsFit(chat, past)
      /\ QueueFits(chat.queue, past) /\ Paid(chat, past) /\ Backed(chat)
      /\ Lone(chat, past) /\ Removed(chat, past, opening) /\ SentHome(past)
  BY InvParts
<1>2. /\ z \in Store /\ z.conv = chat.conv /\ z.active = chat.active /\ z.queue = chat.queue
      /\ z.turns = chat.turns /\ z.ids = chat.ids /\ z.stored = chat.stored
      /\ ~Live(z, t) /\ \A u \in Turns \ {t} : z.turn[u] = chat.turn[u]
  BY <1>1, EndedFields
<1>3. \A u \in Turns : Live(z, u) => u # t /\ Live(chat, u) /\ z.turn[u] = chat.turn[u]
  BY <1>2 DEF Live
<1>4. LogsFit(z, past)
  BY <1>1, <1>2, <1>3 DEF LogsFit, TurnFits
<1>5. Paid(z, past) /\ QueueFits(z.queue, past)
  BY <1>1, <1>2, <1>3 DEF Paid
<1>6. ASSUME NEW b \in Convs \ {chat.turn[t].conv}, Streaming(z, b) PROVE LiveOn(z, b) # {}
  <2>1. Streaming(chat, b)
    BY <1>2, <1>6 DEF Streaming, Present
  <2>2. PICK u \in Turns : Live(chat, u) /\ chat.turn[u].conv = b
    BY <2>1, <1>1 DEF Backed, LiveOn
  <2>3. u # t
    BY <2>2
  <2>4. u \in LiveOn(z, b)
    BY <2>2, <2>3, <1>2 DEF LiveOn, Live
  <2> QED BY <2>4
<1>7. Lone(z, past)
  BY <1>1, <1>3 DEF Lone
<1>8. Removed(z, past, opening)
  <2>1. \A c \in Convs : \A u \in LiveOn(z, c) : u \in LiveOn(chat, c) /\ z.turn[u] = chat.turn[u]
    BY <1>3 DEF LiveOn
  <2> QED BY <2>1, <1>1, <1>2 DEF Removed, Present
<1> QED BY <1>1, <1>2, <1>4, <1>5, <1>6, <1>7, <1>8 DEF Almost

LEMMA PostFits ==
  ASSUME NEW c \in Convs, NEW w \in Conversation, w.log # << >>, NEW p, NEW n,
         Belongs(c, w.log, p, n)
  PROVE  /\ Post(c, w) \in Request /\ Post(c, w).conv = c
         /\ Post(c, w).row.msg # 0 => p.went[Post(c, w).row.msg] = c
<1> DEFINE k == Len(w.log)
           row == [pos |-> k, msg |-> w.log[k].msg, reply |-> w.log[k].reply]
<1>1. w.log \in Seq(Exchange) /\ k \in 1..k
  BY DEF Conversation
<1>2. w.log[k] \in Exchange
  BY <1>1, Entry
<1>3. k <= MaxMsgs + 1
  BY <1>1, LogIsShort DEF Belongs
<1>4. k \in 1..(MaxMsgs + 1)
  BY <1>1, <1>3, Numbers
<1>5. row \in Row /\ row.msg = w.log[k].msg
  BY <1>2, <1>4 DEF Row, Exchange
<1>6. row.msg # 0 => p.went[row.msg] = c
  BY <1>1, <1>5 DEF Belongs
<1>7. Post(c, w) = [kind |-> "turn", conv |-> c, row |-> row]
  BY DEF Post
<1> HIDE DEF row
<1>8. Post(c, w) \in Request /\ Post(c, w).row = row /\ Post(c, w).conv = c
  BY <1>5, <1>7 DEF Request
<1> QED BY <1>6, <1>8

LEMMA SettleKeeps ==
  ASSUME ChatInv, NEW t \in Turns, Live(chat, t), NEW v \in Conversation,
         v.log = chat.turn[t].copy.log, Settle(t, v)
  PROVE  ChatInv'
<1> DEFINE c == chat.turn[t].conv
           w == Settled(v, chat.turn[t].aborted)
           z == [chat EXCEPT !.controller = None, !.turn[t] = NoTurn]
<1>1. /\ chat \in Store /\ past \in History /\ Good(chat, past, opening) /\ Accounted(chat, past)
      /\ Removed(chat, past, opening)
      /\ NetFits(server, wire, opening, past, chat.ids) /\ DeletionHolds(server, wire, past)
  BY InvParts
<1>2. /\ c \in Convs /\ chat.turn[t].aborted \in BOOLEAN
      /\ v.log # << >> /\ Belongs(c, v.log, past, chat.ids)
  BY LiveTurn DEF Turn
<1>3. w \in Conversation /\ ~w.streaming /\ SameMsgs(w.log, v.log)
  BY <1>2, SettledFields
<1>4. /\ IF Present(chat, c)
         THEN Becomes(Drain(Put(z, c, w)), past)
              /\ wire' = wire \cup (IF Persist THEN {Post(c, w)} ELSE {})
         ELSE Becomes(Drain(z), past) /\ wire' = wire
      /\ server' = server /\ opening' = opening
  BY DEF Settle
<1>5. EndedTo(z, t)
  BY DEF EndedTo
<1> HIDE DEF w, z
<1>6. Almost(z, past, opening, c)
  BY <1>5, EndedIsAlmost
<1>7. /\ z \in Store /\ z.conv = chat.conv /\ z.active = chat.active /\ z.queue = chat.queue
      /\ z.turns = chat.turns /\ z.ids = chat.ids /\ z.stored = chat.stored
      /\ ~Live(z, t) /\ \A u \in Turns \ {t} : z.turn[u] = chat.turn[u]
  BY <1>1, <1>5, EndedFields
<1> HIDE DEF c
<1>8. Fits(c, w, past, chat.ids) /\ Belongs(c, w.log, past, chat.ids) /\ w.log # << >>
  BY <1>2, <1>3, FitsSame
<1>9. \A u \in Turns : Live(z, u) => Live(chat, u)
  BY <1>7 DEF Live
<1>10. chat.queue # << >> => chat.queue[1].msg \in QueuedMsgs(chat)
  <2>1. chat.queue # << >> => 1 \in 1..Len(chat.queue)
    BY <1>1, StoreTypes
  <2> QED BY <2>1 DEF QueuedMsgs
<1>11. CASE Present(chat, c)
  <2> DEFINE x == Put(z, c, w)
  <2>1. past.gone[c] \in {"cleared", "deleted"} => past.crossed
    BY <1>1, <1>2, <1>11 DEF Removed
  <2>2. Good(x, past, opening)
    BY <2>1, <1>2, <1>3, <1>6, <1>7, <1>8, PutKeepsGood
  <2>3. x.queue = chat.queue /\ x.turn = z.turn /\ x.turns = chat.turns /\ x.ids = chat.ids
    <3>1. x.queue = z.queue /\ x.turn = z.turn /\ x.turns = z.turns /\ x.ids = z.ids
      BY <1>2, <1>3, <1>7, PutRest
    <3> QED BY <3>1, <1>7
  <2>4. Becomes(Drain(x), past) /\ wire' = wire \cup (IF Persist THEN {Post(c, w)} ELSE {})
    BY <1>4, <1>11
  <2> HIDE DEF x
  <2>5. Accounted(x, past)
    BY <2>3, <1>1 DEF Accounted, QueuedMsgs
  <2>6. \A u \in Turns : Live(x, u) => Live(chat, u)
    BY <2>3, <1>9 DEF Live
  <2>7. /\ Post(c, w) \in Request /\ Post(c, w).conv = c
        /\ Post(c, w).row.msg # 0 => past.went[Post(c, w).row.msg] = c
    BY <1>2, <1>3, <1>8, PostFits
  <2>8. c <= chat.ids
    BY <1>8 DEF Belongs
  <2>9. NetFits(server', wire', opening', past, x.ids)
    <3>1. wire' \subseteq Request /\ \A r \in wire' : r \in wire \/ r = Post(c, w)
      BY <2>4, <2>7, <1>1 DEF NetFits
    <3>2. ASSUME NEW r \in wire'
          PROVE  r.conv <= chat.ids /\ (r.kind = "turn" /\ r.row.msg # 0 => past.went[r.row.msg] = r.conv)
      BY <3>1, <3>2, <2>7, <2>8, <1>1 DEF NetFits
    <3>3. ~Persist => wire' = wire
      BY <2>4
    <3> QED BY <3>1, <3>2, <3>3, <2>3, <1>1, <1>4 DEF NetFits
  <2>10. DeletionHolds(server', wire', past)
    <3> SUFFICES ASSUME NEW b \in Convs, past.gone[b] = "deleted", b \notin past.raced, ~past.crossed
                 PROVE  /\ \A r \in wire' : r.conv = b => r.kind = "delete"
                        /\ server[b].status = "active" => [kind |-> "delete", conv |-> b] \in wire'
      BY <1>4 DEF DeletionHolds
    <3>1. b # c
      BY <2>1
    <3>2. /\ \A r \in wire : r.conv = b => r.kind = "delete"
          /\ server[b].status = "active" => [kind |-> "delete", conv |-> b] \in wire
      BY <1>1 DEF DeletionHolds
    <3> QED BY <3>1, <3>2, <2>4, <2>7
  <2>11. Good(x, past, opening')
    BY <2>2, <1>4
  <2>12. x.queue # << >> => \/ x.queue[1].msg \in QueuedMsgs(chat)
                            \/ past.home[x.queue[1].msg] = Target(x)
    BY <2>3, <1>10
  <2> QED BY <2>3, <2>4, <2>5, <2>6, <2>9, <2>10, <2>11, <2>12, <1>1, FinishDrain
<1>12. CASE ~Present(chat, c)
  <2>1. ~Streaming(z, c)
    BY <1>7, <1>12 DEF Streaming, Present
  <2>2. Backed(z)
    BY <2>1, <1>6 DEF Almost, Backed
  <2>3. Good(z, past, opening')
    BY <2>2, <1>4, <1>6 DEF Almost, Good
  <2>4. Accounted(z, past)
    BY <1>1, <1>7 DEF Accounted, QueuedMsgs
  <2>5. NetFits(server', wire', opening', past, z.ids) /\ DeletionHolds(server', wire', past)
    BY <1>1, <1>4, <1>7, <1>12
  <2>6. Becomes(Drain(z), past)
    BY <1>4, <1>12
  <2>7. z.queue # << >> => \/ z.queue[1].msg \in QueuedMsgs(chat)
                           \/ past.home[z.queue[1].msg] = Target(z)
    BY <1>7, <1>10
  <2> QED BY <2>3, <2>4, <2>5, <2>6, <2>7, <1>1, <1>7, <1>9, FinishDrain
<1> QED BY <1>11, <1>12

LEMMA StreamEndsKeeps ==
  ASSUME ChatInv, NEW t \in Turns, StreamEnds(t) PROVE ChatInv'
<1>1. Live(chat, t) /\ Settle(t, chat.turn[t].copy)
  BY DEF StreamEnds, Live
<1> QED BY <1>1, LiveTurn, SettleKeeps

LEMMA ThrowsKeeps ==
  ASSUME ChatInv, NEW t \in Turns, Throws(t) PROVE ChatInv'
<1> DEFINE v == [chat.turn[t].copy EXCEPT !.error = ~chat.turn[t].aborted]
<1>1. Live(chat, t) /\ Settle(t, v)
  BY DEF Throws
<1>2. v \in Conversation /\ v.log = chat.turn[t].copy.log
  BY <1>1, LiveTurn DEF Conversation
<1> HIDE DEF v
<1> QED BY <1>1, <1>2, SettleKeeps

LEMMA RetryKeeps ==
  ASSUME ChatInv, Retry PROVE ChatInv'
<1> DEFINE c == chat.active
           v == Base(chat)
           n == Len(v.log)
           l == [v.log EXCEPT ![n].reply = "empty"]
           w == [v EXCEPT !.streaming = TRUE, !.error = FALSE, !.log = l]
           t1 == chat.turns + 1
           r == StreamTurn(chat, c, w)
           p == [past EXCEPT !.rare = past.rare + 1, !.dropped = past.dropped,
                             !.gone = past.gone, !.raced = past.raced]
<1>1. /\ chat \in Store /\ past \in History /\ opening \subseteq Convs
      /\ Good(chat, past, opening) /\ Accounted(chat, past) /\ LogsFit(chat, past)
      /\ Paid(chat, past) /\ Removed(chat, past, opening)
      /\ NetFits(server, wire, opening, past, chat.ids) /\ DeletionHolds(server, wire, past)
  BY InvParts
<1>2. /\ past.rare < MaxRare /\ Present(chat, c) /\ v.error /\ v = chat.conv[c]
  BY DEF Retry, Base
<1>3. c \in Convs /\ v \in Conversation /\ v.log \in Seq(Exchange) /\ Fits(c, v, past, chat.ids)
  BY <1>1, <1>2 DEF Present, Store, Shown, Conversation, LogsFit, ShownFits
<1>4. v.log # << >> /\ Belongs(c, v.log, past, chat.ids)
  BY <1>2, <1>3 DEF Fits
<1> HIDE DEF v
<1>5. n \in 1..Len(v.log) /\ "empty" \in Replies
  BY <1>3, <1>4 DEF Replies
<1>6. l \in Seq(Exchange) /\ SameMsgs(l, v.log)
  BY <1>3, <1>5, ReplySet
<1>7. Locally(r, p)
  <2>1. p = [past EXCEPT !.rare = @ + 1]
    BY <1>1 DEF History
  <2>2. [v EXCEPT !.streaming = TRUE, !.error = FALSE, !.log[Len(v.log)].reply = "empty"] = w
    BY <1>3 DEF Conversation
  <2> HIDE DEF p, w
  <2> QED BY <2>1, <2>2 DEF Retry, v
<1> HIDE DEF l
<1>8. w \in Conversation /\ w.log = l /\ w.streaming
  BY <1>3, <1>6 DEF Conversation
<1> HIDE DEF w, c
<1>9. Fits(c, w, past, chat.ids) /\ Belongs(c, w.log, past, chat.ids) /\ w.log # << >>
  BY <1>3, <1>4, <1>6, <1>8, FitsSame
<1>10. Notes(past, p) /\ p.gone = past.gone /\ p.raced = past.raced /\ p.msgs = past.msgs
       /\ p.dropped = past.dropped
  <2>1. Wiped(p, past.dropped, past.gone, past.raced)
    BY DEF Wiped
  <2>2. /\ past.dropped \in SUBSET Msgs /\ past.gone \in [Convs -> Fates]
        /\ past.raced \in SUBSET Convs
    BY <1>1 DEF History
  <2> HIDE DEF p
  <2> QED BY <2>1, <2>2, <1>1, <1>2, WipedNotes
<1>11. p.rare = past.rare + 1
  BY <1>1 DEF History
<1> HIDE DEF p
<1>12. Records(past, p) /\ p.went = past.went /\ p \in History /\ Grows(past, p)
  BY <1>10 DEF Records, Notes, Grows
<1>13. Good(chat, p, opening)
  BY <1>1, <1>12, RecordsKeepsGood
<1>14. /\ LogsFit(chat, p) /\ QueueFits(chat.queue, p) /\ Backed(chat) /\ Lone(chat, p)
       /\ Removed(chat, p, opening) /\ SentHome(p)
  BY <1>13 DEF Good
<1>15. /\ chat.turns \in Nat /\ chat.ids \in Nat /\ Len(chat.queue) \in Nat
       /\ past.msgs \in Nat /\ past.rare \in Nat /\ past.msgs <= MaxMsgs /\ past.rare < MaxRare
       /\ MaxMsgs \in Nat /\ MaxRare \in Nat
       /\ chat.turns + Len(chat.queue) <= past.msgs + past.rare
       /\ chat.ids + Len(chat.queue) <= past.msgs + 1
  BY <1>1, <1>2, StoreTypes, HistoryTypes, Numbers DEF Paid
<1>16. chat.turns < MaxMsgs + MaxRare
  BY ONLY <1>15
<1>17. c <= chat.ids /\ c \in Nat
  BY <1>3, <1>9, Numbers DEF Belongs
<1>18. /\ r \in Store /\ r.conv = [chat.conv EXCEPT ![c] = w] /\ r.active = c
       /\ r.queue = chat.queue /\ r.controller = t1 /\ r.turns = t1 /\ t1 \in Turns
       /\ r.ids = IF c > chat.ids THEN c ELSE chat.ids
       /\ r.stored = chat.stored \/ r.stored = [conv |-> r.conv, active |-> c]
       /\ r.turn[t1] = Begun(c, w)
       /\ \A t \in Turns \ {t1} :
             r.turn[t] = IF chat.controller = t THEN [chat.turn[t] EXCEPT !.aborted = TRUE]
                         ELSE chat.turn[t]
  BY <1>1, <1>3, <1>8, <1>16, StreamTurnFields
<1> HIDE DEF r
<1>19. r.ids = chat.ids
  BY <1>15, <1>17, <1>18
<1>20. \A t \in Turns \ {t1} :
          /\ r.turn[t].stage = chat.turn[t].stage /\ r.turn[t].conv = chat.turn[t].conv
          /\ r.turn[t].copy = chat.turn[t].copy
          /\ chat.turn[t].aborted => r.turn[t].aborted
  <2> SUFFICES ASSUME NEW t \in Turns \ {t1}
               PROVE  /\ r.turn[t].stage = chat.turn[t].stage /\ r.turn[t].conv = chat.turn[t].conv
                      /\ r.turn[t].copy = chat.turn[t].copy
                      /\ chat.turn[t].aborted => r.turn[t].aborted
    OBVIOUS
  <2>1. chat.turn[t] \in Turn
    BY <1>1 DEF Store
  <2>2. CASE chat.controller = t
    <3>1. r.turn[t] = [chat.turn[t] EXCEPT !.aborted = TRUE]
      BY <2>2, <1>18
    <3> QED BY <2>1, <3>1, TurnAborted
  <2>3. CASE chat.controller # t
    <3>1. r.turn[t] = chat.turn[t]
      BY <2>3, <1>18
    <3> QED BY <3>1
  <2> QED BY <2>2, <2>3
<1>21. Begun(c, w).stage = "request" /\ Begun(c, w).conv = c /\ Begun(c, w).copy = w
  BY DEF Begun
<1>22. LogsFit(r, p)
  <2>1. Fits(c, w, p, chat.ids) /\ Belongs(c, w.log, p, chat.ids)
    <3>1. w.log \in Seq(Exchange) /\ chat.ids <= chat.ids
      BY <1>8, <1>15 DEF Conversation
    <3> QED BY <3>1, <1>3, <1>9, <1>12, <1>15, BelongsGrows DEF Fits
  <2>2. ShownFits(r.conv, p, r.ids)
    <3>1. ShownFits(chat.conv, p, chat.ids) /\ chat.conv \in Shown /\ chat.ids <= chat.ids
      BY <1>1, <1>14, <1>15 DEF LogsFit, Store
    <3>2. ShownFits([chat.conv EXCEPT ![c] = w], p, chat.ids)
      BY <3>1, <2>1, <1>3, <1>8, <1>15, GrowsRefl, ShownPut
    <3> QED BY <3>2, <1>18, <1>19
  <2>3. TurnFits(r, t1, p)
    BY <2>1, <1>3, <1>9, <1>18, <1>19, <1>21 DEF TurnFits
  <2>4. \A t \in Turns \ {t1} : TurnKept(r.turn[t], chat.turn[t])
    BY <1>20 DEF TurnKept
  <2>5. /\ chat.ids <= r.ids
        /\ r.stored = chat.stored \/ r.stored = [conv |-> r.conv, active |-> r.active]
    BY <1>15, <1>18, <1>19
  <2> QED BY <2>2, <2>3, <2>4, <2>5, <1>1, <1>14, <1>18, GrowsRefl, LogsAfter
<1>23. Paid(r, p) /\ QueueFits(r.queue, p)
  <2>1. chat.turns + 1 + Len(chat.queue) <= past.msgs + (past.rare + 1)
    <3>1. /\ chat.turns \in Nat /\ Len(chat.queue) \in Nat /\ past.msgs \in Nat /\ past.rare \in Nat
          /\ chat.turns + Len(chat.queue) <= past.msgs + past.rare
      BY <1>15
    <3> QED BY ONLY <3>1
  <2>2. ASSUME NEW t \in Turns, t > r.turns PROVE ~Live(r, t)
    <3>1. t > chat.turns /\ t # t1
      BY <2>2, <1>15, <1>18, Numbers
    <3> QED BY <3>1, <1>1, <1>20 DEF Paid, Live
  <2> QED BY <2>1, <2>2, <1>10, <1>11, <1>14, <1>15, <1>18, <1>19 DEF Paid
<1>24. Backed(r)
  <2> SUFFICES ASSUME NEW b \in Convs, Streaming(r, b) PROVE LiveOn(r, b) # {}
    BY DEF Backed
  <2>1. CASE b = c
    <3>1. t1 \in LiveOn(r, b)
      BY <2>1, <1>18, <1>21 DEF LiveOn, Live
    <3> QED BY <3>1
  <2>2. CASE b # c
    <3>1. Streaming(chat, b)
      BY <2>2, <1>1, <1>3, <1>18 DEF Streaming, Present, Store, Shown
    <3>2. PICK t \in Turns : Live(chat, t) /\ chat.turn[t].conv = b
      BY <3>1, <1>14 DEF Backed, LiveOn
    <3>3. t # t1
      BY <3>2, <1>1, <1>15 DEF Paid
    <3>4. t \in LiveOn(r, b)
      BY <3>2, <3>3, <1>20 DEF LiveOn, Live
    <3> QED BY <3>4
  <2> QED BY <2>1, <2>2
<1>25. chat' = r /\ past' = Noted(p, r) /\ UNCHANGED <<server, wire, opening>>
  BY <1>7 DEF Locally, Becomes
<1>26. /\ Follows(p, past') /\ past'.went = p.went
       /\ past'.crossed <=> \/ p.crossed
                            \/ r.turns > chat.turns /\ \E t \in Turns : Live(chat, t) /\ Live(r, t)
  BY <1>1, <1>12, <1>18, <1>22, <1>25, NotedQuietly DEF LogsFit
<1>27. LogsFit(r, past') /\ QueueFits(r.queue, past') /\ Paid(r, past') /\ SentHome(past')
  BY <1>12, <1>14, <1>18, <1>22, <1>23, <1>26, FollowsKeepsParts
<1>28. Lone(r, past')
  <2>1. ASSUME ~past'.crossed, NEW t \in Turns, Live(r, t) PROVE t = t1
    <3>1. SUFFICES ASSUME t # t1 PROVE FALSE
      OBVIOUS
    <3>2. Live(chat, t)
      BY <2>1, <3>1, <1>20 DEF Live
    <3>3. r.turns > chat.turns
      BY <1>15, <1>18
    <3> QED BY <2>1, <3>2, <3>3, <1>26
  <2> QED BY <2>1, <1>18 DEF Lone
<1>29. Removed(r, past', opening)
  <2> SUFFICES ASSUME NEW b \in Convs
               PROVE  /\ past'.gone[b] # "no" => b <= r.ids
                      /\ past'.gone[b] \in {"cleared", "deleted"} /\ ~past'.crossed =>
                             /\ ~Present(r, b) /\ b \notin opening
                             /\ \A t \in LiveOn(r, b) : r.turn[t].aborted
    BY DEF Removed
  <2>1. past'.gone = past.gone /\ (past.crossed => past'.crossed)
    BY <1>10, <1>26 DEF Follows, Notes
  <2>2. past'.gone[b] # "no" => b <= r.ids
    BY <2>1, <1>1, <1>19 DEF Removed
  <2>3. ASSUME past'.gone[b] \in {"cleared", "deleted"}, ~past'.crossed
        PROVE  /\ ~Present(r, b) /\ b \notin opening
               /\ \A t \in LiveOn(r, b) : r.turn[t].aborted
    <3>1. ~Present(chat, b) /\ b \notin opening /\ \A t \in LiveOn(chat, b) : chat.turn[t].aborted
      BY <2>1, <2>3, <1>1 DEF Removed
    <3>2. b # c
      BY <3>1, <1>2 DEF c
    <3>3. ~Present(r, b)
      BY <3>1, <3>2, <1>1, <1>3, <1>18 DEF Present, Store, Shown
    <3>4. ASSUME NEW t \in LiveOn(r, b) PROVE r.turn[t].aborted
      <4>1. t \in Turns /\ t # t1
        BY <3>2, <3>4, <1>18, <1>21 DEF LiveOn
      <4>2. t \in LiveOn(chat, b)
        BY <4>1, <3>4, <1>20 DEF LiveOn, Live
      <4> QED BY <4>1, <4>2, <3>1, <1>20
    <3> QED BY <3>1, <3>3, <3>4
  <2> QED BY <2>2, <2>3
<1>30. Good(r, past', opening)
  BY <1>1, <1>18, <1>24, <1>26, <1>27, <1>28, <1>29 DEF Good, Follows
<1>31. Accounted(r, past')
  BY <1>1, <1>10, <1>12, <1>18, <1>26 DEF Accounted, QueuedMsgs, Follows
<1>32. NetFits(server', wire', opening', past', r.ids) /\ DeletionHolds(server', wire', past')
  <2>1. NetFits(server, wire, opening, p, chat.ids) /\ DeletionHolds(server, wire, p)
    BY <1>1, <1>12, RecordsKeepsNet
  <2>2. chat.ids \in Nat /\ r.ids \in Nat /\ chat.ids <= r.ids
    BY <1>15, <1>19
  <2> QED BY ONLY <2>1, <2>2, <1>25, <1>26, LocalNet
<1> QED BY <1>25, <1>30, <1>31, <1>32 DEF ChatInv

-----------------------------------------------------------------------------
(* The invariant. *)

LEMMA InitHolds ==
  ASSUME Init PROVE ChatInv
<1> DEFINE nt == [t \in Turns |-> NoTurn]
           hm == [m \in Msgs |-> None]
           gn == [c \in Convs |-> "no"]
           e == << >>
<1>1. /\ nt \in [Turns -> Turn] /\ \A t \in Turns : nt[t].stage = "off"
  BY DEF NoTurn, Turn, NoConversation, Conversation
<1>2. hm \in [Msgs -> Convs \cup {None}] /\ \A m \in Msgs : hm[m] = None
  OBVIOUS
<1>3. gn \in [Convs -> Fates] /\ \A c \in Convs : gn[c] = "no"
  BY DEF Fates
<1>4. e \in Seq(Queued) /\ Len(e) = 0
  OBVIOUS
<1>5. /\ chat = [conv |-> Empty, active |-> None, queue |-> e, controller |-> None, turn |-> nt,
                 turns |-> 0, ids |-> Old, stored |-> None]
      /\ past = [msgs |-> 0, rare |-> 0, home |-> hm, went |-> hm, moved |-> {}, dropped |-> {},
                 gone |-> gn, direct |-> {}, raced |-> {}, crossed |-> FALSE]
      /\ wire = {} /\ opening = {}
  BY DEF Init
<1>6. 0 \in 0..(MaxMsgs + MaxRare) /\ 0 \in 0..MaxMsgs /\ 0 \in 0..MaxRare /\ Old \in Convs /\ Old = 1
  BY Numbers DEF Old
<1> HIDE DEF nt, hm, gn, e
<1>7. chat \in Store
  BY <1>1, <1>4, <1>5, <1>6, EmptyFits DEF Store
<1>8. past \in History
  BY <1>2, <1>3, <1>5, <1>6 DEF History
<1>9. \A c \in Convs : ~Present(chat, c)
  BY <1>5, EmptyFits DEF Present
<1>10. \A t \in Turns : ~Live(chat, t)
  BY <1>1, <1>5 DEF Live
<1>11. LogsFit(chat, past)
  BY <1>5, <1>10, EmptyFits DEF LogsFit, ShownFits, TurnFits
<1>12. QueueFits(chat.queue, past) /\ Paid(chat, past)
  <2>1. 1..Len(chat.queue) = {} /\ chat.turns + Len(chat.queue) <= past.msgs + past.rare
        /\ chat.ids + Len(chat.queue) <= past.msgs + 1
    BY <1>4, <1>5, <1>6
  <2> QED BY <2>1, <1>10 DEF QueueFits, Paid
<1>13. Backed(chat) /\ Lone(chat, past)
  BY <1>9, <1>10 DEF Backed, Streaming, Lone
<1>14. Removed(chat, past, opening) /\ SentHome(past)
  BY <1>2, <1>3, <1>5 DEF Removed, SentHome
<1>15. Good(chat, past, opening)
  BY <1>5, <1>7, <1>8, <1>11, <1>12, <1>13, <1>14 DEF Good
<1>16. Accounted(chat, past)
  <2>1. \A m \in Msgs : ~(m <= past.msgs)
    BY <1>5 DEF Msgs
  <2> QED BY <2>1 DEF Accounted
<1>17. NetFits(server, wire, opening, past, chat.ids)
  <2>1. OldRow \in Row /\ OldRow.msg = 0
    BY Numbers DEF OldRow, Row, Replies
  <2>2. \A c \in Convs : /\ server[c] \in Saved /\ RowsFit(c, server[c].rows, past)
                         /\ server[c].status = "active" => c = Old
                         /\ ~Persist => server[c] = Unsaved
    BY <2>1 DEF Init, Unsaved, Saved, RowsFit
  <2>3. server \in [Convs -> Saved]
    <3>1. server = [c \in Convs |-> server[c]]
      BY DEF Init
    <3> QED BY <2>2, <3>1
  <2>4. chat.ids = 1 /\ wire = {} /\ opening = {}
    BY <1>5, <1>6
  <2>5. \A c \in Convs : (server[c].status = "active" \/ c \in opening) => c <= chat.ids
    BY <2>2, <2>4, <1>6
  <2> QED BY <2>2, <2>3, <2>4, <2>5 DEF NetFits
<1>18. DeletionHolds(server, wire, past)
  BY <1>3, <1>5 DEF DeletionHolds
<1> QED BY <1>15, <1>16, <1>17, <1>18 DEF ChatInv

LEMMA StutterKeeps ==
  ASSUME ChatInv, UNCHANGED vars PROVE ChatInv'
<1>1. server' = server /\ wire' = wire /\ opening' = opening /\ chat' = chat /\ past' = past
  BY DEF vars
<1> QED BY <1>1 DEF ChatInv

LEMMA NextKeeps ==
  ASSUME ChatInv, Next PROVE ChatInv'
<1>1. CASE Compose
  BY <1>1, ComposeKeeps
<1>2. CASE SendDirect
  BY <1>2, SendDirectKeeps
<1>3. CASE \E i \in Msgs : RemoveQueued(i) \/ EditQueued(i) \/ CommitQueued(i)
  BY <1>3, RemoveQueuedKeeps, EditQueuedKeeps, CommitQueuedKeeps
<1>4. CASE ClearQueuedEditing
  BY <1>4, ClearQueuedEditingKeeps
<1>5. CASE Stop
  BY <1>5, StopKeeps
<1>6. CASE Retry
  BY <1>6, RetryKeeps
<1>7. CASE \E c \in Convs : Open(c) \/ Opened(c) \/ Delete(c)
  BY <1>7, OpenKeeps, OpenedKeeps, DeleteKeeps
<1>8. CASE \E r \in wire : UpsertTurn(r) \/ SoftDelete(r) \/ DeleteFails(r)
  BY <1>8, UpsertTurnKeeps, SoftDeleteKeeps, DeleteFailsKeeps
<1>9. CASE NewConversation
  BY <1>9, NewConversationKeeps
<1>10. CASE Refresh
  BY <1>10, RefreshKeeps
<1>11. CASE Reload
  BY <1>11, ReloadKeeps
<1>12. CASE \E t \in Turns : Responds(t) \/ Frame(t) \/ StreamEnds(t) \/ Throws(t)
  BY <1>12, RespondsKeeps, FrameKeeps, StreamEndsKeeps, ThrowsKeeps
<1> QED BY <1>1, <1>2, <1>3, <1>4, <1>5, <1>6, <1>7, <1>8, <1>9, <1>10, <1>11, <1>12 DEF Next

(* The inductive invariant: every log, stored, shown or carried by a turn, *)
(* holds messages that went to its conversation, the queue holds messages  *)
(* that went nowhere, every stream has its turn, what was removed has no   *)
(* turn left that may put it back, and the server's rows and the requests  *)
(* on their way agree with all that.                                       *)
THEOREM ChatInvHolds == Spec => []ChatInv
<1>1. Init => ChatInv
  BY InitHolds
<1>2. ChatInv /\ [Next]_vars => ChatInv'
  BY NextKeeps, StutterKeeps
<1> QED BY <1>1, <1>2, PTL DEF Spec

(* agentsChatStore.ts, streamTurn and its finally: the store is well       *)
(* formed, and a conversation that shows a reply streaming has a turn      *)
(* under way that will settle it, through Stop, deletion, reload and turns *)
(* that overlap.                                                           *)
THEOREM ChatBackedHolds == Spec => []ChatBacked
<1>1. ChatInv => ChatBacked
  <2> SUFFICES ASSUME ChatInv PROVE ChatBacked
    OBVIOUS
  <2>1. /\ chat \in Store /\ opening \subseteq Convs /\ Backed(chat)
        /\ NetFits(server, wire, opening, past, chat.ids)
    BY InvParts
  <2>2. TypeOK
    BY <2>1 DEF TypeOK, Store, Shown, NetFits
  <2> QED BY <2>1, <2>2 DEF ChatBacked, StreamingIsBacked, Backed
<1> QED BY <1>1, ChatInvHolds, PTL

(* stopAgentTurn: as long as no turn began before another had settled, the *)
(* turn that streams into the open conversation is aborted already or is   *)
(* the one the agent's controller aborts.                                  *)
THEOREM StopReachesLoneTurnHolds == Spec => []StopReachesLoneTurn
<1>1. ChatInv => StopReachesLoneTurn
  <2> SUFFICES ASSUME ChatInv, ~past.crossed, NEW t \in LiveOn(chat, chat.active)
               PROVE  chat.turn[t].aborted \/ chat.controller = t
    BY DEF StopReachesLoneTurn
  <2>1. Lone(chat, past)
    BY InvParts
  <2> QED BY <2>1 DEF Lone, LiveOn
<1> QED BY <1>1, ChatInvHolds, PTL

(* clearAllConversations, deleteConversation and bumpSessionEpoch against  *)
(* the frames and the settle of a turn under way: a conversation that was  *)
(* removed does not come back, as long as no turn began before another had *)
(* settled.                                                                *)
THEOREM RemovedStaysRemovedHolds == Spec => []RemovedStaysRemoved
<1>1. ChatInv => RemovedStaysRemoved
  BY InvParts DEF Removed, RemovedStaysRemoved
<1> QED BY <1>1, ChatInvHolds, PTL

(* deleteConversation against persistMessages: a conversation deleted      *)
(* while it was open is gone from the server once no request about it is   *)
(* on its way, unless a save was already on its way when it was deleted.   *)
THEOREM DeletedLeavesServerHolds == Spec => []DeletedLeavesServer
<1>1. ChatInv => DeletedLeavesServer
  <2> SUFFICES ASSUME ChatInv, NEW c \in Convs, past.gone[c] = "deleted", c \notin past.raced,
                      ~past.crossed, \A r \in wire : r.conv # c, OnServer(c)
               PROVE  FALSE
    BY DEF DeletedLeavesServer
  <2>1. DeletionHolds(server, wire, past)
    BY InvParts
  <2>2. [kind |-> "delete", conv |-> c] \in wire
    BY <2>1 DEF DeletionHolds, OnServer
  <2> QED BY <2>2
<1> QED BY <1>1, ChatInvHolds, PTL

(* queueAgentMessage and drainAgentQueue: a message reaches the            *)
(* conversation it was typed in, or was waiting while another was open.    *)
THEOREM DeliveredAtHomeHolds == Spec => []DeliveredAtHome
<1>1. ChatInv => DeliveredAtHome
  BY InvParts DEF SentHome, DeliveredAtHome
<1> QED BY <1>1, ChatInvHolds, PTL

LEMMA OneAtMost ==
  ASSUME NEW S, \A x, y \in S : x = y
  PROVE  Cardinality(S) \in {0, 1} /\ (S = {} => Cardinality(S) = 0)
<1>1. CASE S = {}
  BY <1>1, FS_EmptySet
<1>2. CASE S # {}
  <2>1. PICK x \in S : TRUE
    BY <1>2
  <2>2. S = {x}
    BY <2>1
  <2> QED BY <2>2, FS_Singleton, <1>2
<1> QED BY <1>1, <1>2

LEMMA MessageOnce ==
  ASSUME ChatInv PROVE EachMessageOnce
<1> SUFFICES ASSUME NEW m \in 1..past.msgs
             PROVE  LET waits == {i \in DOMAIN chat.queue : chat.queue[i].msg = m}
                        places == {x \in Convs \X (1..(MaxMsgs + 1)) :
                                    /\ Present(chat, x[1]) /\ x[2] <= Len(chat.conv[x[1]].log)
                                    /\ chat.conv[x[1]].log[x[2]].msg = m}
                    IN  /\ Cardinality(waits) + Cardinality(places) <= 1
                        /\ waits = {} /\ past.went[m] = None => m \in past.dropped
  BY DEF EachMessageOnce
<1> DEFINE waits == {i \in DOMAIN chat.queue : chat.queue[i].msg = m}
           places == {x \in Convs \X (1..(MaxMsgs + 1)) :
                       /\ Present(chat, x[1]) /\ x[2] <= Len(chat.conv[x[1]].log)
                       /\ chat.conv[x[1]].log[x[2]].msg = m}
<1>1. /\ chat \in Store /\ past \in History /\ LogsFit(chat, past) /\ QueueFits(chat.queue, past)
      /\ Accounted(chat, past)
  BY InvParts
<1>2. /\ chat.queue \in Seq(Queued) /\ Len(chat.queue) \in Nat /\ past.msgs \in Nat
      /\ past.msgs <= MaxMsgs /\ \A i \in 1..Len(chat.queue) : chat.queue[i].msg \in Msgs
  BY <1>1, StoreTypes, HistoryTypes
<1>3. m \in Msgs /\ m # 0 /\ m \in Nat /\ m <= past.msgs
  BY <1>2, Numbers DEF Msgs
<1>4. DOMAIN chat.queue = 1..Len(chat.queue)
  BY <1>2, LenProperties
<1>5. \A i, j \in waits : i = j
  <2> SUFFICES ASSUME NEW i \in waits, NEW j \in waits, i # j PROVE FALSE
    OBVIOUS
  <2>1. i \in 1..Len(chat.queue) /\ j \in 1..Len(chat.queue) /\ chat.queue[i].msg = m /\ chat.queue[j].msg = m
    BY <1>4
  <2>2. i < j \/ j < i
    BY <2>1, <1>2
  <2>3. m < m
    BY <2>1, <2>2, <1>1 DEF QueueFits
  <2> QED BY <2>3, <1>3
<1>6. waits # {} => past.went[m] = None
  BY <1>1, <1>4 DEF QueueFits
<1>7. ASSUME NEW x \in places
      PROVE  /\ x[1] \in Convs /\ past.went[m] = x[1] /\ x[2] \in 1..Len(chat.conv[x[1]].log)
             /\ chat.conv[x[1]].log[x[2]].msg = m /\ Belongs(x[1], chat.conv[x[1]].log, past, chat.ids)
             /\ x = <<x[1], x[2]>>
  <2>1. /\ x[1] \in Convs /\ x[2] \in 1..(MaxMsgs + 1) /\ Present(chat, x[1])
        /\ x[2] <= Len(chat.conv[x[1]].log) /\ chat.conv[x[1]].log[x[2]].msg = m
        /\ x = <<x[1], x[2]>>
    BY <1>7
  <2>2. Belongs(x[1], chat.conv[x[1]].log, past, chat.ids) /\ chat.conv[x[1]].log \in Seq(Exchange)
    BY <2>1, <1>1 DEF LogsFit, ShownFits, Fits, Present, Store, Shown, Conversation
  <2>3. x[2] \in 1..Len(chat.conv[x[1]].log)
    BY <2>1, <2>2, LenProperties
  <2>4. past.went[m] = x[1]
    BY <2>1, <2>2, <2>3, <1>3 DEF Belongs
  <2> QED BY <2>1, <2>2, <2>3, <2>4
<1>8. \A x, y \in places : x = y
  <2> SUFFICES ASSUME NEW x \in places, NEW y \in places PROVE x = y
    OBVIOUS
  <2> HIDE DEF places
  <2>1. x[1] = y[1]
    BY <1>7
  <2>2. x[2] = y[2]
    BY <1>7, <2>1 DEF Belongs
  <2> QED BY <1>7, <2>1, <2>2
<1>9. waits = {} \/ places = {}
  <2>1. ASSUME NEW x \in places PROVE past.went[m] # None
    BY <1>7, Numbers
  <2> QED BY <2>1, <1>6
<1>10. waits = {} /\ past.went[m] = None => m \in past.dropped
  <2>1. waits = {} => m \notin QueuedMsgs(chat)
    BY <1>4 DEF QueuedMsgs
  <2> QED BY <2>1, <1>1, <1>3 DEF Accounted
<1> HIDE DEF waits, places
<1>11. Cardinality(waits) \in {0, 1} /\ Cardinality(places) \in {0, 1}
       /\ (waits = {} => Cardinality(waits) = 0) /\ (places = {} => Cardinality(places) = 0)
  BY <1>5, <1>8, OneAtMost
<1>12. Cardinality(waits) + Cardinality(places) <= 1
  BY <1>9, <1>11
<1> QED BY <1>10, <1>12 DEF waits, places

(* queueAgentMessage, drainAgentQueue and streamTurn: whether or not the   *)
(* backend keeps conversations, every message typed is waiting, was sent   *)
(* once or was dropped by the user.                                        *)
THEOREM EachMessageOnceHolds == Spec => []EachMessageOnce
<1>1. ChatInv => EachMessageOnce
  BY MessageOnce
<1> QED BY <1>1, ChatInvHolds, PTL

(* drainAgentQueue, "in-order only": without persistence the queue neither *)
(* loses, doubles nor reorders what the user types.  With it the order may *)
(* be lost: rows whose positions tie come back in any order.               *)
THEOREM QueueFaithfulHolds ==
  ASSUME ~Persist PROVE Spec => []QueueFaithful
<1>1. ChatInv => QueueFaithful
  <2> SUFFICES ASSUME ChatInv PROVE QueueFaithful
    OBVIOUS
  <2>1. EachMessageOnce
    BY MessageOnce
  <2>2. LogsFit(chat, past)
    BY InvParts
  <2>3. TypedOrder
    BY <2>2 DEF TypedOrder, LogsFit, ShownFits, Fits, Belongs, Present
  <2> QED BY <2>1, <2>3 DEF QueueFaithful
<1> QED BY <1>1, ChatInvHolds, PTL

=============================================================================
