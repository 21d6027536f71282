------------------------ MODULE HeadlessSessionsProofs ------------------------
(* Proofs about HeadlessSessions, for any set of task ids and any limits. *)
EXTENDS HeadlessSessions, FiniteSetTheorems, TLAPS

Early == {"new", "scheduled", "opening"}

(* Between a submit and its turn the message is in exactly one place; only *)
(* stop() adds another, and after it nothing is sent.                      *)
OneMessageUnderway(r) ==
    ~r.stopped =>
        /\ r.status \in {"pending", "completed"}
        /\ r.pc \in Early \cup {"check", "turn"}
              => r.status = "pending" /\ r.queue = <<>> /\ r.puts = <<>>
        /\ r.status = "completed" => r.queue = <<>> /\ r.puts = <<>>
        /\ r.pc = "idle" /\ r.status = "pending" =>
              /\ r.revision \notin r.sent
              /\ \/ r.queue = <<>> /\ r.puts = <<r.revision>>
                 \/ r.queue = <<r.revision>> /\ r.puts = <<>>
        /\ r.pc = "check" => r.asking = r.revision /\ r.asking \notin r.sent

(* The turn under way is for the last accepted message, so that its answer *)
(* is the one the row may show.                                            *)
AnswerIsCurrent(r) ==
    /\ r.status = "completed" => r.answered = r.revision
    /\ r.pc \in Early \cup {"turn"} => r.status # "completed"
    /\ r.pc = "turn" => r.asking = r.revision
    /\ r.pc \in Early => r.asking = 0 /\ r.revision = 0 /\ r.sent = {}
    /\ r.sent \subseteq 0..r.revision

(* Who keeps the upstream conversation alive. *)
UpstreamKept(r) ==
    /\ r.pc \in {"check", "turn", "idle"} => r.conversation
    /\ r.pc = "closing" /\ r.sent # {} => r.conversation
    /\ r.worker /\ r.sent # {} => r.conversation
    /\ r.conversation => r.pc \notin {"new", "ended"} \/ r.worker \/ r.retire

RowInv(r) == r \in Row /\ OneMessageUnderway(r) /\ AnswerIsCurrent(r) /\ UpstreamKept(r)

Rows == row \in [Ids -> Row] /\ \A i \in Ids : RowInv(row[i])

-----------------------------------------------------------------------------
(* Rows change one at a time. *)
LEMMA RowUpdated ==
  ASSUME Rows, NEW i \in Ids, NEW n, RowInv(n), Update(i, n)
  PROVE  Rows'
  BY DEF Rows, RowInv, Update

(* A session no message was submitted to. *)
LEMMA FreshRow == RowInv(Fresh)
<1>1. Fresh \in Row
  BY HeadlessAssumption DEF Fresh, Row, Message
<1> QED
  BY <1>1 DEF RowInv, OneMessageUnderway, AnswerIsCurrent, UpstreamKept, Fresh, Early

(* The first message is in hand when _run is scheduled. *)
LEMMA SubmitNewRow ==
  ASSUME NEW r, RowInv(r), r.pc = "new"
  PROVE  RowInv([r EXCEPT !.pc = "scheduled"])
<1> DEFINE n == [r EXCEPT !.pc = "scheduled"]
<1>1. n \in Row
  BY DEF RowInv, Row
<1>2. OneMessageUnderway(n)
  BY DEF RowInv, OneMessageUnderway, AnswerIsCurrent, Early, Row
<1>3. AnswerIsCurrent(n)
  BY DEF RowInv, OneMessageUnderway, AnswerIsCurrent, Early, Row
<1>4. UpstreamKept(n)
  BY DEF RowInv, UpstreamKept, AnswerIsCurrent, Early, Row
<1> QED
  BY <1>1, <1>2, <1>3, <1>4 DEF RowInv

(* A follow-up is accepted when nothing else is on its way to the runner. *)
LEMMA SubmitNextRow ==
  ASSUME NEW r, RowInv(r), ~r.stopped, r.status = "completed", r.revision < MaxRevision
  PROVE  RowInv([r EXCEPT !.status = "pending", !.revision = @ + 1,
                             !.puts = Append(@, r.revision + 1)])
<1> DEFINE n == [r EXCEPT !.status = "pending", !.revision = @ + 1,
                             !.puts = Append(@, r.revision + 1)]
<1>0. /\ r.puts = <<>> /\ r.queue = <<>> /\ r.revision \in 0..MaxRevision
      /\ r.sent \subseteq 0..r.revision
  BY DEF RowInv, OneMessageUnderway, AnswerIsCurrent, Row
<1>a. r.revision + 1 \in 0..MaxRevision /\ r.revision + 1 \in Message
  BY <1>0, HeadlessAssumption DEF Message
<1>b. Append(r.puts, r.revision + 1) = <<r.revision + 1>> /\ <<r.revision + 1>> \in Seq(Message)
  BY <1>0, <1>a
<1>c. r.revision + 1 \notin r.sent
  BY <1>0
<1>1. n \in Row
  BY <1>0, <1>a, <1>b DEF RowInv, Row
<1>2. OneMessageUnderway(n)
  BY <1>0, <1>a, <1>b, <1>c DEF RowInv, OneMessageUnderway, AnswerIsCurrent, Early, Row, Message
<1>3. AnswerIsCurrent(n)
  BY HeadlessAssumption DEF RowInv, OneMessageUnderway, AnswerIsCurrent, Early, Row, Message
<1>4. UpstreamKept(n)
  BY DEF RowInv, UpstreamKept, AnswerIsCurrent, Early, Row
<1> QED
  BY <1>1, <1>2, <1>3, <1>4 DEF RowInv

(* After stop() nothing is sent, whatever the queue holds. *)
LEMMA StopRow ==
  ASSUME NEW r, RowInv(r)
  PROVE  RowInv([r EXCEPT !.stopped = TRUE, !.status = IF @ = "pending" THEN "unknown" ELSE @,
                             !.puts = IF r.pc # "scheduled" /\ r.queue = <<>>
                                      THEN Append(@, Wake) ELSE @])
<1> DEFINE n == [r EXCEPT !.stopped = TRUE, !.status = IF @ = "pending" THEN "unknown" ELSE @,
                             !.puts = IF r.pc # "scheduled" /\ r.queue = <<>>
                                      THEN Append(@, Wake) ELSE @]
<1>0. r.puts \in Seq(Message) /\ Wake \in Message
  BY DEF RowInv, Row, Message
<1>a. Append(r.puts, Wake) \in Seq(Message)
  BY <1>0
<1>b. (IF r.pc # "scheduled" /\ r.queue = <<>> THEN Append(r.puts, Wake) ELSE r.puts)
         \in Seq(Message)
  BY <1>0, <1>a
<1>1. n \in Row
  BY <1>b DEF RowInv, Row
<1>2. OneMessageUnderway(n)
  BY HeadlessAssumption DEF RowInv, OneMessageUnderway, AnswerIsCurrent, Early, Row, Message
<1>3. AnswerIsCurrent(n)
  BY HeadlessAssumption DEF RowInv, OneMessageUnderway, AnswerIsCurrent, Early, Row, Message
<1>4. UpstreamKept(n)
  BY DEF RowInv, UpstreamKept, AnswerIsCurrent, Early, Row
<1> QED
  BY <1>1, <1>2, <1>3, <1>4 DEF RowInv

(* A scheduled put runs, or is dropped by a full queue. *)
LEMMA RunPutRow ==
  ASSUME NEW r, RowInv(r), r.puts # <<>>
  PROVE  RowInv([r EXCEPT !.puts = Tail(@),
                             !.queue = IF @ = <<>> THEN <<Head(r.puts)>> ELSE @])
<1> DEFINE n == [r EXCEPT !.puts = Tail(@),
                             !.queue = IF @ = <<>> THEN <<Head(r.puts)>> ELSE @]
<1>0. r.puts \in Seq(Message)
  BY DEF RowInv, Row
<1>a. Tail(r.puts) \in Seq(Message) /\ Head(r.puts) \in Message
  BY <1>0
<1>b. (IF r.queue = <<>> THEN <<Head(r.puts)>> ELSE r.queue)
         \in {<<>>} \cup {<<m>> : m \in Message}
  BY <1>a DEF RowInv, Row
<1>c. r.puts = <<r.revision>> => Tail(r.puts) = <<>> /\ Head(r.puts) = r.revision
  OBVIOUS
<1>1. n \in Row
  BY <1>a, <1>b DEF RowInv, Row
<1>2. OneMessageUnderway(n)
  BY <1>c DEF RowInv, OneMessageUnderway, AnswerIsCurrent, Early, Row, Message
<1>3. AnswerIsCurrent(n)
  BY HeadlessAssumption DEF RowInv, OneMessageUnderway, AnswerIsCurrent, Early, Row, Message
<1>4. UpstreamKept(n)
  BY DEF RowInv, UpstreamKept, AnswerIsCurrent, Early, Row
<1> QED
  BY <1>1, <1>2, <1>3, <1>4 DEF RowInv

(* The runner opens its conversation. *)
LEMMA RunnerStartsRow ==
  ASSUME NEW r, RowInv(r), r.pc = "scheduled"
  PROVE  RowInv([r EXCEPT !.pc = "opening", !.worker = TRUE])
<1> DEFINE n == [r EXCEPT !.pc = "opening", !.worker = TRUE]
<1>1. n \in Row
  BY DEF RowInv, Row
<1>2. OneMessageUnderway(n)
  BY DEF RowInv, OneMessageUnderway, AnswerIsCurrent, Early, Row
<1>3. AnswerIsCurrent(n)
  BY DEF RowInv, OneMessageUnderway, AnswerIsCurrent, Early, Row
<1>4. UpstreamKept(n)
  BY DEF RowInv, UpstreamKept, AnswerIsCurrent, Early, Row
<1> QED
  BY <1>1, <1>2, <1>3, <1>4 DEF RowInv

(* The conversation is open. *)
LEMMA OpenedRow ==
  ASSUME NEW r, RowInv(r), r.pc = "opening"
  PROVE  RowInv([r EXCEPT !.pc = "check", !.worker = FALSE, !.conversation = TRUE])
<1> DEFINE n == [r EXCEPT !.pc = "check", !.worker = FALSE, !.conversation = TRUE]
<1>1. n \in Row
  BY DEF RowInv, Row
<1>2. OneMessageUnderway(n)
  BY DEF RowInv, OneMessageUnderway, AnswerIsCurrent, Early, Row
<1>3. AnswerIsCurrent(n)
  BY DEF RowInv, OneMessageUnderway, AnswerIsCurrent, Early, Row
<1>4. UpstreamKept(n)
  BY DEF RowInv, UpstreamKept, AnswerIsCurrent, Early, Row
<1> QED
  BY <1>1, <1>2, <1>3, <1>4 DEF RowInv

(* Opening fails, or its worker is abandoned. *)
LEMMA OpenFailsRow ==
  ASSUME NEW r, RowInv(r), r.pc = "opening", NEW w \in BOOLEAN, NEW e \in {"unknown", "failed"}
  PROVE  RowInv([r EXCEPT !.pc = "closing", !.worker = w, !.exit = e])
<1> DEFINE n == [r EXCEPT !.pc = "closing", !.worker = w, !.exit = e]
<1>1. n \in Row
  BY DEF RowInv, Row
<1>2. OneMessageUnderway(n)
  BY DEF RowInv, OneMessageUnderway, AnswerIsCurrent, Early, Row
<1>3. AnswerIsCurrent(n)
  BY DEF RowInv, OneMessageUnderway, AnswerIsCurrent, Early, Row
<1>4. UpstreamKept(n)
  BY DEF RowInv, UpstreamKept, AnswerIsCurrent, Early, Row
<1> QED
  BY <1>1, <1>2, <1>3, <1>4 DEF RowInv

(* The message in hand is sent. *)
LEMMA SendRow ==
  ASSUME NEW r, RowInv(r), r.pc = "check", ~r.stopped
  PROVE  RowInv([r EXCEPT !.pc = "turn", !.worker = TRUE,
                             !.sent = @ \cup {r.asking}])
<1> DEFINE n == [r EXCEPT !.pc = "turn", !.worker = TRUE,
                             !.sent = @ \cup {r.asking}]
<1>1. n \in Row
  BY HeadlessAssumption DEF RowInv, Row, Message
<1>2. OneMessageUnderway(n)
  BY HeadlessAssumption DEF RowInv, OneMessageUnderway, AnswerIsCurrent, Early, Row, Message
<1>3. AnswerIsCurrent(n)
  BY HeadlessAssumption DEF RowInv, OneMessageUnderway, AnswerIsCurrent, Early, Row, Message
<1>4. UpstreamKept(n)
  BY DEF RowInv, UpstreamKept, AnswerIsCurrent, Early, Row
<1> QED
  BY <1>1, <1>2, <1>3, <1>4 DEF RowInv

(* A stopped or idle runner leaves its loop. *)
LEMMA CloseRow ==
  ASSUME NEW r, RowInv(r), r.pc \in {"check", "idle"}
  PROVE  RowInv([r EXCEPT !.pc = "closing"])
<1> DEFINE n == [r EXCEPT !.pc = "closing"]
<1>1. n \in Row
  BY DEF RowInv, Row
<1>2. OneMessageUnderway(n)
  BY DEF RowInv, OneMessageUnderway, AnswerIsCurrent, Early, Row
<1>3. AnswerIsCurrent(n)
  BY DEF RowInv, OneMessageUnderway, AnswerIsCurrent, Early, Row
<1>4. UpstreamKept(n)
  BY DEF RowInv, UpstreamKept, AnswerIsCurrent, Early, Row
<1> QED
  BY <1>1, <1>2, <1>3, <1>4 DEF RowInv

(* The answer is published, stopped or not. *)
LEMMA TurnCompletesRow ==
  ASSUME NEW r, RowInv(r), r.pc = "turn"
  PROVE  RowInv([r EXCEPT !.pc = "idle", !.worker = FALSE, !.status = "completed",
                             !.answered = r.asking, !.old = FALSE])
<1> DEFINE n == [r EXCEPT !.pc = "idle", !.worker = FALSE, !.status = "completed",
                             !.answered = r.asking, !.old = FALSE]
<1>1. n \in Row
  BY DEF RowInv, Row
<1>2. OneMessageUnderway(n)
  BY DEF RowInv, OneMessageUnderway, AnswerIsCurrent, Early, Row
<1>3. AnswerIsCurrent(n)
  BY DEF RowInv, OneMessageUnderway, AnswerIsCurrent, Early, Row
<1>4. UpstreamKept(n)
  BY DEF RowInv, UpstreamKept, AnswerIsCurrent, Early, Row
<1> QED
  BY <1>1, <1>2, <1>3, <1>4 DEF RowInv

(* A turn fails, or is given up with its worker. *)
LEMMA TurnEndsRow ==
  ASSUME NEW r, RowInv(r), r.pc = "turn", NEW w \in BOOLEAN, NEW e \in {"unknown", "failed"}
  PROVE  RowInv([r EXCEPT !.pc = "closing", !.worker = w, !.exit = e])
<1> DEFINE n == [r EXCEPT !.pc = "closing", !.worker = w, !.exit = e]
<1>1. n \in Row
  BY DEF RowInv, Row
<1>2. OneMessageUnderway(n)
  BY DEF RowInv, OneMessageUnderway, AnswerIsCurrent, Early, Row
<1>3. AnswerIsCurrent(n)
  BY DEF RowInv, OneMessageUnderway, AnswerIsCurrent, Early, Row
<1>4. UpstreamKept(n)
  BY DEF RowInv, UpstreamKept, AnswerIsCurrent, Early, Row
<1> QED
  BY <1>1, <1>2, <1>3, <1>4 DEF RowInv

(* The next message, or the wake-up of a stopped runner, is taken. *)
LEMMA NextMessageRow ==
  ASSUME NEW r, RowInv(r), r.pc = "idle", r.queue # <<>>
  PROVE  RowInv([r EXCEPT !.pc = "check", !.asking = Head(r.queue), !.queue = <<>>])
<1> DEFINE n == [r EXCEPT !.pc = "check", !.asking = Head(r.queue), !.queue = <<>>]
<1>0. Head(r.queue) \in Message
  BY DEF RowInv, Row
<1>1. n \in Row
  BY <1>0 DEF RowInv, Row
<1>2. OneMessageUnderway(n)
  BY HeadlessAssumption DEF RowInv, OneMessageUnderway, AnswerIsCurrent, Early, Row, Message
<1>3. AnswerIsCurrent(n)
  BY HeadlessAssumption DEF RowInv, OneMessageUnderway, AnswerIsCurrent, Early, Row, Message
<1>4. UpstreamKept(n)
  BY DEF RowInv, UpstreamKept, AnswerIsCurrent, Early, Row
<1> QED
  BY <1>1, <1>2, <1>3, <1>4 DEF RowInv

(* The runner is done; an abandoned worker keeps the conversation. *)
LEMMA FinishRow ==
  ASSUME NEW r, RowInv(r), r.pc = "closing"
  PROVE  RowInv([r EXCEPT !.pc = "ended", !.stopped = TRUE,
                             !.status = IF r.exit = "none" THEN @ ELSE r.exit,
                             !.conversation = @ /\ r.worker])
<1> DEFINE n == [r EXCEPT !.pc = "ended", !.stopped = TRUE,
                             !.status = IF r.exit = "none" THEN @ ELSE r.exit,
                             !.conversation = @ /\ r.worker]
<1>0. (r.conversation /\ r.worker) \in BOOLEAN
  OBVIOUS
<1>a. (IF r.exit = "none" THEN r.status ELSE r.exit)
         \in {"pending", "completed", "unknown", "failed"}
  BY DEF RowInv, Row
<1>1. n \in Row
  BY <1>0, <1>a DEF RowInv, Row
<1>2. OneMessageUnderway(n)
  BY HeadlessAssumption DEF RowInv, OneMessageUnderway, AnswerIsCurrent, Early, Row, Message
<1>3. AnswerIsCurrent(n)
  BY HeadlessAssumption DEF RowInv, OneMessageUnderway, AnswerIsCurrent, Early, Row, Message
<1>4. UpstreamKept(n)
  BY DEF RowInv, UpstreamKept, AnswerIsCurrent, Early, Row
<1> QED
  BY <1>1, <1>2, <1>3, <1>4 DEF RowInv

(* A worker comes back and schedules the retirement. *)
LEMMA WorkerFinishesRow ==
  ASSUME NEW r, RowInv(r), r.worker, r.pc \in {"closing", "ended"}
  PROVE  RowInv([r EXCEPT !.worker = FALSE, !.retire = TRUE])
<1> DEFINE n == [r EXCEPT !.worker = FALSE, !.retire = TRUE]
<1>1. n \in Row
  BY HeadlessAssumption DEF RowInv, Row, Message
<1>2. OneMessageUnderway(n)
  BY HeadlessAssumption DEF RowInv, OneMessageUnderway, AnswerIsCurrent, Early, Row, Message
<1>3. AnswerIsCurrent(n)
  BY HeadlessAssumption DEF RowInv, OneMessageUnderway, AnswerIsCurrent, Early, Row, Message
<1>4. UpstreamKept(n)
  BY DEF RowInv, UpstreamKept, AnswerIsCurrent, Early, Row
<1> QED
  BY <1>1, <1>2, <1>3, <1>4 DEF RowInv

(* The conversation is forgotten only if nobody uses it. *)
LEMMA RetireRow ==
  ASSUME NEW r, RowInv(r), NEW b \in BOOLEAN, b = (r.pc \notin {"new", "ended"} \/ r.worker)
  PROVE  RowInv([r EXCEPT !.retire = FALSE, !.conversation = @ /\ b])
<1> DEFINE n == [r EXCEPT !.retire = FALSE, !.conversation = @ /\ b]
<1>0. (r.conversation /\ b) \in BOOLEAN
  OBVIOUS
<1>1. n \in Row
  BY <1>0 DEF RowInv, Row
<1>2. OneMessageUnderway(n)
  BY HeadlessAssumption DEF RowInv, OneMessageUnderway, AnswerIsCurrent, Early, Row, Message
<1>3. AnswerIsCurrent(n)
  BY HeadlessAssumption DEF RowInv, OneMessageUnderway, AnswerIsCurrent, Early, Row, Message
<1>4. UpstreamKept(n)
  BY DEF RowInv, UpstreamKept, AnswerIsCurrent, Early, Row
<1> QED
  BY <1>1, <1>2, <1>3, <1>4 DEF RowInv

(* Time alone changes nothing else. *)
LEMMA HourRow ==
  ASSUME NEW r, RowInv(r)
  PROVE  RowInv([r EXCEPT !.old = TRUE])
<1> DEFINE n == [r EXCEPT !.old = TRUE]
<1>1. n \in Row
  BY HeadlessAssumption DEF RowInv, Row, Message
<1>2. OneMessageUnderway(n)
  BY HeadlessAssumption DEF RowInv, OneMessageUnderway, AnswerIsCurrent, Early, Row, Message
<1>3. AnswerIsCurrent(n)
  BY HeadlessAssumption DEF RowInv, OneMessageUnderway, AnswerIsCurrent, Early, Row, Message
<1>4. UpstreamKept(n)
  BY DEF RowInv, UpstreamKept, AnswerIsCurrent, Early, Row
<1> QED
  BY <1>1, <1>2, <1>3, <1>4 DEF RowInv

-----------------------------------------------------------------------------
(* Before the first submit. *)
LEMMA RowsInit == Init => Rows
  BY FreshRow DEF Init, Rows, RowInv

(* Every step keeps every row's account. *)
LEMMA RowsStep == Rows /\ [Next]_vars => Rows'
<1> SUFFICES ASSUME Rows, [Next]_vars PROVE Rows'
  OBVIOUS
<1>0. \A i \in Ids : RowInv(row[i]) /\ row[i] \in Row
  BY DEF Rows, RowInv
<1>1. CASE UNCHANGED vars
  BY <1>1 DEF vars, Rows
<1>2. CASE SubmitRefused
  BY <1>2 DEF SubmitRefused, Rows
<1>3. ASSUME NEW i \in Ids, SubmitNew(i) PROVE Rows'
  BY <1>0, <1>3, SubmitNewRow, RowUpdated DEF SubmitNew
<1>4. ASSUME NEW i \in Ids, Stop(i) PROVE Rows'
  BY <1>0, <1>4, StopRow, RowUpdated DEF Stop
<1>5. ASSUME NEW i \in Ids, NEW revision \in 0..MaxRevision, SubmitNext(i, revision) PROVE Rows'
  BY <1>0, <1>5, SubmitNextRow, RowUpdated DEF SubmitNext, Accepted
<1>6. ASSUME NEW i \in Ids, RunPut(i) PROVE Rows'
  BY <1>0, <1>6, RunPutRow, RowUpdated DEF RunPut
<1>7. ASSUME NEW i \in Ids, RunnerStarts(i) PROVE Rows'
  BY <1>0, <1>7, RunnerStartsRow, RowUpdated DEF RunnerStarts
<1>8. ASSUME NEW i \in Ids, Opened(i) PROVE Rows'
  BY <1>0, <1>8, OpenedRow, RowUpdated DEF Opened
<1>9. ASSUME NEW i \in Ids, OpenFails(i) PROVE Rows'
  <2>1. PICK w \in BOOLEAN :
          Update(i, [row[i] EXCEPT !.pc = "closing", !.worker = w,
                                   !.exit = IF w THEN "unknown" ELSE "failed"])
    BY <1>9 DEF OpenFails
  <2>2. (IF w THEN "unknown" ELSE "failed") \in {"unknown", "failed"}
    OBVIOUS
  <2> QED
    BY <1>0, <1>9, <2>1, <2>2, OpenFailsRow, RowUpdated DEF OpenFails
<1>10. ASSUME NEW i \in Ids, Send(i) PROVE Rows'
  <2>1. CASE row[i].stopped
    BY <1>0, <1>10, <2>1, CloseRow, RowUpdated DEF Send
  <2>2. CASE ~row[i].stopped
    BY <1>0, <1>10, <2>2, SendRow, RowUpdated DEF Send
  <2> QED
    BY <2>1, <2>2
<1>11. ASSUME NEW i \in Ids, TurnCompletes(i) PROVE Rows'
  BY <1>0, <1>11, TurnCompletesRow, RowUpdated DEF TurnCompletes
<1>12. ASSUME NEW i \in Ids, TurnEnds(i) PROVE Rows'
  <2>1. row[i].pc = "turn"
    BY <1>12 DEF TurnEnds
  <2>2. PICK w \in BOOLEAN, e \in {"unknown", "failed"} :
          Update(i, [row[i] EXCEPT !.pc = "closing", !.worker = w, !.exit = e])
    BY <1>12 DEF TurnEnds
  <2> QED
    BY <1>0, <2>1, <2>2, TurnEndsRow, RowUpdated
<1>13. ASSUME NEW i \in Ids, NextMessage(i) PROVE Rows'
  BY <1>0, <1>13, NextMessageRow, RowUpdated DEF NextMessage
<1>14. ASSUME NEW i \in Ids, Finish(i) PROVE Rows'
  BY <1>0, <1>14, FinishRow, RowUpdated DEF Finish
<1>15. ASSUME NEW i \in Ids, WorkerFinishes(i) PROVE Rows'
  BY <1>0, <1>15, WorkerFinishesRow, RowUpdated DEF WorkerFinishes
<1>16. ASSUME NEW i \in Ids, RetireUpstream(i) PROVE Rows'
  <2>1. Busy(i) \in BOOLEAN /\ Busy(i) = (row[i].pc \notin {"new", "ended"} \/ row[i].worker)
    BY DEF Busy, Active
  <2> QED
    BY <1>0, <1>16, <2>1, RetireRow, RowUpdated DEF RetireUpstream
<1>17. ASSUME NEW i \in Ids, IdleTimesOut(i) PROVE Rows'
  BY <1>0, <1>17, CloseRow, RowUpdated DEF IdleTimesOut
<1>18. ASSUME NEW i \in Ids, HourPasses(i) PROVE Rows'
  BY <1>0, <1>18, HourRow, RowUpdated DEF HourPasses
<1> QED
  BY <1>1, <1>2, <1>3, <1>4, <1>5, <1>6, <1>7, <1>8, <1>9, <1>10, <1>11, <1>12, <1>13,
     <1>14, <1>15, <1>16, <1>17, <1>18
  DEF Next, Request, Runner, Worker

(* The rows' account holds in every reachable state. *)
LEMMA RowsAlways == Spec => []Rows
  BY RowsInit, RowsStep, PTL DEF Spec

(* A completed row shows the answer to the last accepted message, for any  *)
(* number of tasks, follow-ups and stops (TurnCompletes, SubmitNext).      *)
THEOREM AnswersAreCurrent == Spec => []AnswersLastMessage
<1>1. Rows => AnswersLastMessage
  BY DEF Rows, RowInv, AnswerIsCurrent, AnswersLastMessage
<1> QED
  BY <1>1, RowsAlways, PTL

(* An upstream conversation lives exactly as long as somebody may use it.  *)
THEOREM ConversationsAreRetired == Spec => []ConversationLifetime
<1>1. Rows => ConversationLifetime
  BY DEF Rows, RowInv, UpstreamKept, ConversationLifetime, Busy, Active
<1> QED
  BY <1>1, RowsAlways, PTL

(* No message is sent to Cobuild twice, and no wake-up is sent at all.     *)
THEOREM NoMessageIsResent == Spec => NeverResubmitted
<1>1. ASSUME Rows, [Next]_vars, NEW i \in Ids, row[i].pc = "check", row'[i].pc = "turn"
      PROVE  row[i].asking \in (0..row[i].revision) \ row[i].sent
  <2>0. row \in [Ids -> Row]
    BY <1>1 DEF Rows
  <2>1. ~row[i].stopped
    <3>1. CASE UNCHANGED row
      BY <1>1, <3>1
    <3>2. ASSUME NEW j \in Ids, NEW revision, SubmitNext(j, revision) PROVE ~row[i].stopped
      BY <1>1, <2>0, <3>2 DEF SubmitNext, Update, Row
    <3>3. ASSUME NEW j \in Ids, SubmitNew(j) PROVE ~row[i].stopped
      BY <1>1, <2>0, <3>3 DEF SubmitNew, Update, Row
    <3>4. ASSUME NEW j \in Ids, Stop(j) PROVE ~row[i].stopped
      BY <1>1, <2>0, <3>4 DEF Stop, Update, Row
    <3>5. ASSUME NEW j \in Ids, RunPut(j) PROVE ~row[i].stopped
      BY <1>1, <2>0, <3>5 DEF RunPut, Update, Row
    <3>6. ASSUME NEW j \in Ids, RunnerStarts(j) PROVE ~row[i].stopped
      BY <1>1, <2>0, <3>6 DEF RunnerStarts, Update, Row
    <3>7. ASSUME NEW j \in Ids, Opened(j) PROVE ~row[i].stopped
      BY <1>1, <2>0, <3>7 DEF Opened, Update, Row
    <3>8. ASSUME NEW j \in Ids, OpenFails(j) PROVE ~row[i].stopped
      BY <1>1, <2>0, <3>8 DEF OpenFails, Update, Row
    <3>9. ASSUME NEW j \in Ids, Send(j) PROVE ~row[i].stopped
      BY <1>1, <2>0, <3>9 DEF Send, Update, Row
    <3>10. ASSUME NEW j \in Ids, TurnCompletes(j) PROVE ~row[i].stopped
      BY <1>1, <2>0, <3>10 DEF TurnCompletes, Update, Row
    <3>11. ASSUME NEW j \in Ids, TurnEnds(j) PROVE ~row[i].stopped
      BY <1>1, <2>0, <3>11 DEF TurnEnds, Update, Row
    <3>12. ASSUME NEW j \in Ids, NextMessage(j) PROVE ~row[i].stopped
      BY <1>1, <2>0, <3>12 DEF NextMessage, Update, Row
    <3>13. ASSUME NEW j \in Ids, Finish(j) PROVE ~row[i].stopped
      BY <1>1, <2>0, <3>13 DEF Finish, Update, Row
    <3>14. ASSUME NEW j \in Ids, WorkerFinishes(j) PROVE ~row[i].stopped
      BY <1>1, <2>0, <3>14 DEF WorkerFinishes, Update, Row
    <3>15. ASSUME NEW j \in Ids, RetireUpstream(j) PROVE ~row[i].stopped
      BY <1>1, <2>0, <3>15 DEF RetireUpstream, Update, Row
    <3>16. ASSUME NEW j \in Ids, IdleTimesOut(j) PROVE ~row[i].stopped
      BY <1>1, <2>0, <3>16 DEF IdleTimesOut, Update, Row
    <3>17. ASSUME NEW j \in Ids, HourPasses(j) PROVE ~row[i].stopped
      BY <1>1, <2>0, <3>17 DEF HourPasses, Update, Row
    <3> QED
      BY <1>1, <3>1, <3>2, <3>3, <3>4, <3>5, <3>6, <3>7, <3>8, <3>9,
         <3>10, <3>11, <3>12, <3>13, <3>14, <3>15, <3>16, <3>17
      DEF Next, vars, Request, SubmitRefused, Runner, Worker
  <2> QED
    BY <1>1, <2>1, HeadlessAssumption DEF Rows, RowInv, Row, OneMessageUnderway
<1>2. Rows /\ [Next]_vars =>
        [\A i \in Ids : row[i].pc = "check" /\ row'[i].pc = "turn"
            => row[i].asking \in (0..row[i].revision) \ row[i].sent]_vars
  BY <1>1
<1> QED
  BY <1>2, RowsAlways, PTL DEF Spec, NeverResubmitted

-----------------------------------------------------------------------------
(* The table. *)

Occupied == {i \in Ids : Busy(i)}

(* The busy sessions are listed, few enough, and the table is small. *)
TableInv ==
    /\ table \subseteq Ids /\ IsFiniteSet(table)
    /\ Occupied \subseteq table
    /\ Cardinality(Occupied) <= MaxSessions
    /\ Cardinality(table) <= TableCap

(* One more element makes a finite set larger by at most one. *)
LEMMA AddOne ==
  ASSUME NEW S, IsFiniteSet(S), NEW x
  PROVE  /\ IsFiniteSet(S \cup {x})
         /\ Cardinality(S \cup {x}) \in Nat /\ Cardinality(S) \in Nat
         /\ Cardinality(S \cup {x}) <= Cardinality(S) + 1
<1>1. IsFiniteSet(S \cup {x}) /\ Cardinality(S) \in Nat
  BY FS_AddElement, FS_CardinalityType
<1>2. Cardinality(S \cup {x}) = Cardinality(S) \/ Cardinality(S \cup {x}) = Cardinality(S) + 1
  BY FS_AddElement
<1> QED
  BY <1>1, <1>2

(* What a submit drops from the table first is over. *)
LEMMA KeptFacts ==
  ASSUME TableInv
  PROVE  /\ Kept \subseteq table /\ IsFiniteSet(Kept) /\ Cardinality(Kept) <= TableCap
         /\ Occupied \subseteq Kept /\ {j \in Kept : Busy(j)} = Occupied
         /\ IsFiniteSet(Occupied)
         /\ Cardinality(Kept) \in Nat /\ Cardinality(Occupied) \in Nat
<1>1. Kept \subseteq table /\ Occupied \subseteq Kept
  BY DEF Kept, Purged, TableInv, Occupied
<1>2. {j \in Kept : Busy(j)} = Occupied
  BY <1>1 DEF Occupied, TableInv
<1>3. IsFiniteSet(Kept) /\ Cardinality(Kept) <= Cardinality(table)
  BY <1>1, FS_Subset DEF TableInv
<1>4. IsFiniteSet(Occupied)
  BY <1>1, <1>3, FS_Subset
<1>5. Cardinality(Kept) \in Nat /\ Cardinality(Occupied) \in Nat /\ Cardinality(table) \in Nat
  BY <1>3, <1>4, FS_CardinalityType DEF TableInv
<1> QED
  BY <1>1, <1>2, <1>3, <1>4, <1>5, HeadlessAssumption DEF TableInv

(* A step that makes nobody busy and drops at most what is over. *)
LEMMA NobodyEnters ==
  ASSUME TableInv, table' = table \/ table' = Kept, \A i \in Ids : Busy(i)' => Busy(i)
  PROVE  TableInv'
<1>1. Occupied' \subseteq Occupied
  BY DEF Occupied
<1>2. Occupied \subseteq table' /\ table' \subseteq table /\ IsFiniteSet(table')
  BY KeptFacts DEF TableInv
<1>3. Cardinality(table') <= TableCap
  BY KeptFacts DEF TableInv
<1>4. Cardinality(Occupied') <= Cardinality(Occupied) /\ Cardinality(Occupied') \in Nat
  BY <1>1, KeptFacts, FS_Subset, FS_CardinalityType
<1>5. Cardinality(Occupied') <= MaxSessions
  BY <1>4, KeptFacts, HeadlessAssumption DEF TableInv
<1>6. table' \subseteq Ids /\ Occupied' \subseteq table'
  BY <1>1, <1>2 DEF TableInv
<1> QED
  BY <1>2, <1>3, <1>5, <1>6 DEF TableInv

(* A new session takes a place that is free, and evicts nobody busy. *)
LEMMA OneEnters ==
  ASSUME Rows, TableInv, NEW i \in Ids, SubmitNew(i)
  PROVE  TableInv'
<1>1. PICK evicted \in Evictions : table' = (Kept \ evicted) \cup {i}
  BY DEF SubmitNew
<1>2. Occupied' \subseteq Occupied \cup {i}
  BY DEF SubmitNew, Occupied, Busy, Active, Update, Rows, Row
<1>3. Cardinality(Occupied) + 1 <= MaxSessions
  <2>1. Cardinality({j \in Kept : Busy(j)}) < MaxSessions
    BY DEF SubmitNew
  <2>2. Cardinality(Occupied) < MaxSessions /\ Cardinality(Occupied) \in Nat
    BY ONLY <2>1, KeptFacts, TableInv
  <2> QED
    BY <2>2, HeadlessAssumption
<1>4. Cardinality(Occupied') <= MaxSessions
  <2>1. IsFiniteSet(Occupied \cup {i}) /\ Cardinality(Occupied \cup {i}) <= Cardinality(Occupied) + 1
    BY KeptFacts, AddOne
  <2>2. /\ Cardinality(Occupied') <= Cardinality(Occupied \cup {i})
        /\ Cardinality(Occupied') \in Nat /\ Cardinality(Occupied \cup {i}) \in Nat
    BY <1>2, <2>1, FS_Subset, FS_CardinalityType
  <2> QED
    BY <1>3, <2>1, <2>2, KeptFacts, HeadlessAssumption
<1>5. evicted \subseteq Kept \ Occupied
  BY KeptFacts DEF Evictions, Evictable, Occupied, TableInv
<1>6. IsFiniteSet(Kept \ evicted) /\ Cardinality(Kept \ evicted) + 1 <= TableCap
  <2>1. CASE Cardinality(Kept) < TableCap
    <3>1. /\ IsFiniteSet(Kept \ evicted) /\ Cardinality(Kept \ evicted) <= Cardinality(Kept)
          /\ Cardinality(Kept \ evicted) \in Nat
      BY KeptFacts, FS_Subset, FS_CardinalityType
    <3> QED
      BY <2>1, <3>1, KeptFacts, HeadlessAssumption
  <2>2. CASE Evictable = {}
    <3>1. Kept = Occupied /\ evicted = {}
      BY <2>2, KeptFacts DEF Evictions, Evictable
    <3> QED
      BY <1>3, <3>1, KeptFacts, HeadlessAssumption
  <2>3. CASE ~(Cardinality(Kept) < TableCap \/ Evictable = {})
    <3>1. PICK e \in Kept : evicted = {e}
      BY <2>3 DEF Evictions, Evictable
    <3>2. IsFiniteSet(Kept \ {e}) /\ Cardinality(Kept \ {e}) = Cardinality(Kept) - 1
      BY KeptFacts, FS_RemoveElement
    <3> QED
      BY <3>1, <3>2, KeptFacts, HeadlessAssumption
  <2> QED
    BY <2>1, <2>2, <2>3
<1>7. /\ IsFiniteSet((Kept \ evicted) \cup {i})
      /\ Cardinality((Kept \ evicted) \cup {i}) <= Cardinality(Kept \ evicted) + 1
      /\ Cardinality((Kept \ evicted) \cup {i}) \in Nat /\ Cardinality(Kept \ evicted) \in Nat
  BY <1>6, AddOne
<1>8. Cardinality(table') <= TableCap
  BY <1>1, <1>6, <1>7, HeadlessAssumption
<1>9. Occupied' \subseteq table' /\ table' \subseteq Ids
  BY <1>1, <1>2, <1>5, KeptFacts DEF TableInv
<1> QED
  BY <1>1, <1>4, <1>7, <1>8, <1>9 DEF TableInv

(* Every step keeps the table's account. *)
LEMMA TableStep == Rows /\ TableInv /\ [Next]_vars => TableInv'
<1> SUFFICES ASSUME Rows, TableInv, [Next]_vars PROVE TableInv'
  OBVIOUS
<1>0. row \in [Ids -> Row]
  BY DEF Rows
<1>1. CASE UNCHANGED vars
  BY <1>1, NobodyEnters DEF vars, Busy, Active
<1>2. CASE SubmitRefused
  BY <1>2, NobodyEnters DEF SubmitRefused, Busy, Active
<1>3. ASSUME NEW j \in Ids, SubmitNew(j) PROVE TableInv'
  BY <1>3, OneEnters
<1>4. ASSUME NEW j \in Ids, NEW revision, SubmitNext(j, revision) PROVE TableInv'
  <2>1. \A i \in Ids : Busy(i)' => Busy(i)
    BY <1>0, <1>4 DEF SubmitNext, Update, Busy, Active, Row
  <2> QED
    BY <1>4, <2>1, NobodyEnters DEF SubmitNext
<1>5. ASSUME NEW j \in Ids, Stop(j) PROVE TableInv'
  <2>1. \A i \in Ids : Busy(i)' => Busy(i)
    BY <1>0, <1>5 DEF Stop, Update, Busy, Active, Row
  <2> QED
    BY <1>5, <2>1, NobodyEnters DEF Stop
<1>6. ASSUME NEW j \in Ids, RunPut(j) PROVE TableInv'
  <2>1. \A i \in Ids : Busy(i)' => Busy(i)
    BY <1>0, <1>6 DEF RunPut, Update, Busy, Active, Row
  <2> QED
    BY <1>6, <2>1, NobodyEnters DEF RunPut
<1>7. ASSUME NEW j \in Ids, RunnerStarts(j) PROVE TableInv'
  <2>1. \A i \in Ids : Busy(i)' => Busy(i)
    BY <1>0, <1>7 DEF RunnerStarts, Update, Busy, Active, Row
  <2> QED
    BY <1>7, <2>1, NobodyEnters DEF RunnerStarts
<1>8. ASSUME NEW j \in Ids, Opened(j) PROVE TableInv'
  <2>1. \A i \in Ids : Busy(i)' => Busy(i)
    BY <1>0, <1>8 DEF Opened, Update, Busy, Active, Row
  <2> QED
    BY <1>8, <2>1, NobodyEnters DEF Opened
<1>9. ASSUME NEW j \in Ids, OpenFails(j) PROVE TableInv'
  <2>1. \A i \in Ids : Busy(i)' => Busy(i)
    BY <1>0, <1>9 DEF OpenFails, Update, Busy, Active, Row
  <2> QED
    BY <1>9, <2>1, NobodyEnters DEF OpenFails
<1>10. ASSUME NEW j \in Ids, Send(j) PROVE TableInv'
  <2>1. \A i \in Ids : Busy(i)' => Busy(i)
    BY <1>0, <1>10 DEF Send, Update, Busy, Active, Row
  <2> QED
    BY <1>10, <2>1, NobodyEnters DEF Send
<1>11. ASSUME NEW j \in Ids, TurnCompletes(j) PROVE TableInv'
  <2>1. \A i \in Ids : Busy(i)' => Busy(i)
    BY <1>0, <1>11 DEF TurnCompletes, Update, Busy, Active, Row
  <2> QED
    BY <1>11, <2>1, NobodyEnters DEF TurnCompletes
<1>12. ASSUME NEW j \in Ids, TurnEnds(j) PROVE TableInv'
  <2>1. \A i \in Ids : Busy(i)' => Busy(i)
    BY <1>0, <1>12 DEF TurnEnds, Update, Busy, Active, Row
  <2> QED
    BY <1>12, <2>1, NobodyEnters DEF TurnEnds
<1>13. ASSUME NEW j \in Ids, NextMessage(j) PROVE TableInv'
  <2>1. \A i \in Ids : Busy(i)' => Busy(i)
    BY <1>0, <1>13 DEF NextMessage, Update, Busy, Active, Row
  <2> QED
    BY <1>13, <2>1, NobodyEnters DEF NextMessage
<1>14. ASSUME NEW j \in Ids, Finish(j) PROVE TableInv'
  <2>1. \A i \in Ids : Busy(i)' => Busy(i)
    BY <1>0, <1>14 DEF Finish, Update, Busy, Active, Row
  <2> QED
    BY <1>14, <2>1, NobodyEnters DEF Finish
<1>15. ASSUME NEW j \in Ids, WorkerFinishes(j) PROVE TableInv'
  <2>1. \A i \in Ids : Busy(i)' => Busy(i)
    BY <1>0, <1>15 DEF WorkerFinishes, Update, Busy, Active, Row
  <2> QED
    BY <1>15, <2>1, NobodyEnters DEF WorkerFinishes
<1>16. ASSUME NEW j \in Ids, RetireUpstream(j) PROVE TableInv'
  <2>1. \A i \in Ids : Busy(i)' => Busy(i)
    BY <1>0, <1>16 DEF RetireUpstream, Update, Busy, Active, Row
  <2> QED
    BY <1>16, <2>1, NobodyEnters DEF RetireUpstream
<1>17. ASSUME NEW j \in Ids, IdleTimesOut(j) PROVE TableInv'
  <2>1. \A i \in Ids : Busy(i)' => Busy(i)
    BY <1>0, <1>17 DEF IdleTimesOut, Update, Busy, Active, Row
  <2> QED
    BY <1>17, <2>1, NobodyEnters DEF IdleTimesOut
<1>18. ASSUME NEW j \in Ids, HourPasses(j) PROVE TableInv'
  <2>1. \A i \in Ids : Busy(i)' => Busy(i)
    BY <1>0, <1>18 DEF HourPasses, Update, Busy, Active, Row
  <2> QED
    BY <1>18, <2>1, NobodyEnters DEF HourPasses
<1> QED
  BY <1>1, <1>2, <1>3, <1>4, <1>5, <1>6, <1>7, <1>8, <1>9,
     <1>10, <1>11, <1>12, <1>13, <1>14, <1>15, <1>16, <1>17, <1>18
  DEF Next, Request, Runner, Worker

(* Live runners and outstanding workers never exceed MAX_SESSIONS, all of  *)
(* them stay listed whatever is purged or evicted, and the table keeps to  *)
(* its cap, for any number of tasks and any limits.                        *)
THEOREM TableIsAccountable == Spec => []TableAccounts
<1>1. Init => TableInv
  <2> SUFFICES ASSUME Init PROVE TableInv
    OBVIOUS
  <2>1. table = {} /\ Occupied = {}
    BY DEF Init, Occupied, Busy, Active, Fresh
  <2>2. IsFiniteSet({}) /\ Cardinality({}) = 0
    BY FS_EmptySet
  <2> QED
    BY <2>1, <2>2, HeadlessAssumption DEF TableInv
<1>2. Rows /\ TableInv => TableAccounts
  <2> SUFFICES ASSUME Rows, TableInv PROVE TableAccounts
    OBVIOUS
  <2>1. TypeOK
    BY DEF TypeOK, Rows, TableInv
  <2>2. CapacityHeld
    BY DEF CapacityHeld, TableInv, Occupied, Busy
  <2>3. BusyStaysListed
    BY DEF BusyStaysListed, TableInv, Occupied
  <2> QED
    BY <2>1, <2>2, <2>3 DEF TableAccounts
<1> QED
  BY <1>1, <1>2, RowsAlways, TableStep, PTL DEF Spec
=============================================================================
