------------------------ MODULE ProgressStreamProofs ------------------------
(* Proofs about ProgressStream, for any runs, loads and limits.  The       *)
(* server's stream mirrors the run that started last; a load's rows and    *)
(* events are a prefix of what the run it follows has written, and a reply *)
(* on its way continues that prefix or tells that the run was replaced.    *)
EXTENDS ProgressStream, TLAPS, FiniteSetTheorems, SequenceTheorems, WellFoundedInduction

(* What a concatenation holds. *)
LEMMA Joined ==
  ASSUME NEW S, NEW s \in Seq(S), NEW t \in Seq(S)
  PROVE  /\ s \o t \in Seq(S) /\ Len(s \o t) = Len(s) + Len(t) /\ DOMAIN s = 1..Len(s)
         /\ \A i \in 1..Len(s) : (s \o t)[i] = s[i]
         /\ \A i \in 1..Len(t) : (s \o t)[Len(s) + i] = t[i]
<1>1. s \o t \in Seq(S) /\ Len(s \o t) = Len(s) + Len(t)
  OBVIOUS
<1>2. DOMAIN s = 1..Len(s)
  OBVIOUS
<1>3. \A i \in 1..Len(s) : (s \o t)[i] = s[i]
  OBVIOUS
<1>4. \A i \in 1..Len(t) : (s \o t)[Len(s) + i] = t[i]
  OBVIOUS
<1> QED BY <1>1, <1>2, <1>3, <1>4

(* A set of numbers that is not empty has a least one. *)
LEMMA LeastNumber ==
  ASSUME NEW S, S \subseteq Nat, S # {}
  PROVE  \E m \in S : \A n \in S : m <= n
<1>1. PICK m \in S : \A n \in S : ~(<<n, m>> \in OpToRel(<, Nat))
  BY NatLessThanWellFounded, WFMin, Zenon
<1>2. \A n \in S : <<n, m>> \in Nat \X Nat
  OBVIOUS
<1>3. \A n \in S : ~(n < m)
  BY <1>1, <1>2 DEF OpToRel
<1> QED
  BY <1>3

(* The events of run r numbered c to n - 1, and its rows m + 1 to n. *)
Numbers(r, c, n) == [i \in 1..(n - c) |-> [by |-> r, idx |-> c + i - 1]]
Lines(r, m, n) == [i \in 1..(n - m) |-> [by |-> r, nr |-> m + i]]

(* A run's first k rows, and k of its events from number d on. *)
RowsOf(r, k) == [n \in 1..k |-> [by |-> r, nr |-> n]]
EventsOf(r, d, k) == [n \in 1..k |-> [by |-> r, idx |-> d + n - 1]]

(* What EventsFrom selects from consecutively numbered events. *)
LEMMA EventsFromNumbers ==
  ASSUME NEW r, NEW d \in Nat, NEW k \in Nat, NEW c \in Nat, d <= c, c <= d + k,
         NEW es, es = EventsOf(r, d, k)
  PROVE  EventsFrom(es, c) = Numbers(r, c, d + k)
<1> DEFINE Body(f, n) == IF n = 0 THEN <<>>
                         ELSE IF es[n].idx >= c THEN Append(f[n - 1], es[n])
                         ELSE f[n - 1]
           f0 == CHOOSE f : f = [n \in 0..Len(es) |-> Body(f, n)]
           g == [n \in 0..k |-> IF d + n <= c THEN <<>> ELSE Numbers(r, c, d + n)]
<1>1. EventsFrom(es, c) = f0[Len(es)]
  BY DEF EventsFrom
<1>2. Len(es) = k /\ \A n \in 1..k : es[n] = [by |-> r, idx |-> d + n - 1]
  BY DEF EventsOf
<1>3. /\ \A n \in 0..k : d + n <= c => g[n] = <<>>
      /\ \A n \in 0..k : d + n > c => g[n] = Numbers(r, c, d + n)
      /\ g[k] = Numbers(r, c, d + k)
  BY DEF Numbers
<1>4. g = [n \in 0..k |-> g[n]]
  OBVIOUS
<1> HIDE DEF g
<1>5. \A n \in 0..k : g[n] = Body(g, n)
  <2>1. TAKE n \in 0..k
  <2>2. CASE n = 0
    BY <1>3, <2>2
  <2>3. CASE n # 0 /\ d + n <= c
    BY <1>2, <1>3, <2>3
  <2>4. CASE n # 0 /\ d + n = c + 1
    <3>1. g[n - 1] = <<>> /\ g[n] = Numbers(r, c, c + 1)
      BY <1>3, <2>4
    <3>4. n \in 1..k /\ d + n - 1 = c
      BY <2>4
    <3>2. es[n] = [by |-> r, idx |-> c]
      BY <1>2, <3>4
    <3>3. Numbers(r, c, c + 1) = Append(<<>>, [by |-> r, idx |-> c])
      BY DEF Numbers
    <3> QED
      BY <2>4, <3>1, <3>2, <3>3
  <2>5. CASE n # 0 /\ d + n > c + 1
    <3>1. g[n - 1] = Numbers(r, c, d + n - 1) /\ g[n] = Numbers(r, c, d + n)
      BY <1>3, <2>5
    <3>2. es[n] = [by |-> r, idx |-> d + n - 1]
      BY <1>2, <2>5
    <3>3. Append(Numbers(r, c, d + n - 1), [by |-> r, idx |-> d + n - 1]) = Numbers(r, c, d + n)
      BY <2>5 DEF Numbers
    <3>4. n # 0 /\ es[n].idx >= c
      BY <2>5, <3>2
    <3> QED
      BY <3>1, <3>2, <3>3, <3>4
  <2> QED
    BY <2>2, <2>3, <2>4, <2>5
<1>6. g = [n \in 0..Len(es) |-> Body(g, n)]
  BY <1>2, <1>4, <1>5
<1>7. f0 = [n \in 0..Len(es) |-> Body(f0, n)]
  BY <1>6
<1>8. \A n \in 0..k : f0[n] = Body(f0, n)
  BY <1>2, <1>7
<1> HIDE DEF f0
<1>9. \A n \in 0..k : f0[n] = g[n]
  <2> DEFINE bad == {n \in 0..k : f0[n] # g[n]}
  <2>1. SUFFICES ASSUME bad # {} PROVE FALSE
    OBVIOUS
  <2>4. bad \subseteq Nat
    OBVIOUS
  <2> HIDE DEF bad
  <2>2. PICK m \in bad : \A n \in bad : m <= n
    BY <2>1, <2>4, LeastNumber
  <2>3. m = 0 \/ f0[m - 1] = g[m - 1]
    BY <2>2 DEF bad
  <2> QED
    BY <1>5, <1>8, <2>2, <2>3 DEF bad
<1> QED
  BY <1>1, <1>2, <1>3, <1>9

-----------------------------------------------------------------------------
(* The server. *)

ScanRecord == [status : Status \cup {"new"}, events : 0..MaxEvents, rows : 0..MaxRows,
               order : Nat]

(* The server's half of the type invariant. *)
ServerTypes ==
    /\ stream \in Stream \cup {None}
    /\ quiet \in BOOLEAN
    /\ scan \in [Runs -> ScanRecord]

(* The order of starts counts the runs that have started and no two share  *)
(* a place in it; a run that has not started has written nothing.          *)
StartsAreOrdered ==
    /\ IsFiniteSet(Started)
    /\ \A q \in Started : scan[q].order <= Cardinality(Started)
    /\ \A q, r \in Started : scan[q].order = scan[r].order => q = r
    /\ \A q \in Runs \ Started : scan[q].events = 0 /\ scan[q].rows = 0

StreamOfStarted == stream # None => stream.run \in Started

ServerInv == ServerTypes /\ StartsAreOrdered /\ StreamOfStarted /\ StreamIsLastRun

(* What a step of the server may do to a run that a browser follows: its   *)
(* counts grow, its place stays, and a stream that is gone stays gone.     *)
Begun(sc) == {r \in Runs : sc[r].status # "new"}

Grows(sc, st, sc2, st2) ==
    /\ \A q \in Begun(sc) :
          /\ q \in Begun(sc2) /\ sc2[q].order = sc[q].order
          /\ sc2[q].events >= sc[q].events /\ sc2[q].rows >= sc[q].rows
    /\ st2 # None /\ st2.run \in Begun(sc) =>
          /\ st # None /\ st.run = st2.run
          /\ st2.droppedUntil >= st.droppedUntil

ServerGrows == Grows(scan, stream, scan', stream')

(* A new run takes the stream over, as the last to have started. *)
LEMMA StartKeepsServer ==
  ASSUME ProgressAssumption, ServerInv, NEW r \in Runs, StartProgress(r)
  PROVE  ServerInv' /\ ServerGrows
<1> DEFINE n == Cardinality(Started)
<1>1. r \notin Started /\ Started' = Started \cup {r}
  BY DEF StartProgress, Started, ServerInv, ServerTypes, ScanRecord
<1>2. IsFiniteSet(Started') /\ Cardinality(Started') = n + 1 /\ n \in Nat
  BY <1>1, FS_AddElement, FS_CardinalityType DEF ServerInv, StartsAreOrdered
<1>3. /\ scan' \in [Runs -> ScanRecord]
      /\ \A q \in Runs : scan'[q] = IF q = r THEN [scan[r] EXCEPT !.status = "running", !.order = n + 1]
                                     ELSE scan[q]
  <2>1. scan' = [scan EXCEPT ![r] = [scan[r] EXCEPT !.status = "running", !.order = n + 1]]
    BY DEF StartProgress, ServerInv, ServerTypes, ScanRecord
  <2> HIDE DEF n
  <2>2. [scan[r] EXCEPT !.status = "running", !.order = n + 1] \in ScanRecord
    <3>1. n + 1 \in Nat /\ scan[r] \in ScanRecord
      BY <1>2 DEF ServerInv, ServerTypes
    <3> QED
      BY <3>1 DEF ScanRecord, Status
  <2> QED
    BY <2>1, <2>2 DEF ServerInv, ServerTypes
<1>4. stream' = FreshStream(r) /\ quiet' = FALSE
  BY DEF StartProgress
<1>5. FreshStream(r) \in Stream
  BY DEF FreshStream, Stream, Status
<1>6. ServerTypes'
  BY <1>3, <1>4, <1>5 DEF ServerTypes
<1>7. scan[r].events = 0 /\ scan[r].rows = 0
  BY <1>1 DEF ServerInv, StartsAreOrdered
<1>8. \A q \in Started : q # r /\ scan'[q] = scan[q] /\ scan[q].order \in Nat /\ scan[q].order <= n
  BY <1>1, <1>3 DEF ServerInv, StartsAreOrdered, Started, ServerTypes, ScanRecord
<1>9. scan'[r].order = n + 1 /\ scan'[r].events = 0 /\ scan'[r].rows = 0 /\ scan'[r].status = "running"
  BY <1>3, <1>7 DEF ServerInv, ServerTypes, ScanRecord
<1>10. StartsAreOrdered'
  <2>1. \A q \in Started' : scan'[q].order <= Cardinality(Started')
    BY <1>1, <1>2, <1>8, <1>9
  <2>2. \A q, s \in Started' : scan'[q].order = scan'[s].order => q = s
    BY <1>1, <1>2, <1>8, <1>9 DEF ServerInv, StartsAreOrdered
  <2>3. \A q \in Runs \ Started' : scan'[q].events = 0 /\ scan'[q].rows = 0
    BY <1>1, <1>3 DEF ServerInv, StartsAreOrdered
  <2> QED
    BY <1>2, <2>1, <2>2, <2>3 DEF StartsAreOrdered
<1>11. StreamOfStarted' /\ StreamIsLastRun'
  <2>1. stream'.run = r /\ r \in Started'
    BY <1>1, <1>4 DEF FreshStream
  <2>2. \A q \in Started' : scan'[q].order <= scan'[r].order
    BY <1>1, <1>2, <1>8, <1>9
  <2>3. /\ stream'.status = "running" /\ stream'.nextIndex = 0 /\ stream'.rows = <<>>
        /\ stream'.events = <<>> /\ stream'.droppedUntil = 0 /\ stream'.summary = None
    BY <1>4 DEF FreshStream
  <2> QED
    BY <1>9, <2>1, <2>2, <2>3, ProgressAssumption DEF StreamOfStarted, StreamIsLastRun, ProgressAssumption
<1>12. ServerGrows
  <2>1. stream'.run \notin Started
    BY <1>1, <1>4 DEF FreshStream
  <2>2. \A q \in Started : scan[q].events >= scan[q].events /\ scan[q].rows >= scan[q].rows
    BY DEF ServerInv, ServerTypes, ScanRecord, Started
  <2> QED
    BY <1>1, <1>8, <2>1, <2>2 DEF ServerGrows, Grows, Begun, Started
<1> QED
  BY <1>6, <1>10, <1>11, <1>12 DEF ServerInv

(* StreamIsLastRun, for a stream s and what its run has done, w. *)
Mirrors(s, w) ==
    LET kept == Len(s.events) IN
    /\ s.status = w.status
    /\ s.nextIndex = w.events
    /\ s.rows = [n \in 1..w.rows |-> [by |-> s.run, nr |-> n]]
    /\ s.events = [n \in 1..kept |-> [by |-> s.run, idx |-> s.droppedUntil + n - 1]]
    /\ s.droppedUntil + kept = s.nextIndex
    /\ kept <= EventLimit /\ (s.droppedUntil > 0 => kept = EventLimit)
    /\ s.summary \in {None, s.run}

(* StreamIsLastRun in terms of Mirrors. *)
LEMMA StreamMirrorsRun ==
  StreamIsLastRun <=>
      (stream # None =>
          /\ \A q \in Started : scan[q].order <= scan[stream.run].order
          /\ Mirrors(stream, scan[stream.run]))
BY DEF StreamIsLastRun, Mirrors

(* A run under way adds to what it has done, and to the stream if that is  *)
(* still its own.                                                          *)
RunAdds(r) ==
    /\ scan[r].status = "running"
    /\ scan' \in [Runs -> ScanRecord]
    /\ \A q \in Runs \ {r} : scan'[q] = scan[q]
    /\ scan'[r].status # "new" /\ scan'[r].order = scan[r].order
    /\ scan'[r].events >= scan[r].events /\ scan'[r].rows >= scan[r].rows
    /\ ~Own(r) => stream' = stream /\ quiet' = quiet
    /\ Own(r) => /\ stream' \in Stream /\ quiet' \in BOOLEAN
                 /\ stream'.run = r /\ stream'.droppedUntil >= stream.droppedUntil
                 /\ Mirrors(stream', scan'[r])

(* Whatever a run adds, the stream still mirrors the last one. *)
LEMMA AddingKeepsServer ==
  ASSUME ServerInv, NEW r \in Runs, RunAdds(r)
  PROVE  ServerInv' /\ ServerGrows
<1>1. r \in Started /\ Started' = Started
  BY DEF RunAdds, Started, ServerInv, ServerTypes
<1>2. ServerTypes'
  BY DEF RunAdds, ServerInv, ServerTypes
<1>3. \A q \in Runs : scan'[q].order = scan[q].order
  BY DEF RunAdds
<1>4. StartsAreOrdered'
  <2>1. \A q \in Runs \ Started' : scan'[q] = scan[q]
    BY <1>1 DEF RunAdds
  <2>2. Started \subseteq Runs
    BY DEF Started
  <2> QED
    BY <1>1, <1>3, <2>1, <2>2 DEF ServerInv, StartsAreOrdered
<1>5. \A q \in Started : scan[q].events >= scan[q].events
                        /\ scan[q].rows >= scan[q].rows
  BY DEF Started, ServerInv, ServerTypes, ScanRecord
<1>6. \A q \in Started : scan'[q].events >= scan[q].events /\ scan'[q].rows >= scan[q].rows
  BY <1>5 DEF RunAdds, Started
<1>7. CASE Own(r)
  <2>1. stream # None /\ stream.run = r /\ stream'.run = r
    BY <1>7 DEF Own, RunAdds
  <2>2. \A q \in Started : scan'[q].order <= scan'[r].order
    BY <1>3, <2>1 DEF Started, ServerInv, StreamIsLastRun
  <2>3. StreamOfStarted' /\ StreamIsLastRun'
    BY <1>1, <1>7, <2>1, <2>2, StreamMirrorsRun DEF RunAdds, StreamOfStarted, StreamIsLastRun, Mirrors
  <2> QED
    BY <1>1, <1>2, <1>3, <1>4, <1>6, <1>7, <2>1, <2>3 DEF ServerInv, ServerGrows, Grows, Begun, RunAdds, Started
<1>8. CASE ~Own(r)
  <2>1. stream' = stream /\ quiet' = quiet
    BY <1>8 DEF RunAdds
  <2>2. stream # None => stream.run \in Started /\ scan'[stream.run] = scan[stream.run]
    BY <1>8 DEF ServerInv, StreamOfStarted, Own, RunAdds, Started
  <2>3. StreamOfStarted' /\ StreamIsLastRun'
    BY <1>1, <1>3, <2>1, <2>2 DEF ServerInv, StreamOfStarted, StreamIsLastRun, Started
  <2>4. stream # None => stream.droppedUntil >= stream.droppedUntil
    BY DEF ServerInv, ServerTypes, Stream
  <2> QED
    BY <1>1, <1>2, <1>3, <1>4, <1>6, <2>1, <2>3, <2>4 DEF ServerInv, ServerGrows, Grows, Begun, Started
<1> QED
  BY <1>7, <1>8

(* What the run's own stream is, and that a write reaches it. *)
LEMMA OwnStream ==
  ASSUME ServerInv, NEW r \in Runs, Own(r)
  PROVE  /\ stream \in Stream /\ stream.run = r /\ scan[r] \in ScanRecord
         /\ Mirrors(stream, scan[r])
BY StreamMirrorsRun DEF ServerInv, ServerTypes, Own

(* An event is added, and the oldest dropped when the list is full. *)
LEMMA EventIsAdded ==
  ASSUME ProgressAssumption, ServerInv, NEW r \in Runs, AppendEvent(r)
  PROVE  RunAdds(r)
<1> DEFINE w == [scan[r] EXCEPT !.events = @ + 1]
           e == [by |-> r, idx |-> stream.nextIndex]
           s == [stream EXCEPT !.events = Append(@, [by |-> r, idx |-> stream.nextIndex]),
                               !.nextIndex = @ + 1]
<1>1. scan[r] \in ScanRecord /\ scan[r].status = "running" /\ scan[r].events < MaxEvents
  BY DEF AppendEvent, ServerInv, ServerTypes
<1>2. /\ w \in ScanRecord /\ w.events = scan[r].events + 1 /\ w.rows = scan[r].rows
      /\ w.status = scan[r].status /\ w.order = scan[r].order
  BY <1>1, ProgressAssumption DEF ScanRecord, ProgressAssumption
<1>3. scan' = [scan EXCEPT ![r] = w]
  BY DEF AppendEvent
<1> HIDE DEF w
<1>4. scan' \in [Runs -> ScanRecord] /\ scan'[r] = w /\ \A q \in Runs \ {r} : scan'[q] = scan[q]
  BY <1>2, <1>3 DEF ServerInv, ServerTypes
<1>5. ASSUME Own(r)
      PROVE  /\ stream' \in Stream /\ quiet' \in BOOLEAN
             /\ stream'.run = r /\ stream'.droppedUntil >= stream.droppedUntil
             /\ Mirrors(stream', w)
  <2> DEFINE k == Len(stream.events)
             d == stream.droppedUntil
             es == [n \in 1..(k + 1) |-> [by |-> r, idx |-> d + n - 1]]
  <2>1. /\ stream \in Stream /\ stream.run = r /\ Mirrors(stream, scan[r])
    BY <1>5, OwnStream
  <2>2. k \in Nat /\ d \in Nat /\ stream.nextIndex = d + k /\ stream.nextIndex = scan[r].events
    BY <2>1 DEF Mirrors, Stream
  <2>3. /\ stream.events = [n \in 1..k |-> [by |-> r, idx |-> d + n - 1]]
        /\ k <= EventLimit /\ (d > 0 => k = EventLimit)
        /\ stream.status = scan[r].status /\ stream.summary \in {None, r}
        /\ stream.rows = [n \in 1..scan[r].rows |-> [by |-> r, nr |-> n]]
    BY <2>1 DEF Mirrors
  <2>4. stream' = Trimmed(s) /\ quiet' = FALSE
    BY <1>5 DEF AppendEvent, Write
  <2>10. Append(stream.events, [by |-> r, idx |-> stream.nextIndex]) \in Seq(Event)
    BY <2>1 DEF Stream, Event
  <2>11. stream.nextIndex + 1 \in Nat
    BY <2>1 DEF Stream
  <2>5. /\ s.run = r /\ s.status = stream.status /\ s.nextIndex = stream.nextIndex + 1
        /\ s.droppedUntil = d /\ s.summary = stream.summary /\ s.rows = stream.rows
        /\ s.events = Append(stream.events, [by |-> r, idx |-> stream.nextIndex])
        /\ s \in Stream
    BY <2>1, <2>10, <2>11 DEF Stream
  <2> HIDE DEF s
  <2>6. s.events = es
    <3> HIDE DEF k, d
    <3> QED
      BY <2>2, <2>3, <2>5
  <2>7. Len(s.events) = k + 1 /\ s.events \in Seq(Event)
    <3>1. s.events \in Seq(Event)
      BY <2>5 DEF Stream
    <3> HIDE DEF k, d
    <3> QED
      BY <2>2, <2>6, <3>1
  <2>8. CASE k + 1 > EventLimit
    <3>1. k = EventLimit /\ k >= 1
      BY <2>2, <2>3, <2>8, ProgressAssumption DEF ProgressAssumption
    <3>2. s.events[2].idx = d + 1
      BY <2>2, <2>6, <3>1
    <3>3. stream' = [s EXCEPT !.events = Tail(s.events), !.droppedUntil = d + 1]
      BY <2>4, <2>7, <2>8, <3>2 DEF Trimmed
    <3>4. /\ stream'.run = r /\ stream'.status = stream.status /\ stream'.nextIndex = d + k + 1
          /\ stream'.droppedUntil = d + 1 /\ stream'.summary = stream.summary
          /\ stream'.rows = stream.rows /\ stream'.events = Tail(s.events)
          /\ stream' \in Stream
      <4>1. Tail(s.events) \in Seq(Event) /\ d + 1 \in Nat
        BY <2>2, <2>7
      <4> HIDE DEF d, k
      <4>2. /\ stream'.run = s.run /\ stream'.status = s.status /\ stream'.nextIndex = s.nextIndex
            /\ stream'.droppedUntil = d + 1 /\ stream'.summary = s.summary
            /\ stream'.rows = s.rows /\ stream'.events = Tail(s.events)
            /\ stream' \in Stream
        BY <2>5, <3>3, <4>1 DEF Stream
      <4> QED
        BY <2>2, <2>5, <4>2
    <3>5. Tail(s.events) = [n \in 1..k |-> [by |-> r, idx |-> (d + 1) + n - 1]] /\ Len(Tail(s.events)) = k
      <4> HIDE DEF d, k
      <4>1. Len(s.events) = k + 1 /\ \A n \in 1..(k + 1) : s.events[n] = [by |-> r, idx |-> d + n - 1]
        BY <2>2, <2>6, <2>7
      <4>2. Tail(s.events) = [n \in 1..k |-> s.events[n + 1]]
        BY <2>2, <2>7, <4>1
      <4>4. Len(Tail(s.events)) = k
        BY <2>2, <2>7
      <4>3. \A n \in 1..k : s.events[n + 1] = [by |-> r, idx |-> (d + 1) + n - 1]
        <5>1. TAKE n \in 1..k
        <5>2. n + 1 \in 1..(k + 1) /\ d + (n + 1) - 1 = (d + 1) + n - 1
          BY <2>2
        <5> QED
          BY <4>1, <5>2
      <4> QED
        BY <4>2, <4>3, <4>4
    <3> HIDE DEF d, k
    <3>6. Mirrors(stream', w)
      <4>1. /\ Len(stream'.events) = k
            /\ stream'.events = [n \in 1..k |-> [by |-> stream'.run, idx |-> stream'.droppedUntil + n - 1]]
        BY <3>4, <3>5
      <4>2. stream'.droppedUntil + k = stream'.nextIndex /\ stream'.nextIndex = w.events
        BY <1>2, <2>2, <3>4
      <4>3. stream'.rows = [n \in 1..w.rows |-> [by |-> stream'.run, nr |-> n]]
        BY <1>2, <2>3, <3>4
      <4>4. stream'.status = w.status /\ stream'.summary \in {None, stream'.run}
        BY <1>2, <2>3, <3>4
      <4>5. k <= EventLimit /\ k = EventLimit
        BY <2>3, <3>1
      <4> QED
        BY <4>1, <4>2, <4>3, <4>4, <4>5 DEF Mirrors
    <3>7. quiet' \in BOOLEAN
      BY <2>4
    <3>8. stream'.droppedUntil >= d
      BY <2>2, <3>4
    <3> QED
      BY <3>4, <3>6, <3>7, <3>8 DEF d
  <2>9. CASE ~(k + 1 > EventLimit)
    <3>1. stream' = s
      BY <2>4, <2>7, <2>9 DEF Trimmed
    <3>2. d = 0 /\ d >= d
      BY <2>2, <2>3, <2>9, ProgressAssumption DEF ProgressAssumption
    <3> HIDE DEF d, k
    <3>3. Mirrors(s, w)
      BY <1>2, <2>2, <2>3, <2>5, <2>6, <2>7, <2>9, <3>2 DEF Mirrors
    <3>4. quiet' \in BOOLEAN /\ s.droppedUntil >= d
      BY <2>4, <2>5, <3>2
    <3> QED
      BY <2>5, <3>1, <3>3, <3>4 DEF d
  <2> QED
    BY <2>8, <2>9
<1>6. ~Own(r) => stream' = stream /\ quiet' = quiet
  BY DEF AppendEvent, Write
<1>7. w.events >= scan[r].events /\ w.rows >= scan[r].rows
  BY <1>1, <1>2 DEF ScanRecord
<1> QED
  BY <1>1, <1>2, <1>4, <1>5, <1>6, <1>7 DEF RunAdds

(* A row is added. *)
LEMMA RowIsAdded ==
  ASSUME ProgressAssumption, ServerInv, NEW r \in Runs, AppendPartialRow(r)
  PROVE  RunAdds(r)
<1> DEFINE w == [scan[r] EXCEPT !.rows = @ + 1]
<1>1. scan[r] \in ScanRecord /\ scan[r].status = "running" /\ scan[r].rows < MaxRows
  BY DEF AppendPartialRow, ServerInv, ServerTypes
<1>2. /\ w \in ScanRecord /\ w.rows = scan[r].rows + 1 /\ w.events = scan[r].events
      /\ w.status = scan[r].status /\ w.order = scan[r].order
  BY <1>1, ProgressAssumption DEF ScanRecord, ProgressAssumption
<1>3. scan' = [scan EXCEPT ![r] = w]
  BY DEF AppendPartialRow
<1> HIDE DEF w
<1>4. scan' \in [Runs -> ScanRecord] /\ scan'[r] = w /\ \A q \in Runs \ {r} : scan'[q] = scan[q]
  BY <1>2, <1>3 DEF ServerInv, ServerTypes
<1>5. ASSUME Own(r)
      PROVE  /\ stream' \in Stream /\ quiet' \in BOOLEAN
             /\ stream'.run = r /\ stream'.droppedUntil >= stream.droppedUntil
             /\ Mirrors(stream', w)
  <2> DEFINE m == scan[r].rows
  <2>1. /\ stream \in Stream /\ stream.run = r /\ Mirrors(stream, scan[r])
    BY <1>5, OwnStream
  <2>2. stream' = [stream EXCEPT !.rows = Append(@, [by |-> r, nr |-> m + 1])] /\ quiet' = FALSE
    BY <1>5 DEF AppendPartialRow, Write
  <2>3. m \in Nat /\ stream.droppedUntil \in Nat
    BY <1>1, <2>1 DEF ScanRecord, Stream
  <2>4. stream.rows = [n \in 1..m |-> [by |-> r, nr |-> n]] /\ stream.rows \in Seq(Line)
    BY <2>1 DEF Mirrors, Stream
  <2> HIDE DEF m
  <2>5. Append(stream.rows, [by |-> r, nr |-> m + 1]) = [n \in 1..(m + 1) |-> [by |-> r, nr |-> n]]
    BY <2>3, <2>4
  <2>6. Append(stream.rows, [by |-> r, nr |-> m + 1]) \in Seq(Line)
    BY <2>3, <2>4 DEF Line
  <2>7. /\ stream' \in Stream /\ stream'.run = r /\ stream'.droppedUntil = stream.droppedUntil
        /\ stream'.status = stream.status /\ stream'.nextIndex = stream.nextIndex
        /\ stream'.events = stream.events /\ stream'.summary = stream.summary
        /\ stream'.rows = [n \in 1..(m + 1) |-> [by |-> r, nr |-> n]]
    BY <2>1, <2>2, <2>5, <2>6 DEF Stream
  <2>8. Mirrors(stream', w)
    BY <1>2, <2>1, <2>7 DEF Mirrors, m
  <2>9. quiet' \in BOOLEAN
    BY <2>2
  <2>10. stream'.droppedUntil >= stream.droppedUntil
    BY <2>3, <2>7
  <2> QED
    BY <2>7, <2>8, <2>9, <2>10
<1>6. ~Own(r) => stream' = stream /\ quiet' = quiet
  BY DEF AppendPartialRow, Write
<1>7. w.events >= scan[r].events /\ w.rows >= scan[r].rows
  BY <1>1, <1>2 DEF ScanRecord
<1> QED
  BY <1>1, <1>2, <1>4, <1>5, <1>6, <1>7 DEF RunAdds

(* The summary is set. *)
LEMMA SummaryIsAdded ==
  ASSUME ServerInv, NEW r \in Runs, SetSummary(r)
  PROVE  RunAdds(r)
<1>1. scan[r] \in ScanRecord /\ scan[r].status = "running" /\ scan' = scan
  BY DEF SetSummary, ServerInv, ServerTypes
<1>2. ASSUME Own(r)
      PROVE  /\ stream' \in Stream /\ quiet' \in BOOLEAN
             /\ stream'.run = r /\ stream'.droppedUntil >= stream.droppedUntil
             /\ Mirrors(stream', scan[r])
  <2>1. /\ stream \in Stream /\ stream.run = r /\ Mirrors(stream, scan[r])
    BY <1>2, OwnStream
  <2>2. stream' = [stream EXCEPT !.summary = r] /\ quiet' = FALSE
    BY <1>2 DEF SetSummary, Write
  <2>3. /\ stream' \in Stream /\ stream'.run = r /\ stream'.droppedUntil = stream.droppedUntil
        /\ stream'.status = stream.status /\ stream'.nextIndex = stream.nextIndex
        /\ stream'.events = stream.events /\ stream'.summary = r /\ stream'.rows = stream.rows
    BY <2>1, <2>2 DEF Stream
  <2>4. stream.droppedUntil \in Nat
    BY <2>1 DEF Stream
  <2>5. Mirrors(stream', scan[r])
    BY <2>1, <2>3 DEF Mirrors
  <2>6. quiet' \in BOOLEAN
    BY <2>2
  <2>7. stream'.droppedUntil >= stream.droppedUntil
    BY <2>3, <2>4
  <2> QED
    BY <2>3, <2>5, <2>6, <2>7
<1>3. ~Own(r) => stream' = stream /\ quiet' = quiet
  BY DEF SetSummary, Write
<1>4. scan[r].events >= scan[r].events /\ scan[r].rows >= scan[r].rows
  BY <1>1 DEF ScanRecord
<1> QED
  BY <1>1, <1>2, <1>3, <1>4 DEF RunAdds, ServerInv, ServerTypes

(* The run finishes. *)
LEMMA OutcomeIsAdded ==
  ASSUME ServerInv, NEW r \in Runs, NEW status \in {"done", "error"}, FinishProgress(r, status)
  PROVE  RunAdds(r)
<1> DEFINE w == [scan[r] EXCEPT !.status = status]
<1>1. scan[r] \in ScanRecord /\ scan[r].status = "running"
  BY DEF FinishProgress, ServerInv, ServerTypes
<1>2. /\ w \in ScanRecord /\ w.rows = scan[r].rows /\ w.events = scan[r].events
      /\ w.status = status /\ w.order = scan[r].order
  BY <1>1 DEF ScanRecord, Status
<1>3. scan' = [scan EXCEPT ![r] = w]
  BY DEF FinishProgress
<1> HIDE DEF w
<1>4. scan' \in [Runs -> ScanRecord] /\ scan'[r] = w /\ \A q \in Runs \ {r} : scan'[q] = scan[q]
  BY <1>2, <1>3 DEF ServerInv, ServerTypes
<1>5. ASSUME Own(r)
      PROVE  /\ stream' \in Stream /\ quiet' \in BOOLEAN
             /\ stream'.run = r /\ stream'.droppedUntil >= stream.droppedUntil
             /\ Mirrors(stream', w)
  <2>1. /\ stream \in Stream /\ stream.run = r /\ Mirrors(stream, scan[r])
    BY <1>5, OwnStream
  <2>2. stream' = [stream EXCEPT !.status = status, !.summary = r] /\ quiet' = FALSE
    BY <1>5 DEF FinishProgress, Write
  <2>3. /\ stream' \in Stream /\ stream'.run = r /\ stream'.droppedUntil = stream.droppedUntil
        /\ stream'.status = status /\ stream'.nextIndex = stream.nextIndex
        /\ stream'.events = stream.events /\ stream'.summary = r /\ stream'.rows = stream.rows
    BY <2>1, <2>2 DEF Stream, Status
  <2>4. stream.droppedUntil \in Nat
    BY <2>1 DEF Stream
  <2>5. Mirrors(stream', w)
    BY <1>2, <2>1, <2>3 DEF Mirrors
  <2>6. quiet' \in BOOLEAN
    BY <2>2
  <2>7. stream'.droppedUntil >= stream.droppedUntil
    BY <2>3, <2>4
  <2> QED
    BY <2>3, <2>5, <2>6, <2>7
<1>6. ~Own(r) => stream' = stream /\ quiet' = quiet
  BY DEF FinishProgress, Write
<1>7. w.events >= scan[r].events /\ w.rows >= scan[r].rows
  BY <1>1, <1>2 DEF ScanRecord
<1> QED
  BY <1>1, <1>2, <1>4, <1>5, <1>6, <1>7 DEF RunAdds

-----------------------------------------------------------------------------
(* The browser. *)

(* All of it is said of the values a load l, its reply a, the stream st    *)
(* and the runs sc may have.                                               *)

(* What load l holds: the run it follows has started and has written at    *)
(* least what was read of it, and the rows are the first of that run.      *)
Follows(l, sc) ==
    /\ l.run # None => /\ l.run \in Begun(sc)
                       /\ l.rowsSince <= sc[l.run].rows /\ l.cursor <= sc[l.run].events
    /\ l.run = None => l.rowsSince = 0 /\ l.cursor = 0 /\ l.replayed = <<>>
    /\ l.buffer = Lines(l.run, 0, l.rowsSince)

(* OnlyDroppedEventsMissed, for one load. *)
InOrder(l) ==
    /\ \A m, n \in DOMAIN l.replayed : m < n => l.replayed[m].idx < l.replayed[n].idx
    /\ \A n \in DOMAIN l.replayed : l.replayed[n].by = l.run /\ l.replayed[n].idx < l.cursor

OnlyDropped(l, st) ==
    st # None /\ st.run = l.run =>
        \A i \in 0..(l.cursor - 1) :
            i >= st.droppedUntil => \E n \in DOMAIN l.replayed : l.replayed[n].idx = i

(* A reply under way to load l: there was no stream, or it was another,    *)
(* later run's, or it takes up the events and the rows where l left off,   *)
(* but for the events dropped meanwhile.                                   *)
Idle(a, l) == a.run = None /\ a.events = <<>> /\ a.rows = <<>> /\ a.next = l.cursor

Replaced(a, l, sc) ==
    /\ a.run \notin {None, l.run} /\ a.run \in Begun(sc)
    /\ l.run # None => sc[a.run].order > sc[l.run].order

Continues(a, l, st, c) ==
    /\ l.cursor <= c /\ c <= a.next
    /\ a.events = Numbers(l.run, c, a.next)
    /\ st # None /\ st.run = l.run => c = l.cursor \/ c <= st.droppedUntil

GoesOn(a, l, sc, st) ==
    /\ a.run = l.run /\ l.run # None
    /\ l.rowsSince <= a.rowsNext /\ a.rowsNext <= sc[l.run].rows
    /\ a.rows = Lines(l.run, l.rowsSince, a.rowsNext)
    /\ a.next <= sc[l.run].events
    /\ \E c \in Nat : Continues(a, l, st, c)

Fits(a, l, sc, st) == Idle(a, l) \/ Replaced(a, l, sc) \/ GoesOn(a, l, sc, st)

PollerFine(l, a, sc, st) ==
    /\ Follows(l, sc) /\ InOrder(l) /\ OnlyDropped(l, st)
    /\ a # None => Fits(a, l, sc, st)

BrowserTypes == load \in [Loads -> Load] /\ reply \in [Loads -> Reply \cup {None}]

StreamInv ==
    /\ ServerInv /\ BrowserTypes
    /\ \A p \in Loads : PollerFine(load[p], reply[p], scan, stream)

(* The server goes on while a load stays where it is. *)
LEMMA PollerWaits ==
  ASSUME ProgressAssumption, NEW l \in Load, NEW m, NEW a \in Reply \cup {None}, NEW b \in {a, None},
         m = [l EXCEPT !.request = m.request],
         NEW sc \in [Runs -> ScanRecord], NEW sc2 \in [Runs -> ScanRecord],
         NEW st \in Stream \cup {None}, NEW st2 \in Stream \cup {None},
         Grows(sc, st, sc2, st2), PollerFine(l, a, sc, st)
  PROVE  PollerFine(m, b, sc2, st2)
<1>1. /\ m.run = l.run /\ m.cursor = l.cursor /\ m.rowsSince = l.rowsSince
      /\ m.replayed = l.replayed /\ m.buffer = l.buffer
  BY DEF Load
<1>2. /\ l.cursor \in Nat /\ l.rowsSince \in Nat /\ l.run \in Runs \cup {None}
  BY DEF Load
<1>3. \A q \in Begun(sc) : /\ q \in Runs
                           /\ sc[q].rows \in Nat /\ sc[q].events \in Nat
                           /\ sc2[q].rows \in Nat /\ sc2[q].events \in Nat
  BY DEF ScanRecord, Begun
<1>4. /\ st # None => st.droppedUntil \in Nat
      /\ st2 # None => st2.droppedUntil \in Nat /\ st2.run \in Runs
  BY DEF Stream
<1>5. l.run # None => l.run \in Begun(sc)
  BY DEF PollerFine, Follows
<1>6. st2 # None /\ st2.run = l.run =>
         st # None /\ st.run = l.run /\ st2.droppedUntil >= st.droppedUntil
  BY <1>4, <1>5, ProgressAssumption DEF Grows, ProgressAssumption
<1>7. Follows(m, sc2)
  <2>1. m.run # None => /\ m.run \in Begun(sc2)
                        /\ m.rowsSince <= sc2[m.run].rows /\ m.cursor <= sc2[m.run].events
    BY <1>1, <1>2, <1>3 DEF PollerFine, Follows, Grows
  <2> QED
    BY <1>1, <2>1 DEF PollerFine, Follows
<1>8. InOrder(m)
  BY <1>1 DEF PollerFine, InOrder
<1>9. OnlyDropped(m, st2)
  BY <1>1, <1>2, <1>4, <1>6 DEF PollerFine, OnlyDropped
<1>10. ASSUME b # None PROVE Fits(b, m, sc2, st2)
  <2>1. b = a /\ a # None /\ a \in Reply /\ Fits(a, l, sc, st)
    BY <1>10 DEF PollerFine
  <2>2. a.next \in Nat /\ a.rowsNext \in Nat
    BY <2>1 DEF Reply
  <2>3. CASE Idle(a, l)
    BY <1>1, <2>1, <2>3 DEF Idle, Fits
  <2>4. CASE Replaced(a, l, sc)
    BY <1>1, <1>5, <2>1, <2>4 DEF Replaced, Grows, Fits
  <2>5. CASE GoesOn(a, l, sc, st)
    <3>1. PICK c \in Nat : Continues(a, l, st, c)
      BY <2>5 DEF GoesOn
    <3>2. Continues(a, m, st2, c)
      BY <1>1, <1>4, <1>6, <3>1 DEF Continues
    <3>3. a.rowsNext <= sc2[m.run].rows /\ a.next <= sc2[m.run].events
      BY <1>1, <1>3, <1>5, <2>2, <2>5 DEF GoesOn, Grows
    <3>4. GoesOn(a, m, sc2, st2)
      BY <1>1, <2>5, <3>2, <3>3 DEF GoesOn
    <3> QED
      BY <2>1, <3>4 DEF Fits
  <2> QED
    BY <2>1, <2>3, <2>4, <2>5 DEF Fits
<1> QED
  BY <1>7, <1>8, <1>9, <1>10 DEF PollerFine

(* The rows of a run from a cursor on. *)
LEMMA RowsSince ==
  ASSUME NEW r \in Runs, NEW k \in Nat, NEW m \in Nat, m <= k,
         NEW rs, rs = RowsOf(r, k)
  PROVE  /\ Len(rs) = k
         /\ SubSeq(rs, m + 1, k) = Lines(r, m, k)
         /\ Lines(r, m, k) \in Seq(Line)
<1>1. rs \in Seq(Line) /\ Len(rs) = k /\ \A n \in 1..k : rs[n] = [by |-> r, nr |-> n]
  BY DEF RowsOf, Line
<1>2. SubSeq(rs, m + 1, k) = [i \in 1..(k - m) |-> rs[m + i]]
  BY <1>1
<1>3. \A i \in 1..(k - m) : rs[m + i] = [by |-> r, nr |-> m + i]
  BY <1>1
<1>4. Lines(r, m, k) \in Seq(Line)
  BY DEF Lines, Line
<1> QED
  BY <1>1, <1>2, <1>3, <1>4 DEF Lines

(* Numbers is a sequence of events. *)
LEMMA NumbersAreEvents ==
  ASSUME NEW r \in Runs, NEW c \in Nat, NEW n \in Nat, c <= n
  PROVE  /\ Numbers(r, c, n) \in Seq(Event) /\ Len(Numbers(r, c, n)) = n - c
         /\ \A i \in 1..(n - c) : Numbers(r, c, n)[i] = [by |-> r, idx |-> c + i - 1]
BY DEF Numbers, Event

(* What the progress route answers. *)
LEMMA AnswerFits ==
  ASSUME ProgressAssumption, StreamInv, NEW p \in Loads
  PROVE  /\ ReadProgress(p) \in Reply
         /\ Fits(ReadProgress(p), load[p], scan, stream)
<1> DEFINE l == load[p]
           st == stream
<1>1. l \in Load /\ l.cursor \in Nat /\ l.rowsSince \in Nat /\ l.run \in Runs \cup {None}
  BY DEF StreamInv, BrowserTypes, Load
<1>2. Follows(l, scan)
  BY DEF StreamInv, PollerFine
<1>3. CASE Kept = None
  <2>1. ReadProgress(p) = IdleReply(l.cursor)
    BY <1>3 DEF ReadProgress
  <2>2. IdleReply(l.cursor) \in Reply
    BY <1>1 DEF IdleReply, Reply
  <2>3. Idle(IdleReply(l.cursor), l)
    BY DEF IdleReply, Idle
  <2> QED
    BY <2>1, <2>2, <2>3 DEF Fits
<1>4. ASSUME Kept # None
      PROVE  /\ Kept = st /\ st # None /\ st \in Stream /\ st.run \in Started /\ Started = Begun(scan)
             /\ Mirrors(st, scan[st.run]) /\ scan[st.run] \in ScanRecord
             /\ \A q \in Started : scan[q].order <= scan[st.run].order /\ scan[q].order \in Nat
  <2>1. Kept = st /\ st # None
    BY <1>4 DEF Kept
  <2>2. st \in Stream /\ st.run \in Started
    BY <2>1 DEF StreamInv, ServerInv, ServerTypes, StreamOfStarted
  <2>3. \A q \in Started : scan[q] \in ScanRecord
    BY DEF StreamInv, ServerInv, ServerTypes, Started
  <2>4. \A q \in Started : scan[q].order \in Nat
    BY <2>3 DEF ScanRecord
  <2>5. StreamIsLastRun
    BY DEF StreamInv, ServerInv
  <2> QED
    BY <2>1, <2>2, <2>3, <2>4, <2>5, StreamMirrorsRun DEF Started, Begun
<1>5. CASE Kept # None /\ st.run # l.run
  <2>1. ReadProgress(p) = ReplacedReply
    BY <1>4, <1>5 DEF ReadProgress
  <2>2. ReplacedReply \in Reply /\ ReplacedReply.run = st.run
    BY <1>4, <1>5 DEF ReplacedReply, Reply, Stream
  <2>3. st.run # None
    BY <1>4, <1>5, ProgressAssumption DEF ProgressAssumption, Stream
  <2>4. l.run # None => scan[st.run].order > scan[l.run].order
    BY <1>2, <1>4, <1>5 DEF Follows, StreamInv, ServerInv, StartsAreOrdered
  <2>5. Replaced(ReplacedReply, l, scan)
    BY <1>4, <1>5, <2>2, <2>3, <2>4 DEF Replaced
  <2> QED
    BY <2>1, <2>2, <2>5 DEF Fits
<1>6. CASE Kept # None /\ st.run = l.run
  <2> DEFINE a == RunReply(l.cursor, l.rowsSince)
             d == st.droppedUntil
             k == Len(st.events)
             c == Max2(l.cursor, d)
             r == l.run
  <2>1. ReadProgress(p) = a
    BY <1>4, <1>6 DEF ReadProgress
  <2>2. r \in Runs /\ r # None
    BY <1>4, <1>6, ProgressAssumption DEF ProgressAssumption, Stream
  <2>3. l.cursor <= scan[r].events /\ l.rowsSince <= scan[r].rows
    BY <1>2, <2>2 DEF Follows
  <2>4. /\ d \in Nat /\ k \in Nat /\ st.nextIndex = d + k /\ st.nextIndex = scan[r].events
        /\ scan[r].rows \in Nat
    BY <1>4, <1>6 DEF Mirrors, Stream, ScanRecord
  <2>5. c \in Nat /\ d <= c /\ c <= d + k /\ l.cursor <= c /\ (c = l.cursor \/ c <= d)
    BY <1>1, <2>3, <2>4 DEF Max2
  <2>6. EventsSince(l.cursor) = Numbers(r, c, d + k)
    <3>1. st.events = EventsOf(r, d, k)
      BY <1>4, <1>6 DEF Mirrors, EventsOf
    <3>2. EventsSince(l.cursor) = EventsFrom(st.events, c)
      BY DEF EventsSince
    <3> HIDE DEF k, d, c, r
    <3> QED
      BY <2>4, <2>5, <3>1, <3>2, EventsFromNumbers
  <2>7. (IF st.nextIndex = 0 THEN c ELSE st.nextIndex) = d + k
    BY <2>4, <2>5
  <2>8. /\ Len(st.rows) = scan[r].rows
        /\ SubSeq(st.rows, l.rowsSince + 1, Len(st.rows)) = Lines(r, l.rowsSince, scan[r].rows)
        /\ Lines(r, l.rowsSince, scan[r].rows) \in Seq(Line)
    <3>1. st.rows = RowsOf(r, scan[r].rows)
      BY <1>4, <1>6 DEF Mirrors, RowsOf
    <3> DEFINE n == scan[r].rows
               m == l.rowsSince
    <3>2. n \in Nat /\ m \in Nat /\ m <= n /\ st.rows = RowsOf(r, n)
      BY <1>1, <2>3, <2>4, <3>1
    <3> HIDE DEF r, n, m
    <3>3. /\ Len(st.rows) = n
          /\ SubSeq(st.rows, m + 1, n) = Lines(r, m, n)
          /\ Lines(r, m, n) \in Seq(Line)
      BY <2>2, <3>2, RowsSince
    <3> QED
      BY <3>3 DEF n, m
  <2>9. /\ a.run = r /\ a.events = Numbers(r, c, d + k) /\ a.next = d + k
        /\ a.rows = Lines(r, l.rowsSince, scan[r].rows) /\ a.rowsNext = scan[r].rows
        /\ a = [run |-> a.run, events |-> a.events, next |-> a.next, rows |-> a.rows, rowsNext |-> a.rowsNext]
    BY <1>6, <2>6, <2>7, <2>8 DEF RunReply
  <2>10. Numbers(r, c, d + k) \in Seq(Event)
    <3> HIDE DEF c, d, k, r
    <3>1. d + k \in Nat
      BY <2>4
    <3> QED
      BY <2>2, <2>5, <3>1, NumbersAreEvents
  <2> HIDE DEF a, c, d, k, r
  <2>11. a \in Reply
    BY <2>2, <2>4, <2>8, <2>9, <2>10 DEF Reply
  <2>12. Continues(a, l, stream, c)
    BY <2>5, <2>9 DEF Continues, d, r
  <2>13. GoesOn(a, l, scan, stream)
    BY <2>2, <2>3, <2>4, <2>5, <2>9, <2>12 DEF GoesOn, r
  <2> QED
    BY <2>1, <2>11, <2>13 DEF Fits
<1> QED
  BY <1>3, <1>5, <1>6

(* A load takes up the rows and the events of its run. *)
LEMMA LinesJoin ==
  ASSUME NEW r, NEW m \in Nat, NEW n \in Nat, m <= n
  PROVE  Lines(r, 0, m) \o Lines(r, m, n) = Lines(r, 0, n)
<1>1. /\ Lines(r, 0, m) \in Seq({[by |-> r, nr |-> i] : i \in Nat})
      /\ Lines(r, m, n) \in Seq({[by |-> r, nr |-> i] : i \in Nat})
      /\ Len(Lines(r, 0, m)) = m /\ Len(Lines(r, m, n)) = n - m
      /\ \A i \in 1..m : Lines(r, 0, m)[i] = [by |-> r, nr |-> i]
      /\ \A i \in 1..(n - m) : Lines(r, m, n)[i] = [by |-> r, nr |-> m + i]
  BY DEF Lines
<1> DEFINE s == Lines(r, 0, m)
           t == Lines(r, m, n)
<1> HIDE DEF s, t
<1>2. s \o t = [i \in 1..n |-> IF i <= m THEN s[i] ELSE t[i - m]]
  <2>1. /\ s \in Seq({[by |-> r, nr |-> i] : i \in Nat}) /\ Len(s) = m
        /\ t \in Seq({[by |-> r, nr |-> i] : i \in Nat}) /\ Len(t) = n - m /\ m + (n - m) = n
    BY <1>1 DEF s, t
  <2>2. Len(s \o t) = n /\ \A i \in 1..n : (s \o t)[i] = IF i <= m THEN s[i] ELSE t[i - m]
    BY <2>1, ConcatProperties
  <2>3. s \o t = [i \in 1..Len(s \o t) |-> (s \o t)[i]]
    <3> DEFINE u == s \o t
    <3>1. u \in Seq({[by |-> r, nr |-> i] : i \in Nat})
      BY <2>1, ConcatProperties
    <3> HIDE DEF u
    <3>2. u = [i \in 1..Len(u) |-> u[i]]
      BY <3>1
    <3> QED
      BY <3>2 DEF u
  <2> QED
    BY <2>2, <2>3
<1>3. \A i \in 1..n : (IF i <= m THEN s[i] ELSE t[i - m]) = [by |-> r, nr |-> 0 + i]
  <2>1. TAKE i \in 1..n
  <2>2. CASE i <= m
    BY <1>1, <2>2 DEF s, t
  <2>3. CASE i > m
    <3>1. i - m \in 1..(n - m) /\ m + (i - m) = i
      BY <2>3
    <3> QED
      BY <1>1, <2>3, <3>1 DEF s, t
  <2> QED
    BY <2>2, <2>3
<1> QED
  BY <1>2, <1>3 DEF s, t, Lines

(* A load that absorbs an answer that fits has again what it followed. *)
LEMMA LoadAbsorbs ==
  ASSUME ProgressAssumption, NEW l \in Load, NEW a \in Reply,
         NEW sc \in [Runs -> ScanRecord], NEW st \in Stream \cup {None},
         PollerFine(l, a, sc, st), Idle(a, l) \/ GoesOn(a, l, sc, st)
  PROVE  Absorb(l, a) \in Load /\ PollerFine(Absorb(l, a), None, sc, st)
<1> DEFINE m == Absorb(l, a)
<1>1. /\ m = [l EXCEPT !.cursor = a.next, !.replayed = l.replayed \o a.events, !.buffer = l.buffer \o a.rows,
                      !.rowsSince = IF a.run = None THEN l.rowsSince ELSE a.rowsNext]
      /\ m.run = l.run /\ m.cursor = a.next /\ m.replayed = l.replayed \o a.events
      /\ m.buffer = l.buffer \o a.rows
      /\ m.rowsSince = IF a.run = None THEN l.rowsSince ELSE a.rowsNext
  BY DEF Absorb, Load
<1>2. /\ l.cursor \in Nat /\ l.rowsSince \in Nat /\ l.replayed \in Seq(Event) /\ l.buffer \in Seq(Line)
      /\ a.next \in Nat /\ a.rowsNext \in Nat /\ a.events \in Seq(Event) /\ a.rows \in Seq(Line)
      /\ l.run \in Runs \cup {None}
  BY DEF Load, Reply
<1>3. m \in Load
  <2>1. /\ l.replayed \o a.events \in Seq(Event) /\ l.buffer \o a.rows \in Seq(Line)
        /\ m.rowsSince \in Nat
    BY <1>1, <1>2
  <2> QED
    BY <1>1, <1>2, <2>1 DEF Load
<1> HIDE DEF m
<1>4. Follows(l, sc) /\ InOrder(l) /\ OnlyDropped(l, st)
  BY DEF PollerFine
<1>5. CASE Idle(a, l)
  <2>1. /\ m.cursor = l.cursor /\ m.replayed = l.replayed /\ m.buffer = l.buffer
        /\ m.rowsSince = l.rowsSince /\ m.run = l.run
    BY <1>1, <1>2, <1>5 DEF Idle
  <2>2. Follows(m, sc) /\ InOrder(m) /\ OnlyDropped(m, st)
    BY <1>4, <2>1 DEF Follows, InOrder, OnlyDropped
  <2> QED
    BY <1>3, <2>2 DEF PollerFine, m
<1>6. CASE GoesOn(a, l, sc, st)
  <2> DEFINE r == l.run
             k == Len(l.replayed)
             n == a.next
  <2>1. a.run = r /\ r # None /\ r \in Runs
    BY <1>2, <1>6 DEF GoesOn
  <2>2. m.rowsSince = a.rowsNext
    BY <1>1, <2>1
  <2>3. Follows(m, sc)
    <3>1. m.buffer = Lines(r, 0, l.rowsSince) \o Lines(r, l.rowsSince, a.rowsNext)
      BY <1>1, <1>4, <1>6 DEF Follows, GoesOn
    <3>0. l.rowsSince \in Nat /\ a.rowsNext \in Nat /\ l.rowsSince <= a.rowsNext
      BY <1>2, <1>6 DEF GoesOn
    <3>2. m.buffer = Lines(r, 0, a.rowsNext)
      BY ONLY <3>0, <3>1, <2>1, LinesJoin
    <3> QED
      BY <1>1, <1>4, <1>6, <2>1, <2>2, <3>2 DEF Follows, GoesOn
  <2>4. PICK c \in Nat : Continues(a, l, st, c)
    BY <1>6 DEF GoesOn
  <2>5. /\ l.cursor <= c /\ c <= n /\ k \in Nat /\ n \in Nat
        /\ Len(a.events) = n - c
        /\ \A i \in 1..(n - c) : a.events[i] = [by |-> r, idx |-> c + i - 1]
    <3>1. a.events = Numbers(r, c, n) /\ l.cursor <= c /\ c <= n
      BY <2>4 DEF Continues
    <3>2. k \in Nat /\ n \in Nat
      BY <1>2
    <3> HIDE DEF r, k, n
    <3> QED
      BY <2>1, <3>1, <3>2, NumbersAreEvents
  <2>6. /\ DOMAIN m.replayed = 1..(k + n - c)
        /\ \A i \in 1..k : i \in DOMAIN m.replayed /\ m.replayed[i] = l.replayed[i]
        /\ \A i \in 1..(n - c) : k + i \in DOMAIN m.replayed /\ m.replayed[k + i] = a.events[i]
        /\ DOMAIN l.replayed = 1..k
    <3> DEFINE s == l.replayed
               t == a.events
    <3>1. s \in Seq(Event) /\ t \in Seq(Event) /\ Len(s) = k /\ Len(t) = n - c /\ m.replayed = s \o t
      BY <1>1, <1>2, <2>5
    <3> HIDE DEF s, t, n, k
    <3>6. /\ s \o t \in Seq(Event) /\ Len(s \o t) = Len(s) + Len(t) /\ DOMAIN s = 1..Len(s)
          /\ \A i \in 1..Len(s) : (s \o t)[i] = s[i]
          /\ \A i \in 1..Len(t) : (s \o t)[Len(s) + i] = t[i]
      BY ONLY <3>1, Joined
    <3>7. k + (n - c) = k + n - c
      BY ONLY <2>5, c \in Nat
    <3>2. s \o t \in Seq(Event) /\ Len(s \o t) = k + n - c /\ DOMAIN s = 1..k
      BY ONLY <3>1, <3>6, <3>7
    <3>3. /\ \A i \in 1..k : (s \o t)[i] = s[i]
          /\ \A i \in 1..(n - c) : (s \o t)[k + i] = t[i]
      BY ONLY <3>1, <3>6
    <3>4. DOMAIN m.replayed = 1..(k + n - c) /\ \A i \in 1..(n - c) : k + i \in 1..(k + n - c)
      BY <2>5, <3>1, <3>2
    <3>5. \A i \in 1..k : i \in 1..(k + n - c)
      BY <2>5
    <3> QED
      BY <3>1, <3>2, <3>3, <3>4, <3>5 DEF s, t
  <2>7. \A i \in 1..k : /\ l.replayed[i].idx \in Nat /\ l.replayed[i].idx < l.cursor /\ l.replayed[i].by = r
    <3>1. \A i \in 1..k : l.replayed[i] \in Event
      BY <1>2, <2>6
    <3> QED
      BY <1>4, <2>6, <3>1 DEF InOrder, Event
  <2>8. \A i \in 1..(k + n - c) : i \in 1..k \/ (i - k \in 1..(n - c) /\ k + (i - k) = i)
    BY <2>5
  <2> HIDE DEF r, k, n
  <2>9. \A i \in 1..(k + n - c) :
           \/ i \in 1..k /\ m.replayed[i] = l.replayed[i]
           \/ i > k /\ m.replayed[i] = [by |-> r, idx |-> c + (i - k) - 1]
    <3>1. TAKE i \in 1..(k + n - c)
    <3>2. CASE i \in 1..k
      BY <2>6, <3>2
    <3>3. CASE i - k \in 1..(n - c) /\ k + (i - k) = i
      <4>1. m.replayed[k + (i - k)] = a.events[i - k]
        BY ONLY <2>6, <3>3
      <4>2. a.events[i - k] = [by |-> r, idx |-> c + (i - k) - 1]
        BY ONLY <2>5, <3>3
      <4>3. i > k
        BY ONLY <2>5, <3>3, i \in 1..(k + n - c), c \in Nat
      <4> QED BY ONLY <3>3, <4>1, <4>2, <4>3
    <3> QED
      BY <2>8, <3>2, <3>3
  <2>10. InOrder(m)
    <3>1. \A i, j \in DOMAIN m.replayed : i < j => m.replayed[i].idx < m.replayed[j].idx
      <4>1. SUFFICES ASSUME NEW i \in 1..(k + n - c), NEW j \in 1..(k + n - c), i < j
                     PROVE  m.replayed[i].idx < m.replayed[j].idx
        BY <2>6
      <4>2. CASE i \in 1..k /\ j \in 1..k
        BY <1>4, <2>6, <4>1, <4>2 DEF InOrder
      <4>3. CASE i \in 1..k /\ j > k
        <5>1. m.replayed[i] = l.replayed[i] /\ m.replayed[j] = [by |-> r, idx |-> c + (j - k) - 1]
          <6>1. ~(i > k) /\ j \notin 1..k
            BY <2>5, <4>3
          <6> QED
            BY <2>9, <6>1
        <5>2. c <= c + (j - k) - 1
          BY <2>5, <4>3
        <5>3. l.replayed[i].idx \in Nat /\ l.replayed[i].idx < l.cursor /\ l.cursor \in Nat
          BY <1>2, <2>7, <4>3
        <5>4. l.replayed[i].idx < c + (j - k) - 1
          BY ONLY <2>5, <5>2, <5>3, c \in Nat, j \in 1..(k + n - c)
        <5> QED
          BY ONLY <5>1, <5>4
      <4>4. CASE i > k /\ j > k
        <5>1. /\ m.replayed[i] = [by |-> r, idx |-> c + (i - k) - 1]
              /\ m.replayed[j] = [by |-> r, idx |-> c + (j - k) - 1]
          <6>1. i \notin 1..k /\ j \notin 1..k
            BY <2>5, <4>4
          <6> QED
            BY <2>9, <6>1
        <5> QED
          BY <2>5, <4>1, <5>1
      <4> QED
        BY <2>5, <4>1, <4>2, <4>3, <4>4
    <3>2. \A i \in DOMAIN m.replayed : m.replayed[i].by = m.run /\ m.replayed[i].idx < m.cursor
      <4>1. SUFFICES ASSUME NEW i \in 1..(k + n - c)
                     PROVE  m.replayed[i].by = r /\ m.replayed[i].idx < n
        BY <1>1, <2>6 DEF r, n
      <4>2. CASE i \in 1..k /\ m.replayed[i] = l.replayed[i]
        <5>1. l.replayed[i].by = r /\ l.replayed[i].idx \in Nat /\ l.replayed[i].idx < l.cursor
          BY ONLY <2>7, <4>2
        <5>2. l.cursor \in Nat
          BY <1>2
        <5>3. l.replayed[i].idx < n
          BY ONLY <2>5, <5>1, <5>2, c \in Nat
        <5> QED BY ONLY <4>2, <5>1, <5>3
      <4>3. CASE i > k /\ m.replayed[i] = [by |-> r, idx |-> c + (i - k) - 1]
        BY <2>5, <4>3
      <4> QED
        BY <2>9, <4>2, <4>3
    <3> QED
      BY <3>1, <3>2 DEF InOrder
  <2>11. OnlyDropped(m, st)
    <3>1. SUFFICES ASSUME st # None, st.run = r, NEW i \in 0..(n - 1), i >= st.droppedUntil
                   PROVE  \E j \in DOMAIN m.replayed : m.replayed[j].idx = i
      BY <1>1 DEF OnlyDropped, r, n
    <3>2. st.droppedUntil \in Nat /\ (c = l.cursor \/ c <= st.droppedUntil)
      BY <2>4, <3>1 DEF Stream, Continues, r
    <3>3. CASE i < l.cursor
      <4>0. i \in 0..(l.cursor - 1) /\ st.run = l.run
        BY <1>2, <3>1, <3>3 DEF r
      <4>1. \E j \in DOMAIN l.replayed : l.replayed[j].idx = i
        BY ONLY <1>4, <3>1, <4>0 DEF OnlyDropped
      <4> QED
        BY <2>6, <4>1
    <3>4. CASE i >= l.cursor
      <4>1. i >= c
        BY <1>2, <3>1, <3>2, <3>4
      <4>2. i - c + 1 \in 1..(n - c) /\ c + (i - c + 1) - 1 = i
        BY <2>5, <4>1
      <4>3. k + (i - c + 1) \in DOMAIN m.replayed /\ m.replayed[k + (i - c + 1)] = [by |-> r, idx |-> i]
        BY <2>5, <2>6, <4>2
      <4> QED
        BY <4>3
    <3> QED
      BY <1>2, <3>3, <3>4
  <2> QED
    BY <1>3, <2>3, <2>10, <2>11 DEF PollerFine, m
<1> QED
  BY <1>5, <1>6

(* A load turns to another run and starts over. *)
LEMMA LoadFollows ==
  ASSUME ProgressAssumption, NEW l \in Load, NEW r \in Runs, NEW sc \in [Runs -> ScanRecord],
         NEW st, r \in Begun(sc)
  PROVE  Follow(l, r) \in Load /\ PollerFine(Follow(l, r), None, sc, st)
<1> DEFINE m == Follow(l, r)
<1>1. /\ m.run = r /\ m.cursor = 0 /\ m.rowsSince = 0 /\ m.replayed = <<>> /\ m.buffer = <<>>
      /\ m \in Load
  <2>1. <<>> \in Seq(Event) /\ <<>> \in Seq(Line)
    OBVIOUS
  <2> QED
    BY <2>1 DEF Follow, Load
<1>2. sc[r].rows \in Nat /\ sc[r].events \in Nat /\ r # None
  BY ProgressAssumption DEF ScanRecord, ProgressAssumption
<1> HIDE DEF m
<1>3. Follows(m, sc)
  BY <1>1, <1>2 DEF Follows, Lines
<1>4. InOrder(m) /\ OnlyDropped(m, st)
  BY <1>1 DEF InOrder, OnlyDropped
<1> QED
  BY <1>1, <1>3, <1>4 DEF PollerFine, m

-----------------------------------------------------------------------------
(* The inductive invariant. *)

(* Reading removes a stream that went quiet and changes nothing else. *)
LEMMA ServerStays ==
  ASSUME ServerInv, scan' = scan, quiet' \in BOOLEAN, stream' \in {stream, None}
  PROVE  ServerInv' /\ ServerGrows
<1>1. Started' = Started
  BY DEF Started
<1>2. ServerTypes' /\ StartsAreOrdered' /\ StreamOfStarted'
  BY <1>1 DEF ServerInv, ServerTypes, StartsAreOrdered, StreamOfStarted
<1>3. StreamIsLastRun'
  BY <1>1 DEF ServerInv, StreamIsLastRun
<1>4. ServerGrows
  BY DEF ServerGrows, Grows, Begun, ServerInv, ServerTypes, ScanRecord, Stream
<1> QED
  BY <1>2, <1>3, <1>4 DEF ServerInv

(* A step of the server, seen from the browser. *)
LEMMA ServerStep ==
  ASSUME ProgressAssumption, StreamInv, ServerInv', ServerGrows, UNCHANGED Browser
  PROVE  StreamInv'
<1>1. load' = load /\ reply' = reply
  BY DEF Browser
<1>2. BrowserTypes'
  BY <1>1 DEF StreamInv, BrowserTypes
<1>3. ASSUME NEW p \in Loads
      PROVE  PollerFine(load'[p], reply'[p], scan', stream')
  <2>1. /\ load[p] \in Load /\ reply[p] \in Reply \cup {None} /\ reply[p] \in {reply[p], None}
        /\ load[p] = [load[p] EXCEPT !.request = load[p].request]
        /\ PollerFine(load[p], reply[p], scan, stream)
    BY DEF StreamInv, BrowserTypes, Load
  <2>2. /\ scan \in [Runs -> ScanRecord] /\ scan' \in [Runs -> ScanRecord]
        /\ stream \in Stream \cup {None} /\ stream' \in Stream \cup {None}
    BY DEF StreamInv, ServerInv, ServerTypes
  <2> QED
    BY <1>1, <2>1, <2>2, PollerWaits DEF ServerGrows
<1> QED
  BY <1>2, <1>3 DEF StreamInv

(* A step of one load, seen from the others. *)
LEMMA PollerStep ==
  ASSUME ProgressAssumption, StreamInv, ServerInv', ServerGrows, NEW p \in Loads,
         NEW l \in Load, NEW a \in Reply \cup {None},
         load' = [load EXCEPT ![p] = l], reply' = [reply EXCEPT ![p] = a],
         PollerFine(l, a, scan', stream')
  PROVE  StreamInv'
<1>1. BrowserTypes' /\ load'[p] = l /\ reply'[p] = a
  BY DEF StreamInv, BrowserTypes
<1>2. ASSUME NEW q \in Loads \ {p}
      PROVE  PollerFine(load'[q], reply'[q], scan', stream')
  <2>1. load'[q] = load[q] /\ reply'[q] = reply[q]
    BY DEF StreamInv, BrowserTypes
  <2>2. /\ load[q] \in Load /\ reply[q] \in Reply \cup {None} /\ reply[q] \in {reply[q], None}
        /\ load[q] = [load[q] EXCEPT !.request = load[q].request]
        /\ PollerFine(load[q], reply[q], scan, stream)
    BY DEF StreamInv, BrowserTypes, Load
  <2>3. /\ scan \in [Runs -> ScanRecord] /\ scan' \in [Runs -> ScanRecord]
        /\ stream \in Stream \cup {None} /\ stream' \in Stream \cup {None}
    BY DEF StreamInv, ServerInv, ServerTypes
  <2> QED
    BY <2>1, <2>2, <2>3, PollerWaits DEF ServerGrows
<1>3. \A q \in Loads : PollerFine(load'[q], reply'[q], scan', stream')
  BY <1>1, <1>2
<1> QED
  BY <1>1, <1>3 DEF StreamInv

(* A poll puts a reply that fits on its way. *)
LEMMA PollKeepsInv ==
  ASSUME ProgressAssumption, StreamInv, NEW p \in Loads, Poll(p)
  PROVE  StreamInv'
<1>1. scan' = scan /\ stream' = Kept /\ quiet' = (quiet /\ Kept # None) /\ load' = load
  BY DEF Poll
<1>2. quiet' \in BOOLEAN
  BY <1>1
<1>3. stream' \in {stream, None}
  BY <1>1 DEF Kept
<1>4. ServerInv' /\ ServerGrows
  BY <1>1, <1>2, <1>3, ServerStays DEF StreamInv
<1>5. /\ load[p] \in Load /\ None \in {None, reply[p]} /\ reply[p] \in Reply \cup {None}
      /\ PollerFine(load[p], reply[p], scan, stream)
  BY DEF StreamInv, BrowserTypes
<1>6. ReadProgress(p) \in Reply /\ Fits(ReadProgress(p), load[p], scan, stream)
  BY AnswerFits
<1>7. PollerFine(load[p], ReadProgress(p), scan, stream)
  BY <1>5, <1>6 DEF PollerFine
<1>8. /\ scan \in [Runs -> ScanRecord] /\ scan' \in [Runs -> ScanRecord]
      /\ stream \in Stream \cup {None} /\ stream' \in Stream \cup {None}
  BY <1>4 DEF StreamInv, ServerInv, ServerTypes
<1>9. load[p] = [load[p] EXCEPT !.request = load[p].request] /\ ReadProgress(p) \in {ReadProgress(p), None}
  BY <1>5 DEF Load
<1>10. PollerFine(load[p], ReadProgress(p), scan', stream')
  BY <1>4, <1>5, <1>6, <1>7, <1>8, <1>9, PollerWaits DEF ServerGrows
<1>11. load' = [load EXCEPT ![p] = load[p]] /\ reply' = [reply EXCEPT ![p] = ReadProgress(p)]
  BY <1>1 DEF Poll, StreamInv, BrowserTypes
<1> QED
  BY <1>4, <1>5, <1>6, <1>10, <1>11, PollerStep

(* A reply lands: it is absorbed, or the poller turns to the new run. *)
LEMMA ApplyKeepsInv ==
  ASSUME ProgressAssumption, StreamInv, NEW p \in Loads, Apply(p)
  PROVE  StreamInv'
<1> DEFINE l == load[p]
           a == reply[p]
<1>1. scan' = scan /\ stream' = stream /\ quiet' = quiet /\ reply' = [reply EXCEPT ![p] = None]
  BY DEF Apply
<1>2. quiet' \in BOOLEAN /\ stream' \in {stream, None}
  BY <1>1 DEF StreamInv, ServerInv, ServerTypes
<1>3. ServerInv' /\ ServerGrows
  BY <1>1, <1>2, ServerStays DEF StreamInv
<1>4. /\ l \in Load /\ a \in Reply /\ a # None /\ PollerFine(l, a, scan, stream) /\ Fits(a, l, scan, stream)
      /\ scan \in [Runs -> ScanRecord] /\ stream \in Stream \cup {None}
  BY DEF StreamInv, BrowserTypes, Apply, PollerFine, ServerInv, ServerTypes
<1>5. load' = [load EXCEPT ![p] = IF a.run \notin {None, l.run} THEN Follow(l, a.run) ELSE Absorb(l, a)]
  BY DEF Apply
<1> HIDE DEF l, a
<1>6. CASE Replaced(a, l, scan)
  <2>1. a.run \notin {None, l.run} /\ a.run \in Begun(scan) /\ a.run \in Runs
    BY <1>6 DEF Replaced, Begun
  <2>2. Follow(l, a.run) \in Load /\ PollerFine(Follow(l, a.run), None, scan, stream)
    BY <1>4, <2>1, LoadFollows
  <2>3. load' = [load EXCEPT ![p] = Follow(l, a.run)]
    BY <1>5, <2>1
  <2> QED
    BY <1>1, <1>3, <2>2, <2>3, PollerStep
<1>7. CASE Idle(a, l) \/ GoesOn(a, l, scan, stream)
  <2>1. a.run \in {None, l.run}
    BY <1>7 DEF Idle, GoesOn
  <2>2. Absorb(l, a) \in Load /\ PollerFine(Absorb(l, a), None, scan, stream)
    BY <1>4, <1>7, LoadAbsorbs
  <2>3. load' = [load EXCEPT ![p] = Absorb(l, a)]
    BY <1>5, <2>1
  <2> QED
    BY <1>1, <1>3, <2>2, <2>3, PollerStep
<1> QED
  BY <1>4, <1>6, <1>7 DEF Fits

(* The load's own request, and a poll that is lost. *)
LEMMA RequestKeepsInv ==
  ASSUME ProgressAssumption, StreamInv, NEW p \in Loads,
         BeginLoad(p) \/ PollFails(p) \/ \E ok \in BOOLEAN : Settle(p, ok)
  PROVE  StreamInv'
<1>1. scan' = scan /\ stream' = stream /\ quiet' = quiet
  BY DEF BeginLoad, PollFails, Settle
<1>2. quiet' \in BOOLEAN /\ stream' \in {stream, None}
  BY <1>1 DEF StreamInv, ServerInv, ServerTypes
<1>3. ServerInv' /\ ServerGrows
  BY <1>1, <1>2, ServerStays DEF StreamInv
<1>4. PICK s \in {"new", "running", "ok", "failed", "recovered"}, a \in {reply[p], None} :
         load' = [load EXCEPT ![p].request = s] /\ reply' = [reply EXCEPT ![p] = a]
  BY DEF BeginLoad, PollFails, Settle, StreamInv, BrowserTypes, Load
<1> DEFINE l == [load[p] EXCEPT !.request = s]
<1>5. /\ load[p] \in Load /\ reply[p] \in Reply \cup {None} /\ a \in Reply \cup {None}
      /\ PollerFine(load[p], reply[p], scan, stream)
      /\ scan \in [Runs -> ScanRecord] /\ stream \in Stream \cup {None}
  BY DEF StreamInv, BrowserTypes, ServerInv, ServerTypes
<1>6. l \in Load /\ l = [load[p] EXCEPT !.request = l.request]
  BY <1>5 DEF Load
<1>7. PollerFine(l, a, scan', stream')
  BY <1>1, <1>3, <1>4, <1>5, <1>6, PollerWaits DEF ServerGrows
<1>8. load' = [load EXCEPT ![p] = l]
  BY <1>4
<1> HIDE DEF l
<1> QED
  BY <1>3, <1>4, <1>5, <1>6, <1>7, <1>8, PollerStep

(* The invariant holds at the start, ... *)
LEMMA StreamStarts == ASSUME ProgressAssumption, Init PROVE StreamInv
<1>1. Started = {} /\ IsFiniteSet(Started)
  BY FS_EmptySet DEF Init, Started
<1>2. ServerInv
  <2>1. ServerTypes
    <3>1. quiet \in BOOLEAN
      BY DEF Init
    <3>2. scan \in [Runs -> ScanRecord]
      BY ProgressAssumption DEF Init, ScanRecord, ProgressAssumption
    <3> QED
      BY <3>1, <3>2 DEF Init, ServerTypes
  <2>2. StartsAreOrdered
    BY <1>1 DEF StartsAreOrdered, Init
  <2> QED
    BY <2>1, <2>2 DEF ServerInv, Init, StreamOfStarted, StreamIsLastRun
<1>3. BrowserTypes
  <2>1. <<>> \in Seq(Event) /\ <<>> \in Seq(Line)
    OBVIOUS
  <2> QED
    BY <2>1 DEF BrowserTypes, Init, Load
<1>4. ASSUME NEW p \in Loads PROVE PollerFine(load[p], reply[p], scan, stream)
  <2>1. /\ load[p].run = None /\ load[p].rowsSince = 0 /\ load[p].cursor = 0
        /\ load[p].replayed = <<>> /\ load[p].buffer = <<>> /\ reply[p] = None /\ stream = None
    BY DEF Init
  <2>2. Follows(load[p], scan)
    BY <2>1 DEF Follows, Lines
  <2>3. InOrder(load[p]) /\ OnlyDropped(load[p], stream)
    BY <2>1 DEF InOrder, OnlyDropped
  <2> QED
    BY <2>1, <2>2, <2>3 DEF PollerFine
<1> QED
  BY <1>2, <1>3, <1>4 DEF StreamInv

(* ... is kept by every step ... *)
LEMMA StreamSteps == ASSUME ProgressAssumption, StreamInv, [Next]_vars PROVE StreamInv'
<1>1. ASSUME NEW r \in Runs, Writer(r) PROVE StreamInv'
  <2>1. ServerInv /\ UNCHANGED Browser
    BY <1>1 DEF StreamInv, Writer, StartProgress, AppendEvent, AppendPartialRow, SetSummary,
                FinishProgress, Browser
  <2>2. CASE StartProgress(r)
    BY <2>1, <2>2, StartKeepsServer, ServerStep
  <2>3. ASSUME RunAdds(r) PROVE StreamInv'
    BY <2>1, <2>3, AddingKeepsServer, ServerStep
  <2>4. CASE AppendEvent(r)
    BY <2>1, <2>3, <2>4, EventIsAdded
  <2>5. CASE AppendPartialRow(r)
    BY <2>1, <2>3, <2>5, RowIsAdded
  <2>6. CASE SetSummary(r)
    BY <2>1, <2>3, <2>6, SummaryIsAdded
  <2>7. CASE \E status \in {"done", "error"} : FinishProgress(r, status)
    BY <2>1, <2>3, <2>7, OutcomeIsAdded
  <2> QED
    BY <1>1, <2>2, <2>4, <2>5, <2>6, <2>7 DEF Writer
<1>2. ASSUME NEW p \in Loads, Poller(p) PROVE StreamInv'
  BY <1>2, PollKeepsInv, ApplyKeepsInv, RequestKeepsInv DEF Poller
<1>3. CASE GoesQuiet \/ UNCHANGED vars
  <2>1. scan' = scan /\ stream' = stream /\ UNCHANGED Browser
    BY <1>3 DEF GoesQuiet, vars, Browser
  <2>2. quiet' \in BOOLEAN
    BY <1>3 DEF GoesQuiet, vars, StreamInv, ServerInv, ServerTypes
  <2> QED
    BY <2>1, <2>2, ServerStays, ServerStep DEF StreamInv
<1> QED
  BY <1>1, <1>2, <1>3 DEF Next

(* ... and so holds always. *)
LEMMA StreamAlways == Spec => []StreamInv
<1>1. Init => StreamInv
  BY StreamStarts, ProgressAssumption
<1>2. StreamInv /\ [Next]_vars => StreamInv'
  BY StreamSteps, ProgressAssumption
<1> QED
  BY <1>1, <1>2, PTL DEF Spec

-----------------------------------------------------------------------------
(* The theorems. *)

(* The stream of an endpoint is the last started run's, whole, and the     *)
(* server and its pollers are well formed, for any number of runs and      *)
(* loads and whatever the limits: append_progress_event and the other      *)
(* writers check the run under the lock, so a run that was replaced leaves *)
(* no trace in its successor's stream.                                     *)
THEOREM StreamsAreSound == Spec => []StreamSound
<1>1. StreamInv => StreamSound
  BY DEF StreamInv, ServerInv, ServerTypes, BrowserTypes, StreamSound, TypeOK, ScanRecord
<1> QED
  BY <1>1, StreamAlways, PTL

(* The rows a load falls back on are a prefix of one run's, each once and  *)
(* in order, whatever polls were lost: the row cursor moves with the rows  *)
(* and starts over with the run.                                           *)
THEOREM RowsArriveOnce == Spec => []RowsExactlyOnce
<1>1. StreamInv => RowsExactlyOnce
  <2>1. SUFFICES ASSUME StreamInv, NEW p \in Loads
                 PROVE  load[p].buffer = [n \in 1..load[p].rowsSince |-> [by |-> load[p].run, nr |-> n]]
    BY DEF RowsExactlyOnce
  <2>2. load[p].buffer = Lines(load[p].run, 0, load[p].rowsSince) /\ load[p].rowsSince \in Nat
    BY <2>1 DEF StreamInv, PollerFine, Follows, BrowserTypes, Load
  <2> QED
    BY <2>2 DEF Lines
<1> QED
  BY <1>1, StreamAlways, PTL

(* Events are replayed once, in order and of the run that is followed, and *)
(* only those the limit had dropped are passed over, however long a reply  *)
(* was under way.                                                          *)
THEOREM EventsArriveInOrder == Spec => []OnlyDroppedEventsMissed
<1>1. StreamInv => OnlyDroppedEventsMissed
  BY DEF StreamInv, PollerFine, InOrder, OnlyDropped, OnlyDroppedEventsMissed
<1> QED
  BY <1>1, StreamAlways, PTL

(* A load only ever turns to a run that started later than the one it      *)
(* follows.                                                                *)
THEOREM LoadsFollowForward == Spec => FollowsForward
<1>1. ASSUME StreamInv, [Next]_vars, NEW p \in Loads, load[p].run # None, load'[p].run # load[p].run
      PROVE  scan[load'[p].run].order > scan[load[p].run].order
  <2> DEFINE l == load[p]
             a == reply[p]
  <2>1. load \in [Loads -> Load]
    BY <1>1 DEF StreamInv, BrowserTypes
  <2>2. Apply(p)
    <3>1. load' # load /\ ~\E r \in Runs : Writer(r)
      BY <1>1 DEF Writer, StartProgress, AppendEvent, AppendPartialRow, SetSummary, FinishProgress, Browser
    <3>2. PICK q \in Loads : Poller(q)
      BY <1>1, <3>1 DEF Next, GoesQuiet, vars
    <3>3. ~BeginLoad(q) /\ ~\E ok \in BOOLEAN : Settle(q, ok)
      <4>1. \A s : load' # [load EXCEPT ![q].request = s]
        <5>1. TAKE s
        <5>2. [load[q] EXCEPT !.request = s].run = load[q].run
          BY <2>1 DEF Load
        <5>3. [load EXCEPT ![q].request = s][p].run = load[p].run
          BY <2>1, <5>2
        <5> QED
          BY <1>1, <5>3
      <4> QED
        BY <4>1 DEF BeginLoad, Settle
    <3>4. Apply(q)
      BY <3>1, <3>2, <3>3 DEF Poller, Poll, PollFails
    <3>5. q = p
      BY <1>1, <2>1, <3>4 DEF Apply
    <3> QED
      BY <3>4, <3>5
  <2>3. Fits(a, l, scan, stream) /\ a # None /\ l \in Load
    BY <1>1, <2>1, <2>2 DEF StreamInv, PollerFine, Apply
  <2>4. load'[p] = IF a.run \notin {None, l.run} THEN Follow(l, a.run) ELSE Absorb(l, a)
    BY <2>1, <2>2 DEF Apply
  <2>5. Absorb(l, a).run = l.run /\ Follow(l, a.run).run = a.run
    BY <2>3 DEF Absorb, Follow, Load
  <2>6. a.run \notin {None, l.run} /\ load'[p].run = a.run
    BY <1>1, <2>4, <2>5
  <2> QED
    BY <1>1, <2>3, <2>6 DEF Fits, Idle, GoesOn, Replaced
<1>2. StreamInv /\ [Next]_vars =>
        [\A p \in Loads : load[p].run # None /\ load'[p].run # load[p].run =>
             scan[load'[p].run].order > scan[load[p].run].order]_vars
  BY <1>1
<1> QED
  BY <1>2, StreamAlways, PTL DEF Spec, FollowsForward
=============================================================================
