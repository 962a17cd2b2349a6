----------------------------- MODULE LifecycleProofs ----------------------------
(***************************************************************************)
(* What holds of the ledger and of the process around it for any rows,     *)
(* tenants, batch bounds and buffer: no row is lost, the flush comes after *)
(* the drain and before the disconnect, an answered call keeps its row;    *)
(* and no row is in two places, the count is that of the rows held, and    *)
(* each subject's rows reach the stream in the order they were taken.      *)
(***************************************************************************)
EXTENDS Lifecycle, FiniteSetTheorems, TLAPS

Batches == [rows : SUBSET Rows, bytes : Nat]

Types ==
    /\ open \in [Subjects -> Batches]
    /\ ready \in Seq(Batches)
    /\ sending \in Batches
    /\ stream \in Seq(Batches)
    /\ fallback \subseteq Rows
    /\ recorded \in Seq(Rows)
    /\ closer \in {"none", "wait", "flush", "publish", "settle", "returned"}
    /\ closed \in BOOLEAN /\ failed \in BOOLEAN /\ cut \in BOOLEAN
    /\ call \in [Rows -> {"none", "running", "answered"}]

\* Where the flusher and Close are, and who may hold a batch.
FlushInv ==
    /\ closed <=> closer # "none"
    /\ closer \in {"none", "wait"} /\ flusher \in {"select", "drain", "done"}
            => sending = NoBatch
    /\ closer \in {"flush", "returned"} => sending = NoBatch
    /\ flusher = "done" => closer # "none"
    /\ closer \in {"flush", "publish", "settle", "returned"} =>
            flusher = "done" /\ \A s \in Subjects : open[s] = NoBatch
    /\ closer = "returned" => ready = <<>>
    /\ flusher = "settle" \/ closer = "settle" => sending.rows \subseteq Written

Ending == {"closing", "disconnected", "exited"}

\* Where Serve and its shutdown goroutine are.
DrainInv ==
    /\ closed => main \in Ending
    /\ main \in Ending /\ ~failed => drain = "drained"
    /\ drain = "drained" /\ ~cut => InFlight = {}
    /\ main \in {"disconnected", "exited"} => closer = "returned"

\* A call is answered after its row was handed over.
AnsweredRecorded == \A e \in Rows : call[e] = "answered" => e \in Recorded

\* The invariant of the process and its recorder.
IInv == Types /\ FlushInv /\ DrainInv /\ NoRowLost /\ AnsweredRecorded

--------------------------------------------------------------------------------
(* Rows of queues.                                                          *)

\* Sealing one batch adds its rows to the queue.
LEMMA RowsAppend ==
    ASSUME NEW q \in Seq(Batches), NEW b \in Batches
    PROVE  /\ Append(q, b) \in Seq(Batches)
           /\ RowsOf(Append(q, b)) = RowsOf(q) \cup b.rows
PROOF
<1>1. /\ Append(q, b) \in Seq(Batches)
      /\ Len(Append(q, b)) = Len(q) + 1
      /\ Len(q) \in Nat
      /\ Append(q, b)[Len(q) + 1] = b
      /\ \A i \in 1..Len(q) : Append(q, b)[i] = q[i]
    OBVIOUS
<1>2. 1..(Len(q) + 1) = (1..Len(q)) \cup {Len(q) + 1}
    BY <1>1
<1>3. ASSUME NEW e
      PROVE  e \in RowsOf(Append(q, b)) <=> e \in RowsOf(q) \/ e \in b.rows
    BY <1>1, <1>2 DEF RowsOf
<1> QED
    BY <1>1, <1>3

\* Popping the oldest batch takes its rows from the queue (publishReady).
LEMMA RowsTail ==
    ASSUME NEW q \in Seq(Batches), q # <<>>
    PROVE  /\ Tail(q) \in Seq(Batches) /\ Head(q) \in Batches
           /\ RowsOf(q) = Head(q).rows \cup RowsOf(Tail(q))
PROOF
<1>1. /\ Tail(q) \in Seq(Batches) /\ Head(q) \in Batches
      /\ Len(q) \in Nat /\ Len(q) > 0
      /\ Len(Tail(q)) = Len(q) - 1
      /\ Head(q) = q[1]
      /\ \A i \in 1..(Len(q) - 1) : Tail(q)[i] = q[i + 1]
    OBVIOUS
<1>2. ASSUME NEW e, e \in RowsOf(q)
      PROVE  e \in Head(q).rows \/ e \in RowsOf(Tail(q))
  <2>1. PICK i \in 1..Len(q) : e \in q[i].rows
      BY <1>2 DEF RowsOf
  <2>2. CASE i = 1
      BY <1>1, <2>1, <2>2
  <2>3. CASE i # 1
    <3>1. i - 1 \in 1..(Len(q) - 1) /\ Tail(q)[i - 1] = q[i]
        BY <1>1, <2>1, <2>3
    <3> QED
        BY <1>1, <2>1, <3>1 DEF RowsOf
  <2> QED
      BY <2>2, <2>3
<1>3. ASSUME NEW e, e \in Head(q).rows \/ e \in RowsOf(Tail(q))
      PROVE  e \in RowsOf(q)
  <2>1. CASE e \in Head(q).rows
      BY <1>1, <2>1 DEF RowsOf
  <2>2. CASE e \in RowsOf(Tail(q))
    <3>1. PICK i \in 1..(Len(q) - 1) : e \in Tail(q)[i].rows
        BY <1>1, <2>2 DEF RowsOf
    <3>2. i + 1 \in 1..Len(q) /\ e \in q[i + 1].rows
        BY <1>1, <3>1
    <3> QED
        BY <3>2 DEF RowsOf
  <2> QED
      BY <1>3, <2>1, <2>2
<1> QED
    BY <1>1, <1>2, <1>3

\* Sealing several batches adds their rows and no others.
LEMMA RowsConcat ==
    ASSUME NEW q \in Seq(Batches), NEW r \in Seq(Batches)
    PROVE  /\ q \o r \in Seq(Batches)
           /\ RowsOf(q \o r) = RowsOf(q) \cup RowsOf(r)
PROOF
<1> DEFINE c == q \o r
<1>1. /\ c \in Seq(Batches)
      /\ Len(q) \in Nat /\ Len(r) \in Nat
      /\ Len(c) = Len(q) + Len(r)
      /\ \A i \in 1..Len(q) : c[i] = q[i]
      /\ \A i \in 1..Len(r) : c[Len(q) + i] = r[i]
    OBVIOUS
<1> HIDE DEF c
<1>2. ASSUME NEW e, e \in RowsOf(q) PROVE e \in RowsOf(c)
  <2>1. PICK i \in 1..Len(q) : e \in q[i].rows
      BY <1>2 DEF RowsOf
  <2>2. i \in 1..Len(c) /\ e \in c[i].rows
      BY <1>1, <2>1
  <2> QED
      BY <2>2 DEF RowsOf
<1>3. ASSUME NEW e, e \in RowsOf(r) PROVE e \in RowsOf(c)
  <2>1. PICK i \in 1..Len(r) : e \in r[i].rows
      BY <1>3 DEF RowsOf
  <2>2. Len(q) + i \in 1..Len(c) /\ e \in c[Len(q) + i].rows
      BY <1>1, <2>1
  <2> QED
      BY <2>2 DEF RowsOf
<1>4. ASSUME NEW e, e \in RowsOf(c) PROVE e \in RowsOf(q) \/ e \in RowsOf(r)
  <2>1. PICK i \in 1..Len(c) : e \in c[i].rows
      BY <1>4 DEF RowsOf
  <2>2. CASE i <= Len(q)
    <3>1. i \in 1..Len(q) /\ e \in q[i].rows
        BY <1>1, <2>1, <2>2
    <3> QED
        BY <3>1 DEF RowsOf
  <2>3. CASE i > Len(q)
    <3>1. i - Len(q) \in 1..Len(r) /\ Len(q) + (i - Len(q)) = i
        BY <1>1, <2>3
    <3>2. e \in r[i - Len(q)].rows
        BY <1>1, <2>1, <3>1
    <3> QED
        BY <3>1, <3>2 DEF RowsOf
  <2> QED
      BY <1>1, <2>2, <2>3
<1> QED
    BY <1>1, <1>2, <1>3, <1>4 DEF c

\* sealAll moves every open batch to the queue, each once, in whatever order
\* the map yields the subjects.
LEMMA SealedBatches ==
    ASSUME Types, SealAll
    PROVE  \E r \in Seq(Batches) :
             /\ ready' = ready \o r
             /\ RowsOf(r) = InOpen
             /\ \A i, j \in 1..Len(r) : i # j =>
                    \E s, t \in Subjects : s # t /\ r[i] = open[s] /\ r[j] = open[t]
PROOF
<1> DEFINE full == {s \in Subjects : open[s] # NoBatch}
<1>1. PICK q \in SealOrders : ready' = ready \o [i \in DOMAIN q |-> open[q[i]]]
    BY DEF SealAll
<1> DEFINE n == Cardinality(full)
           sealed == [i \in DOMAIN q |-> open[q[i]]]
<1>2. IsFiniteSet(full) /\ n \in Nat
  <2>1. IsFiniteSet(Subjects) /\ full \subseteq Subjects
      BY RecorderAssumption
  <2> HIDE DEF full
  <2> QED
      BY <2>1, FS_Subset, FS_CardinalityType
<1>3. /\ q \in [1..n -> full]
      /\ \A s \in full : \E i \in DOMAIN q : q[i] = s
    BY <1>1 DEF SealOrders
<1>4. /\ DOMAIN q = 1..n
      /\ \A i \in 1..n : q[i] \in Subjects
    BY <1>3
<1>5. sealed = [i \in 1..n |-> open[q[i]]] /\ \A i \in 1..n : open[q[i]] \in Batches
    BY <1>4 DEF Types
<1>6. sealed \in Seq(Batches) /\ Len(sealed) = n
  <2> HIDE DEF n, full
  <2> QED
      BY <1>2, <1>5
<1>7. ASSUME NEW e, e \in InOpen PROVE e \in RowsOf(sealed)
  <2>1. PICK s \in Subjects : e \in open[s].rows
      BY <1>7 DEF InOpen
  <2>2. open[s] # NoBatch
      BY <2>1 DEF NoBatch
  <2>3. PICK i \in 1..n : q[i] = s
      BY <1>3, <1>4, <2>2
  <2>4. i \in 1..Len(sealed) /\ e \in sealed[i].rows
      BY <1>5, <1>6, <2>1, <2>3
  <2> QED
      BY <2>4 DEF RowsOf
<1>8. ASSUME NEW e, e \in RowsOf(sealed) PROVE e \in InOpen
  <2>1. PICK i \in 1..n : e \in open[q[i]].rows
      BY <1>5, <1>6, <1>8 DEF RowsOf
  <2> QED
      BY <1>4, <2>1 DEF InOpen
<1>9. \A i, j \in 1..n : q[i] = q[j] => i = j
  <2> HIDE DEF n
  <2>1. q \in Surjection(1..n, full)
      BY <1>3 DEF Surjection
  <2>2. IsFiniteSet(1..n) /\ Cardinality(1..n) = n
      BY <1>2, FS_Interval
  <2>3. Cardinality(full) = Cardinality(1..n)
      BY <2>2 DEF n
  <2> HIDE DEF full
  <2>4. q \in Injection(1..n, full)
      BY <2>1, <2>2, <2>3, FS_Surjection
  <2> QED
      BY <2>4 DEF Injection, IsInjective
<1>10. ASSUME NEW i \in 1..n, NEW j \in 1..n, i # j
       PROVE  \E s, t \in Subjects : s # t /\ sealed[i] = open[s] /\ sealed[j] = open[t]
    BY <1>4, <1>5, <1>9, <1>10
<1> QED
  <2>1. ready' = ready \o sealed /\ RowsOf(sealed) = InOpen
      BY <1>1, <1>7, <1>8
  <2> HIDE DEF sealed, n
  <2> QED
      BY <1>6, <1>10, <2>1

\* sealAll leaves no row of an open batch behind.
LEMMA SealAllKeepsRows ==
    ASSUME Types, SealAll
    PROVE  /\ ready' \in Seq(Batches)
           /\ open' \in [Subjects -> Batches]
           /\ \A s \in Subjects : open'[s] = NoBatch
           /\ RowsOf(ready') = InOpen \cup RowsOf(ready)
PROOF
<1>1. PICK r \in Seq(Batches) : ready' = ready \o r /\ RowsOf(r) = InOpen
    BY SealedBatches
<1>2. ready' \in Seq(Batches) /\ RowsOf(ready') = InOpen \cup RowsOf(ready)
    BY <1>1, RowsConcat DEF Types
<1>3. /\ open' \in [Subjects -> Batches]
      /\ \A s \in Subjects : open'[s] = NoBatch
    BY DEF SealAll, NoBatch, Batches
<1> QED
    BY <1>2, <1>3

\* Whatever a publish comes to, its rows are written (publish's fallback loop).
LEMMA PublishWrites ==
    ASSUME Types, PublishOutcome
    PROVE  /\ stream' \in Seq(Batches)
           /\ fallback' \subseteq Rows
           /\ Written \cup sending.rows \subseteq Written'
PROOF
<1>1. /\ Append(stream, sending) \in Seq(Batches)
      /\ RowsOf(Append(stream, sending)) = RowsOf(stream) \cup sending.rows
    BY RowsAppend DEF Types
<1>2. sending.rows \subseteq Rows
    BY DEF Types, Batches
<1>3. CASE stream' = Append(stream, sending) /\ UNCHANGED fallback
    BY <1>1, <1>3 DEF Types, Written
<1>4. CASE UNCHANGED stream /\ fallback' = fallback \cup sending.rows
    BY <1>2, <1>4 DEF Types, Written
<1>5. CASE stream' = Append(stream, sending) /\ fallback' = fallback \cup sending.rows
    BY <1>1, <1>2, <1>5 DEF Types, Written
<1> QED
    BY <1>3, <1>4, <1>5 DEF PublishOutcome

\* The row Record takes is the one that joins the history.
LEMMA RecordedGrows ==
    ASSUME recorded \in Seq(Rows), NEW e \in Rows, recorded' = Append(recorded, e)
    PROVE  recorded' \in Seq(Rows) /\ Recorded' = Recorded \cup {e}
PROOF
<1>1. /\ Append(recorded, e) \in Seq(Rows)
      /\ Len(Append(recorded, e)) = Len(recorded) + 1
      /\ Len(recorded) \in Nat
      /\ Append(recorded, e)[Len(recorded) + 1] = e
      /\ \A i \in 1..Len(recorded) : Append(recorded, e)[i] = recorded[i]
    OBVIOUS
<1>2. 1..(Len(recorded) + 1) = (1..Len(recorded)) \cup {Len(recorded) + 1}
    BY <1>1
<1>3. ASSUME NEW f PROVE f \in Recorded' <=> f \in Recorded \/ f = e
    BY <1>1, <1>2 DEF Recorded
<1> QED
    BY <1>1, <1>3

--------------------------------------------------------------------------------
(* Init and the steps.                                                      *)

\* The recorder is new and nothing has been called (Serve before its listener).
LEMMA InitHolds == LifeInit => IInv
PROOF
<1> SUFFICES ASSUME LifeInit PROVE IInv
    OBVIOUS
<1> USE DEF LifeInit, Init
<1>1. NoBatch \in Batches
    BY DEF NoBatch, Batches
<1>2. <<>> \in Seq(Batches) /\ <<>> \in Seq(Rows) /\ Len(<<>>) = 0
    OBVIOUS
<1>3. Types
    BY <1>1, <1>2 DEF Types
<1>4. FlushInv
    BY DEF FlushInv
<1>5. DrainInv
    BY DEF DrainInv, Ending
<1>6. Recorded = {}
    BY <1>2 DEF Recorded
<1> QED
    BY <1>3, <1>4, <1>5, <1>6 DEF IInv, NoRowLost, AnsweredRecorded

\* The steps of Serve and its shutdown goroutine, which leave the recorder alone.
ServeStep ==
    \/ Signal \/ BootFails \/ Booted \/ ListenFails \/ ServerClosed
    \/ ShutdownStarts \/ ShutdownEnds \/ Drained \/ Disconnect \/ Exit

\* No step of Serve reaches the deferred calls past a drain that is still owed.
LEMMA ServeSteps ==
    ASSUME IInv, ServeStep
    PROVE  IInv'
PROOF
<1> USE DEF IInv
<1>1. UNCHANGED vars /\ UNCHANGED call
    BY DEF ServeStep, Signal, BootFails, Booted, ListenFails, ServerClosed,
           ShutdownStarts, ShutdownEnds, Drained, Disconnect, Exit
<1>2. cut' \in BOOLEAN /\ failed' \in BOOLEAN
    BY DEF Types, ServeStep, Signal, BootFails, Booted, ListenFails, ServerClosed,
           ShutdownStarts, ShutdownEnds, Drained, Disconnect, Exit
<1>3. Types'
    BY <1>1, <1>2 DEF Types, vars
<1>4. FlushInv'
    BY <1>1 DEF FlushInv, vars, Written, RowsOf
<1>5. NoRowLost'
    BY <1>1 DEF NoRowLost, vars, Recorded, Held, InOpen, Written, RowsOf
<1>6. AnsweredRecorded'
    BY <1>1 DEF AnsweredRecorded, vars, Recorded
<1>7. DrainInv'
  <2> USE <1>1 DEF DrainInv, Ending, vars, InFlight, Moves
  <2>1. CASE Signal
      BY <2>1 DEF Signal
  <2>2. CASE BootFails
      BY <2>2 DEF BootFails
  <2>3. CASE Booted
      BY <2>3 DEF Booted
  <2>4. CASE ListenFails
      BY <2>4 DEF ListenFails
  <2>5. CASE ServerClosed
      BY <2>5 DEF ServerClosed
  <2>6. CASE ShutdownStarts
      BY <2>6 DEF ShutdownStarts
  <2>7. CASE ShutdownEnds
    <3>1. ~cut' => InFlight' = {}
        BY <2>7, Zenon DEF ShutdownEnds
    <3>2. drain = "stopping" /\ UNCHANGED <<closed, main, failed, closer>>
        BY <2>7 DEF ShutdownEnds
    <3> QED
        BY <3>1, <3>2
  <2>8. CASE Drained
      BY <2>8 DEF Drained
  <2>9. CASE Disconnect
      BY <2>9 DEF Disconnect
  <2>10. CASE Exit
      BY <2>10 DEF Exit
  <2> QED
      BY <2>1, <2>2, <2>3, <2>4, <2>5, <2>6, <2>7, <2>8, <2>9, <2>10 DEF ServeStep
<1> QED
    BY <1>3, <1>4, <1>5, <1>6, <1>7

\* A call is taken while no shutdown has begun.
LEMMA AcceptStep ==
    ASSUME IInv, NEW e \in Rows, Accept(e)
    PROVE  IInv'
PROOF
<1> USE DEF IInv
<1>1. /\ UNCHANGED <<vars, main, cancelled, drain, failed, cut>>
      /\ drain = "waiting"
      /\ call' = [call EXCEPT ![e] = "running"]
    BY DEF Accept
<1>2. Types'
    BY <1>1 DEF Types, vars
<1>3. FlushInv'
    BY <1>1 DEF FlushInv, vars, Written, RowsOf
<1>4. NoRowLost'
    BY <1>1 DEF NoRowLost, vars, Recorded, Held, InOpen, Written, RowsOf
<1>5. AnsweredRecorded'
  <2>1. Recorded' = Recorded
      BY <1>1 DEF vars, Recorded
  <2> QED
      BY <1>1, <2>1 DEF AnsweredRecorded, Types
<1>6. DrainInv'
    BY <1>1 DEF DrainInv, vars
<1> QED
    BY <1>2, <1>3, <1>4, <1>5, <1>6

\* A row handed over is held or written before its call is answered (Record).
LEMMA AnswerStep ==
    ASSUME IInv, NEW e \in Rows, Answer(e)
    PROVE  IInv'
PROOF
<1> USE DEF IInv
<1>1. /\ UNCHANGED <<main, cancelled, drain, failed, cut, closed, flusher, closer,
                     sending, stream>>
      /\ call' = [call EXCEPT ![e] = "answered"]
      /\ recorded' = Append(recorded, e)
    BY DEF Answer, RecordToFallback, RecordBuffered
<1>2. recorded' \in Seq(Rows) /\ Recorded' = Recorded \cup {e}
    BY <1>1, RecordedGrows DEF Types
<1>3. AnsweredRecorded'
    BY <1>1, <1>2 DEF AnsweredRecorded, Types
<1>4. DrainInv'
  <2>1. InFlight' \subseteq InFlight
      BY <1>1 DEF InFlight, Types
  <2> QED
      BY <1>1, <2>1 DEF DrainInv
<1>5. CASE RecordToFallback(e)
  <2>1. fallback' = fallback \cup {e} /\ UNCHANGED <<open, ready>>
      BY <1>5 DEF RecordToFallback
  <2>2. Types'
      BY <1>1, <1>2, <2>1 DEF Types
  <2>3. Held' = Held /\ Written' = Written \cup {e}
      BY <1>1, <2>1 DEF Held, InOpen, RowsOf, Written
  <2>4. FlushInv'
      BY <1>1, <2>1, <2>3 DEF FlushInv
  <2>5. NoRowLost'
      BY <1>2, <2>3 DEF NoRowLost
  <2> QED
      BY <1>3, <1>4, <2>2, <2>4, <2>5
<1>6. CASE RecordBuffered(e)
  <2> DEFINE s == SubjectOf[e]
             full == Overflows(open[s], e)
             b == AddRow(IF full THEN NoBatch ELSE open[s], e)
  <2>1. /\ s \in Subjects
        /\ ~closed
        /\ UNCHANGED fallback
        /\ ready' = IF full THEN Append(ready, open[s]) ELSE ready
        /\ open' = [open EXCEPT ![s] = b]
    <3>1. s \in Subjects
        BY RecorderAssumption
    <3> QED
        BY <1>6, <3>1, Zenon DEF RecordBuffered, Bypasses
  <2>2. /\ open[s] \in Batches /\ SizeOf[e] \in Nat
        /\ NoBatch \in Batches
      BY <2>1, RecorderAssumption DEF Types, NoBatch, Batches
  <2>3. /\ b \in Batches
        /\ e \in b.rows
        /\ ~full => open[s].rows \subseteq b.rows
    <3> HIDE DEF full, s
    <3> QED
        BY <2>2 DEF AddRow, Batches
  <2>4. /\ ready' \in Seq(Batches)
        /\ RowsOf(ready) \subseteq RowsOf(ready')
        /\ full => open[s].rows \subseteq RowsOf(ready')
    <3> HIDE DEF full, s
    <3>1. ready \in Seq(Batches)
        BY DEF Types
    <3>2. CASE full
        BY <2>1, <2>2, <3>1, <3>2, RowsAppend
    <3>3. CASE ~full
        BY <2>1, <3>1, <3>3
    <3> QED
        BY <3>2, <3>3
  <2> HIDE DEF full, s, b
  <2>5. open' \in [Subjects -> Batches] /\ open'[s] = b
      BY <2>1, <2>3 DEF Types
  <2>6. ASSUME NEW f, f \in InOpen PROVE f \in InOpen' \/ f \in RowsOf(ready')
    <3>1. PICK t \in Subjects : f \in open[t].rows
        BY <2>6 DEF InOpen
    <3>2. CASE t = s
        BY <2>1, <2>3, <2>4, <2>5, <3>1, <3>2 DEF InOpen
    <3>3. CASE t # s
      <4>1. open'[t] = open[t]
          BY <2>1, <3>1, <3>3 DEF Types
      <4> QED
          BY <3>1, <4>1 DEF InOpen
    <3> QED
        BY <3>2, <3>3
  <2>7. e \in InOpen'
      BY <2>1, <2>3, <2>5 DEF InOpen
  <2>8. Written' = Written
      BY <1>1, <2>1 DEF Written, RowsOf
  <2>9. Held \cup {e} \subseteq Held'
      BY <1>1, <2>4, <2>6, <2>7 DEF Held
  <2>10. NoRowLost'
      BY <1>2, <2>8, <2>9 DEF NoRowLost
  <2>11. Types'
      BY <1>1, <1>2, <2>1, <2>4, <2>5 DEF Types
  <2>12. FlushInv'
      BY <1>1, <2>1, <2>8 DEF FlushInv
  <2> QED
      BY <1>3, <1>4, <2>10, <2>11, <2>12
<1> QED
    BY <1>5, <1>6 DEF Answer

\* What a step of the flusher or of Close has to keep: nothing is recorded, so
\* no row is lost if none leaves the buffer unwritten.
LEMMA RecorderKeeps ==
    ASSUME IInv, UNCHANGED <<procVars, recorded>>,
           Types', FlushInv',
           closed' => closed \/ main = "closing",
           closer = "returned" => closer' = "returned",
           Held \cup Written \subseteq Held' \cup Written'
    PROVE  IInv'
PROOF
<1> USE DEF IInv
<1>1. Recorded' = Recorded
    BY DEF Recorded
<1>2. NoRowLost' /\ AnsweredRecorded'
    BY <1>1 DEF NoRowLost, AnsweredRecorded, procVars
<1>3. DrainInv'
    BY DEF DrainInv, Ending, InFlight, procVars
<1> QED
    BY <1>2, <1>3

\* Sealing, by the ticker or by Close.
LEMMA SealSteps ==
    ASSUME IInv, UNCHANGED procVars, Tick \/ CloseSeal
    PROVE  IInv'
PROOF
<1> USE DEF IInv
<1>1. /\ SealAll
      /\ UNCHANGED <<buffered, closed, wake, sending, stream, fallback, recorded>>
      /\ \/ flusher = "select" /\ flusher' = "drain" /\ closer' = closer
         \/ closer = "wait" /\ flusher = "done" /\ flusher' = "done" /\ closer' = "flush"
    BY DEF Tick, CloseSeal
<1>2. /\ ready' \in Seq(Batches)
      /\ open' \in [Subjects -> Batches]
      /\ \A s \in Subjects : open'[s] = NoBatch
      /\ RowsOf(ready') = InOpen \cup RowsOf(ready)
    BY <1>1, SealAllKeepsRows
<1>3. Written' = Written
    BY <1>1 DEF Written, RowsOf
<1>4. Held \subseteq Held'
    BY <1>1, <1>2 DEF Held
<1>5. Types'
    BY <1>1, <1>2 DEF Types, procVars
<1>6. FlushInv'
  <2>1. CASE flusher = "select" /\ flusher' = "drain" /\ closer' = closer
      BY <1>1, <1>2, <1>3, <2>1 DEF FlushInv, Types
  <2>2. CASE closer = "wait" /\ flusher = "done" /\ flusher' = "done" /\ closer' = "flush"
      BY <1>1, <1>2, <1>3, <2>2 DEF FlushInv, Types
  <2> QED
      BY <1>1, <2>1, <2>2
<1> QED
    BY <1>1, <1>3, <1>4, <1>5, <1>6, RecorderKeeps, Zenon DEF FlushInv

\* The oldest sealed batch goes from the queue into the hands of publish.
LEMMA TakeSteps ==
    ASSUME IInv, UNCHANGED procVars, DrainTake \/ CloseTake
    PROVE  IInv'
PROOF
<1> USE DEF IInv
<1>1. /\ ready # <<>> /\ sending' = Head(ready) /\ ready' = Tail(ready)
      /\ UNCHANGED <<open, buffered, closed, wake, stream, fallback, recorded>>
      /\ \/ flusher = "drain" /\ flusher' = "publish" /\ closer' = closer
         \/ closer = "flush" /\ closer' = "publish" /\ flusher' = flusher
    BY DEF DrainTake, CloseTake, TakeReady
<1>2. /\ ready' \in Seq(Batches) /\ sending' \in Batches
      /\ RowsOf(ready) = sending'.rows \cup RowsOf(ready')
    BY <1>1, RowsTail DEF Types
<1>3. sending = NoBatch
    BY <1>1 DEF FlushInv, Types
<1>4. Written' = Written
    BY <1>1 DEF Written, RowsOf
<1>5. Held \subseteq Held'
  <2>1. InOpen' = InOpen
      BY <1>1 DEF InOpen
  <2> QED
      BY <1>2, <1>3, <2>1 DEF Held, NoBatch
<1>6. Types'
    BY <1>1, <1>2 DEF Types, procVars
<1>7. FlushInv'
    BY <1>1, <1>4 DEF FlushInv, Types
<1>8. closer = "returned" => closer' = "returned"
    BY <1>1
<1> QED
    BY <1>1, <1>4, <1>5, <1>6, <1>7, <1>8, RecorderKeeps

\* The broker's answer, or the lack of one.
LEMMA PublishSteps ==
    ASSUME IInv, UNCHANGED procVars, DrainPublish \/ ClosePublish
    PROVE  IInv'
PROOF
<1> USE DEF IInv
<1>1. /\ PublishOutcome
      /\ UNCHANGED <<open, ready, buffered, closed, wake, sending, recorded>>
      /\ \/ flusher = "publish" /\ flusher' = "settle" /\ closer' = closer
         \/ closer = "publish" /\ closer' = "settle" /\ flusher' = flusher
    BY DEF DrainPublish, ClosePublish
<1>2. /\ stream' \in Seq(Batches) /\ fallback' \subseteq Rows
      /\ Written \cup sending.rows \subseteq Written'
    BY <1>1, PublishWrites
<1>3. Held' = Held
    BY <1>1 DEF Held, InOpen, RowsOf
<1>4. Types'
    BY <1>1, <1>2 DEF Types, procVars
<1>5. FlushInv'
    BY <1>1, <1>2 DEF FlushInv, Types
<1>6. closer = "returned" => closer' = "returned"
    BY <1>1
<1> QED
    BY <1>1, <1>2, <1>3, <1>4, <1>5, <1>6, RecorderKeeps

\* The count is given back and the batch let go: its rows are written by then.
LEMMA SettleSteps ==
    ASSUME IInv, UNCHANGED procVars, DrainSettle \/ CloseSettle
    PROVE  IInv'
PROOF
<1> USE DEF IInv
<1>1. /\ sending' = NoBatch
      /\ UNCHANGED <<open, ready, closed, wake, stream, fallback, recorded>>
      /\ \/ flusher = "settle" /\ flusher' = "drain" /\ closer' = closer
         \/ closer = "settle" /\ closer' = "flush" /\ flusher' = flusher
    BY DEF DrainSettle, CloseSettle, Settle
<1>2. sending.rows \subseteq Written
    BY <1>1 DEF FlushInv
<1>3. Written' = Written
    BY <1>1 DEF Written, RowsOf
<1>4. Held \subseteq Held' \cup Written
  <2>1. InOpen' = InOpen /\ RowsOf(ready') = RowsOf(ready)
      BY <1>1 DEF InOpen, RowsOf
  <2> QED
      BY <1>2, <2>1 DEF Held
<1>5. Types'
    BY <1>1 DEF Types, procVars, NoBatch, Batches
<1>6. FlushInv'
    BY <1>1, <1>3 DEF FlushInv, Types, NoBatch
<1>7. closer = "returned" => closer' = "returned"
    BY <1>1
<1> QED
    BY <1>1, <1>3, <1>4, <1>5, <1>6, <1>7, RecorderKeeps

\* The steps that move only the flusher and Close.
LEMMA ControlSteps ==
    ASSUME IInv, UNCHANGED procVars,
           Woken \/ Stopped \/ DrainEmpty \/ CloseReturn \/ CloseRecord
    PROVE  IInv'
PROOF
<1> USE DEF IInv
<1>1. UNCHANGED <<open, ready, buffered, sending, stream, fallback, recorded>>
    BY DEF Woken, Stopped, DrainEmpty, CloseReturn, CloseRecord, CloseStart
<1>2. Written' = Written /\ Held' = Held
    BY <1>1 DEF Written, Held, InOpen, RowsOf
<1>3. Types' /\ FlushInv' /\ (closed' => closed \/ main = "closing")
      /\ (closer = "returned" => closer' = "returned")
  <2>1. CASE Woken
      BY <1>1, <1>2, <2>1 DEF Woken, Types, FlushInv, procVars
  <2>2. CASE Stopped
      BY <1>1, <1>2, <2>2 DEF Stopped, Types, FlushInv, procVars
  <2>3. CASE DrainEmpty
      BY <1>1, <1>2, <2>3 DEF DrainEmpty, Types, FlushInv, procVars
  <2>4. CASE CloseReturn
      BY <1>1, <1>2, <2>4 DEF CloseReturn, Types, FlushInv, procVars
  <2>5. CASE CloseRecord
      BY <1>1, <1>2, <2>5 DEF CloseRecord, CloseStart, Types, FlushInv, procVars
  <2> QED
      BY <2>1, <2>2, <2>3, <2>4, <2>5
<1> QED
    BY <1>1, <1>2, <1>3, RecorderKeeps

--------------------------------------------------------------------------------
(* The theorems.                                                            *)

\* IInv holds in every state of the recorder and of the process around it.
THEOREM LifeInvariant == LifeSpec => []IInv
PROOF
<1>1. IInv /\ [LifeNext]_allVars => IInv'
  <2> SUFFICES ASSUME IInv, [LifeNext]_allVars PROVE IInv'
      OBVIOUS
  <2>1. CASE ServeStep
      BY <2>1, ServeSteps
  <2>2. ASSUME NEW e \in Rows, Accept(e) PROVE IInv'
      BY <2>2, AcceptStep
  <2>3. ASSUME NEW e \in Rows, Answer(e) PROVE IInv'
      BY <2>3, AnswerStep
  <2>4. CASE CloseRecord
      BY <2>4, ControlSteps DEF CloseRecord
  <2>5. CASE Running(Run)
    <3>1. UNCHANGED procVars /\ Run
        BY <2>5 DEF Running
    <3> QED
        BY <3>1, SealSteps, TakeSteps, PublishSteps, SettleSteps, ControlSteps DEF Run
  <2>6. CASE Running(Closes)
    <3>1. UNCHANGED procVars /\ Closes
        BY <2>6 DEF Running
    <3> QED
        BY <3>1, SealSteps, TakeSteps, PublishSteps, SettleSteps, ControlSteps DEF Closes
  <2>7. CASE UNCHANGED allVars
    <3>1. UNCHANGED vars /\ UNCHANGED procVars
        BY <2>7 DEF allVars
    <3>2. Types' /\ FlushInv'
        BY <3>1 DEF vars, procVars, IInv, Types, FlushInv, Written, RowsOf
    <3>3. Held' = Held /\ Written' = Written
        BY <3>1 DEF vars, Held, InOpen, Written, RowsOf
    <3> QED
        BY <3>1, <3>2, <3>3, RecorderKeeps DEF vars
  <2> QED
      BY <2>1, <2>2, <2>3, <2>4, <2>5, <2>6, <2>7 DEF LifeNext, ServeStep
<1> QED
    BY InitHolds, <1>1, PTL DEF LifeSpec

\* "Nil would mean those events are simply lost" (recorder.go, Config.Fallback):
\* for any batch bounds, buffer and tenants, and through any broker, a row
\* Record took is held or written.
THEOREM RowsNeverLost == LifeSpec => []NoRowLost
PROOF
<1>1. IInv => NoRowLost
    BY DEF IInv
<1> QED
    BY <1>1, LifeInvariant, PTL

\* "The buffered ledger is flushed AFTER that" (serve.go): an orderly shutdown
\* closes the recorder with no call in flight.
THEOREM DrainPrecedesFlush == LifeSpec => []FlushAfterDrain
PROOF
<1>1. IInv => FlushAfterDrain
    BY DEF IInv, DrainInv, FlushAfterDrain
<1> QED
    BY <1>1, LifeInvariant, PTL

\* The deferred calls run in an order that leaves the flush its connection.
THEOREM FlushPrecedesDisconnect == LifeSpec => []FlushBeforeDisconnect
PROOF
<1>1. IInv => FlushBeforeDisconnect
    BY DEF IInv, DrainInv, FlushInv, FlushBeforeDisconnect
<1> QED
    BY <1>1, LifeInvariant, PTL

\* A caller that was answered before the process ended has its row, whatever
\* failed on the way.
THEOREM AnsweredSurvive == LifeSpec => []AnsweredRowsSurvive
PROOF
<1>1. IInv => AnsweredRowsSurvive
  <2> SUFFICES ASSUME IInv, main = "exited", NEW e \in Rows, call[e] = "answered"
               PROVE  e \in Written
      BY DEF AnsweredRowsSurvive
  <2>1. /\ ready = <<>> /\ sending = NoBatch
        /\ \A s \in Subjects : open[s] = NoBatch
      BY DEF IInv, DrainInv, FlushInv
  <2>2. Held = {}
    <3>1. InOpen = {} /\ sending.rows = {}
        BY <2>1 DEF InOpen, NoBatch
    <3>2. RowsOf(ready) = {}
        BY <2>1 DEF RowsOf
    <3> QED
        BY <3>1, <3>2 DEF Held
  <2>3. e \in Recorded
      BY DEF IInv, AnsweredRecorded
  <2> QED
      BY <2>2, <2>3 DEF IInv, NoRowLost
<1> QED
    BY <1>1, LifeInvariant, PTL

--------------------------------------------------------------------------------
(* The order of the rows.  Wherever two rows of one subject are, the older   *)
(* one is further on its way, so no row is in two places and the stream is   *)
(* in order.                                                                 *)

\* The pairs of rows that are of different subjects or in the order Record
\* took them in.
Early == {p \in Rows \X Rows :
            SubjectOf[p[1]] = SubjectOf[p[2]] => RecordedAt(p[1]) < RecordedAt(p[2])}

\* All of one set of rows come before all of another.
Before(P, A, B) == \A x \in A, y \in B : <<x, y>> \in P

\* The batches of a queue are in order.
Sorted(P, q) == \A i, j \in 1..Len(q) : i < j => Before(P, q[i].rows, q[j].rows)

\* The batch in sending is on its way to the stream.
Publishing == flusher = "publish" \/ closer = "publish"

\* Record takes no row twice.
TakenOnce == \A i, j \in 1..Len(recorded) : recorded[i] = recorded[j] => i = j

\* Every row anywhere was taken, and waits in the batch of its own subject.
PlaceInv ==
    /\ Held \cup Written \subseteq Recorded
    /\ \A s \in Subjects : \A x \in open[s].rows : SubjectOf[x] = s
    /\ fallback \cap (InOpen \cup RowsOf(ready)) = {}

\* Stream, the batch being published, queue, open batch: oldest first.
RankInv ==
    /\ Sorted(Early, stream)
    /\ Sorted(Early, ready)
    /\ Before(Early, RowsOf(stream) \cup sending.rows, RowsOf(ready))
    /\ Before(Early, RowsOf(stream) \cup sending.rows \cup RowsOf(ready), InOpen)
    /\ Publishing => Before(Early, RowsOf(stream), sending.rows)

\* The counter is the number of rows held.
CountInv == IsFiniteSet(Held) /\ buffered = Cardinality(Held)

\* The invariant of the recorder's order.
OrderInv == TakenOnce /\ PlaceInv /\ RankInv /\ CountInv

\* What Early says of one pair.
LEMMA EarlyPair ==
    ASSUME NEW x \in Rows, NEW y \in Rows
    PROVE  <<x, y>> \in Early <=>
             (SubjectOf[x] = SubjectOf[y] => RecordedAt(x) < RecordedAt(y))
PROOF
    BY DEF Early

\* A row was recorded at one place, a number.
LEMMA RecordedPlace ==
    ASSUME TakenOnce, recorded \in Seq(Rows), NEW k \in 1..Len(recorded)
    PROVE  RecordedAt(recorded[k]) = k
PROOF
    BY DEF TakenOnce, RecordedAt

\* No row is before itself.
LEMMA EarlyStrict ==
    ASSUME TakenOnce, recorded \in Seq(Rows), NEW x \in Recorded
    PROVE  <<x, x>> \notin Early
PROOF
<1>1. PICK k \in 1..Len(recorded) : recorded[k] = x
    BY DEF Recorded
<1>2. RecordedAt(x) = k /\ x \in Rows /\ k \in Nat
    BY <1>1, RecordedPlace
<1> QED
    BY <1>2, EarlyPair

\* Record appends: the rows taken before keep their order, and the new row
\* comes after all of them.
LEMMA EarlyGrows ==
    ASSUME TakenOnce, recorded \in Seq(Rows), NEW e \in Rows, IsNew(e),
           recorded' = Append(recorded, e)
    PROVE  /\ TakenOnce'
           /\ \A x, y \in Recorded : <<x, y>> \in Early => <<x, y>> \in Early'
           /\ \A x \in Recorded : <<x, e>> \in Early'
PROOF
<1> DEFINE n == Len(recorded)
<1>1. /\ recorded' \in Seq(Rows)
      /\ Len(recorded') = n + 1
      /\ n \in Nat
      /\ recorded'[n + 1] = e
      /\ \A i \in 1..n : recorded'[i] = recorded[i]
      /\ \A i \in 1..n : recorded[i] # e
    BY DEF IsNew
<1> HIDE DEF n
<1>2. \A i \in 1..(n + 1) : i \in 1..n \/ i = n + 1
    BY <1>1
<1>3. TakenOnce'
    BY <1>1, <1>2 DEF TakenOnce, n
<1>4. ASSUME NEW x, NEW k \in 1..(n + 1), recorded'[k] = x
      PROVE  RecordedAt(x)' = k
    BY <1>1, <1>3, <1>4 DEF TakenOnce, RecordedAt
<1>5. \A x \in Recorded : \E k \in 1..n : x = recorded[k]
    BY DEF Recorded, n
<1>6. \A k \in 1..n : RecordedAt(recorded[k]) = k
    BY RecordedPlace DEF n
<1>7. ASSUME NEW x \in Recorded, NEW y \in Recorded, <<x, y>> \in Early
      PROVE  <<x, y>> \in Early'
  <2>1. PICK i \in 1..n : x = recorded[i]
      BY <1>5
  <2>2. PICK j \in 1..n : y = recorded[j]
      BY <1>5
  <2>3. RecordedAt(x) = i /\ RecordedAt(y) = j
      BY <1>6, <2>1, <2>2
  <2>4. RecordedAt(x)' = i /\ RecordedAt(y)' = j
      BY <1>1, <1>4, <2>1, <2>2
  <2> QED
      BY <1>7, <2>3, <2>4 DEF Early
<1>8. ASSUME NEW x \in Recorded PROVE <<x, e>> \in Early'
  <2>1. PICK i \in 1..n : x = recorded[i]
      BY <1>5
  <2>2. RecordedAt(x)' = i /\ RecordedAt(e)' = n + 1
      BY <1>1, <1>4, <2>1
  <2>3. x \in Rows /\ i < n + 1
      BY <1>1, <2>1 DEF n
  <2> QED
      BY <2>2, <2>3 DEF Early
<1> QED
    BY <1>3, <1>7, <1>8

\* A sealed batch joins the end of the queue.
LEMMA SortedAppend ==
    ASSUME NEW P, NEW q \in Seq(Batches), NEW b \in Batches,
           Sorted(P, q), Before(P, RowsOf(q), b.rows)
    PROVE  Sorted(P, Append(q, b))
PROOF
<1>1. /\ Len(Append(q, b)) = Len(q) + 1
      /\ Len(q) \in Nat
      /\ Append(q, b)[Len(q) + 1] = b
      /\ \A i \in 1..Len(q) : Append(q, b)[i] = q[i]
    OBVIOUS
<1> DEFINE r == Append(q, b)
<1> HIDE DEF r
<1> SUFFICES ASSUME NEW i \in 1..(Len(q) + 1), NEW j \in 1..(Len(q) + 1), i < j
             PROVE  Before(P, r[i].rows, r[j].rows)
    BY <1>1 DEF Sorted, r
<1>2. i \in 1..Len(q) /\ r[i] = q[i]
    BY <1>1 DEF r
<1>3. CASE j = Len(q) + 1
  <2>1. r[j] = b /\ q[i].rows \subseteq RowsOf(q)
      BY <1>1, <1>2, <1>3 DEF RowsOf, r
  <2> QED
      BY <1>2, <2>1 DEF Before
<1>4. CASE j # Len(q) + 1
  <2>1. j \in 1..Len(q) /\ r[j] = q[j]
      BY <1>1, <1>4 DEF r
  <2> QED
      BY <1>2, <2>1 DEF Sorted
<1> QED
    BY <1>3, <1>4

\* The oldest batch comes before the rest of the queue.
LEMMA SortedTail ==
    ASSUME NEW P, NEW q \in Seq(Batches), q # <<>>, Sorted(P, q)
    PROVE  Sorted(P, Tail(q)) /\ Before(P, Head(q).rows, RowsOf(Tail(q)))
PROOF
<1> DEFINE r == Tail(q)
<1>1. /\ Len(q) \in Nat /\ Len(q) > 0
      /\ Len(r) = Len(q) - 1
      /\ Head(q) = q[1]
      /\ \A i \in 1..(Len(q) - 1) : r[i] = q[i + 1]
    OBVIOUS
<1> HIDE DEF r
<1>2. \A i \in 1..Len(r) : i + 1 \in 1..Len(q) /\ r[i] = q[i + 1] /\ 1 < i + 1 /\ i \in Nat
    BY <1>1
<1>3. Sorted(P, r)
  <2> SUFFICES ASSUME NEW i \in 1..Len(r), NEW j \in 1..Len(r), i < j
               PROVE  Before(P, r[i].rows, r[j].rows)
      BY DEF Sorted
  <2>1. i + 1 \in 1..Len(q) /\ j + 1 \in 1..Len(q) /\ i + 1 < j + 1
      BY <1>2
  <2>2. Before(P, q[i + 1].rows, q[j + 1].rows)
      BY <2>1 DEF Sorted
  <2> QED
      BY <1>2, <2>2
<1>4. ASSUME NEW y \in RowsOf(r) PROVE \A x \in Head(q).rows : <<x, y>> \in P
  <2>1. PICK i \in 1..Len(r) : y \in r[i].rows
      BY DEF RowsOf
  <2>2. 1 \in 1..Len(q)
      BY <1>1
  <2>3. Before(P, q[1].rows, q[i + 1].rows)
      BY <1>2, <2>2 DEF Sorted
  <2> QED
      BY <1>1, <1>2, <2>1, <2>3 DEF Before
<1> QED
    BY <1>3, <1>4 DEF Before, r

\* Batches sealed together follow those sealed before them.
LEMMA SortedConcat ==
    ASSUME NEW P, NEW q \in Seq(Batches), NEW r \in Seq(Batches),
           Sorted(P, q), Sorted(P, r), Before(P, RowsOf(q), RowsOf(r))
    PROVE  Sorted(P, q \o r)
PROOF
<1> DEFINE c == q \o r
<1>1. /\ Len(q) \in Nat /\ Len(r) \in Nat
      /\ Len(c) = Len(q) + Len(r)
      /\ \A i \in 1..Len(q) : c[i] = q[i]
      /\ \A i \in 1..Len(r) : c[Len(q) + i] = r[i]
    OBVIOUS
<1> HIDE DEF c
<1>2. ASSUME NEW i \in 1..Len(c)
      PROVE  \/ i \in 1..Len(q) /\ c[i] = q[i]
             \/ i - Len(q) \in 1..Len(r) /\ c[i] = r[i - Len(q)] /\ i > Len(q)
  <2>1. CASE i <= Len(q)
      BY <1>1, <2>1
  <2>2. CASE i > Len(q)
    <3>1. i - Len(q) \in 1..Len(r) /\ Len(q) + (i - Len(q)) = i
        BY <1>1, <2>2
    <3> QED
        BY <1>1, <2>2, <3>1
  <2> QED
      BY <1>1, <2>1, <2>2
<1> SUFFICES ASSUME NEW i \in 1..Len(c), NEW j \in 1..Len(c), i < j
             PROVE  Before(P, c[i].rows, c[j].rows)
    BY DEF Sorted, c
<1>3. CASE j \in 1..Len(q) /\ c[j] = q[j]
  <2>1. i \in 1..Len(q) /\ c[i] = q[i]
      BY <1>1, <1>2, <1>3
  <2> QED
      BY <1>3, <2>1 DEF Sorted
<1>4. CASE j - Len(q) \in 1..Len(r) /\ c[j] = r[j - Len(q)] /\ j > Len(q)
  <2>1. CASE i \in 1..Len(q) /\ c[i] = q[i]
    <3>1. c[i].rows \subseteq RowsOf(q) /\ c[j].rows \subseteq RowsOf(r)
        BY <1>4, <2>1 DEF RowsOf
    <3> QED
        BY <3>1 DEF Before
  <2>2. CASE i - Len(q) \in 1..Len(r) /\ c[i] = r[i - Len(q)]
    <3>1. i - Len(q) < j - Len(q)
        BY <1>1
    <3> QED
        BY <1>4, <2>2, <3>1 DEF Sorted
  <2> QED
      BY <1>2, <2>1, <2>2
<1> QED
    BY <1>2, <1>3, <1>4

\* An order that keeps the pairs of the rows queued keeps the queue sorted.
LEMMA SortedKept ==
    ASSUME NEW P, NEW Q, NEW q, Sorted(P, q),
           \A x, y \in RowsOf(q) : <<x, y>> \in P => <<x, y>> \in Q
    PROVE  Sorted(Q, q)
PROOF
<1> SUFFICES ASSUME NEW i \in 1..Len(q), NEW j \in 1..Len(q), i < j,
                    NEW x \in q[i].rows, NEW y \in q[j].rows
             PROVE  <<x, y>> \in Q
    BY DEF Sorted, Before
<1>1. x \in RowsOf(q) /\ y \in RowsOf(q)
    BY DEF RowsOf
<1>2. <<x, y>> \in P
    BY DEF Sorted, Before
<1> QED
    BY <1>1, <1>2

\* The order is that of the history alone.
LEMMA EarlyKept ==
    UNCHANGED recorded => Early' = Early /\ Recorded' = Recorded /\ TakenOnce' = TakenOnce
PROOF
    BY DEF Early, RecordedAt, Recorded, TakenOnce

\* Where rows are is a matter of the queues alone.
LEMMA PlacesKept ==
    /\ UNCHANGED open => InOpen' = InOpen
    /\ UNCHANGED ready => RowsOf(ready)' = RowsOf(ready)
    /\ UNCHANGED stream => RowsOf(stream)' = RowsOf(stream)
    /\ UNCHANGED ready /\ UNCHANGED recorded => Sorted(Early, ready)' = Sorted(Early, ready)
    /\ UNCHANGED stream /\ UNCHANGED recorded => Sorted(Early, stream)' = Sorted(Early, stream)
PROOF
    BY EarlyKept DEF InOpen, RowsOf, Sorted, Before

\* The steps that move no row, and begin no publish.
LEMMA StillInOrder ==
    ASSUME IInv, OrderInv,
           UNCHANGED <<open, ready, buffered, sending, stream, fallback, recorded>>,
           Publishing' => Publishing
    PROVE  OrderInv'
PROOF
<1> USE DEF OrderInv
<1>1. Held' = Held /\ Written' = Written
    BY PlacesKept DEF Held, Written
<1>2. TakenOnce'
    BY EarlyKept
<1>3. PlaceInv'
    BY <1>1, EarlyKept, PlacesKept DEF PlaceInv
<1>4. RankInv'
    BY EarlyKept, PlacesKept DEF RankInv, Before
<1>5. CountInv'
    BY <1>1 DEF CountInv
<1> QED
    BY <1>2, <1>3, <1>4, <1>5

\* Batches sealed together are of different subjects, and what was sealed
\* before them is older (sealAll).
LEMMA SealInOrder ==
    ASSUME IInv, OrderInv, SealAll,
           UNCHANGED <<buffered, sending, stream, fallback, recorded>>,
           Publishing' => Publishing
    PROVE  OrderInv'
PROOF
<1> USE DEF OrderInv
<1>1. Types
    BY DEF IInv
<1>2. /\ \A s \in Subjects : open'[s] = NoBatch
      /\ RowsOf(ready') = InOpen \cup RowsOf(ready)
    BY <1>1, SealAllKeepsRows
<1>3. InOpen' = {}
    BY <1>2 DEF InOpen, NoBatch
<1>4. Held' = Held /\ Written' = Written
    BY <1>2, <1>3, PlacesKept DEF Held, Written
<1>5. PICK r \in Seq(Batches) :
             /\ ready' = ready \o r
             /\ RowsOf(r) = InOpen
             /\ \A i, j \in 1..Len(r) : i # j =>
                    \E s, t \in Subjects : s # t /\ r[i] = open[s] /\ r[j] = open[t]
    BY <1>1, SealedBatches
<1>6. Sorted(Early, r)
  <2> SUFFICES ASSUME NEW i \in 1..Len(r), NEW j \in 1..Len(r), i < j,
                      NEW x \in r[i].rows, NEW y \in r[j].rows
               PROVE  <<x, y>> \in Early
      BY DEF Sorted, Before
  <2>1. i # j
      OBVIOUS
  <2>2. PICK s \in Subjects, t \in Subjects : s # t /\ r[i] = open[s] /\ r[j] = open[t]
      BY <1>5, <2>1
  <2>3. SubjectOf[x] = s /\ SubjectOf[y] = t /\ x \in Rows /\ y \in Rows
      BY <1>1, <2>2 DEF PlaceInv, Types, Batches
  <2> QED
      BY <2>2, <2>3, EarlyPair
<1>7. Sorted(Early, ready \o r)
  <2>1. ready \in Seq(Batches) /\ Sorted(Early, ready)
        /\ Before(Early, RowsOf(ready), RowsOf(r))
      BY <1>1, <1>5 DEF Types, RankInv, Before
  <2> QED
      BY <1>6, <2>1, SortedConcat
<1>8. TakenOnce'
    BY EarlyKept
<1>9. PlaceInv'
  <2>1. \A s \in Subjects : open'[s].rows = {}
      BY <1>2 DEF NoBatch
  <2> QED
      BY <1>2, <1>3, <1>4, <2>1, EarlyKept DEF PlaceInv
<1>10. RankInv'
  <2>1. Sorted(Early, ready)'
      BY <1>5, <1>7, EarlyKept DEF Sorted
  <2>2. Before(Early, RowsOf(stream) \cup sending.rows, RowsOf(ready))'
      BY <1>2, EarlyKept, PlacesKept DEF RankInv, Before
  <2>3. Before(Early, RowsOf(stream) \cup sending.rows \cup RowsOf(ready), InOpen)'
      BY <1>3 DEF Before
  <2> QED
      BY <2>1, <2>2, <2>3, EarlyKept, PlacesKept DEF RankInv, Before
<1>11. CountInv'
    BY <1>4 DEF CountInv
<1> QED
    BY <1>8, <1>9, <1>10, <1>11

\* The oldest sealed batch is the next to be published (publishReady).
LEMMA TakeInOrder ==
    ASSUME IInv, OrderInv, TakeReady, sending = NoBatch,
           UNCHANGED <<open, buffered, stream, fallback, recorded>>
    PROVE  OrderInv'
PROOF
<1> USE DEF OrderInv
<1>1. ready \in Seq(Batches) /\ ready # <<>> /\ sending' = Head(ready) /\ ready' = Tail(ready)
    BY DEF IInv, Types, TakeReady
<1>2. RowsOf(ready) = sending'.rows \cup RowsOf(ready')
    BY <1>1, RowsTail
<1>3. sending.rows = {}
    BY DEF NoBatch
<1>4. Held' = Held /\ Written' = Written
    BY <1>2, <1>3, PlacesKept DEF Held, Written
<1>5. Sorted(Early, Tail(ready)) /\ Before(Early, Head(ready).rows, RowsOf(Tail(ready)))
    BY <1>1, SortedTail DEF RankInv
<1>6. TakenOnce'
    BY EarlyKept
<1>7. PlaceInv'
    BY <1>2, <1>4, EarlyKept, PlacesKept DEF PlaceInv
<1>8. RankInv'
  <2>1. Sorted(Early, ready)'
      BY <1>1, <1>5, EarlyKept DEF Sorted
  <2>2. Before(Early, RowsOf(stream) \cup sending.rows, RowsOf(ready))'
      BY <1>1, <1>2, <1>5, EarlyKept, PlacesKept DEF RankInv, Before
  <2>3. Before(Early, RowsOf(stream) \cup sending.rows \cup RowsOf(ready), InOpen)'
      BY <1>2, EarlyKept, PlacesKept DEF RankInv, Before
  <2>4. Before(Early, RowsOf(stream), sending.rows)'
      BY <1>2, EarlyKept, PlacesKept DEF RankInv, Before
  <2> QED
      BY <2>1, <2>2, <2>3, <2>4, PlacesKept DEF RankInv
<1>9. CountInv'
    BY <1>4 DEF CountInv
<1> QED
    BY <1>6, <1>7, <1>8, <1>9

\* A stored batch follows every batch stored before it (publish).
LEMMA PublishInOrder ==
    ASSUME IInv, OrderInv, PublishOutcome, Publishing, ~Publishing',
           UNCHANGED <<open, ready, buffered, sending, recorded>>
    PROVE  OrderInv'
PROOF
<1> USE DEF OrderInv
<1>1. stream \in Seq(Batches) /\ sending \in Batches
    BY DEF IInv, Types
<1>2. stream' = stream \/ stream' = Append(stream, sending)
    BY DEF PublishOutcome
<1>3. fallback' = fallback \/ fallback' = fallback \cup sending.rows
    BY DEF PublishOutcome
<1>4. RowsOf(stream') = RowsOf(stream) \/ RowsOf(stream') = RowsOf(stream) \cup sending.rows
    BY <1>1, <1>2, RowsAppend
<1>5. Held' = Held /\ Written' \subseteq Written \cup Held
    BY <1>3, <1>4, PlacesKept DEF Held, Written
<1>6. \A x \in sending.rows : x \notin InOpen /\ x \notin RowsOf(ready)
  <2>1. sending.rows \subseteq Recorded /\ recorded \in Seq(Rows)
      BY DEF PlaceInv, Held, IInv, Types
  <2> QED
      BY <2>1, EarlyStrict DEF RankInv, Before
<1>7. TakenOnce'
    BY EarlyKept
<1>8. PlaceInv'
    BY <1>3, <1>5, <1>6, EarlyKept, PlacesKept DEF PlaceInv
<1>9. RankInv'
  <2>1. Sorted(Early, stream)'
    <3>1. Sorted(Early, Append(stream, sending))
        BY <1>1, SortedAppend DEF RankInv
    <3> QED
        BY <1>2, <3>1, EarlyKept DEF RankInv, Sorted
  <2>2. Before(Early, RowsOf(stream) \cup sending.rows, RowsOf(ready))'
      BY <1>4, EarlyKept, PlacesKept DEF RankInv, Before
  <2>3. Before(Early, RowsOf(stream) \cup sending.rows \cup RowsOf(ready), InOpen)'
      BY <1>4, EarlyKept, PlacesKept DEF RankInv, Before
  <2> QED
      BY <2>1, <2>2, <2>3, PlacesKept DEF RankInv
<1>10. CountInv'
    BY <1>5 DEF CountInv
<1> QED
    BY <1>7, <1>8, <1>9, <1>10

\* The rows given back to the count are those of the batch let go (publish).
LEMMA SettleInOrder ==
    ASSUME IInv, OrderInv, Settle, ~Publishing',
           UNCHANGED <<open, ready, stream, fallback, recorded>>
    PROVE  OrderInv'
PROOF
<1> USE DEF OrderInv
<1>1. sending'.rows = {} /\ buffered' = buffered - Cardinality(sending.rows)
    BY DEF Settle, NoBatch
<1>2. \A x \in sending.rows : x \notin InOpen /\ x \notin RowsOf(ready)
  <2>1. sending.rows \subseteq Recorded /\ recorded \in Seq(Rows)
      BY DEF PlaceInv, Held, IInv, Types
  <2> QED
      BY <2>1, EarlyStrict DEF RankInv, Before
<1>3. Held' = Held \ sending.rows /\ sending.rows \subseteq Held /\ Written' = Written
    BY <1>1, <1>2, PlacesKept DEF Held, Written
<1>4. TakenOnce'
    BY EarlyKept
<1>5. PlaceInv'
    BY <1>3, EarlyKept, PlacesKept DEF PlaceInv
<1>6. RankInv'
    BY <1>1, EarlyKept, PlacesKept DEF RankInv, Before
<1>7. CountInv'
  <2>1. Held \cap sending.rows = sending.rows
      BY <1>3
  <2>2. IsFiniteSet(Held')
        /\ Cardinality(Held \ sending.rows) = Cardinality(Held) - Cardinality(Held \cap sending.rows)
      BY <1>3, FS_Difference DEF CountInv
  <2> QED
      BY <1>1, <1>3, <2>1, <2>2 DEF CountInv
<1> QED
    BY <1>4, <1>5, <1>6, <1>7

\* A row that bypasses the buffer is in no batch (Record, at the ceiling or
\* once closed).
LEMMA BypassInOrder ==
    ASSUME IInv, OrderInv, NEW e \in Rows, RecordToFallback(e)
    PROVE  OrderInv'
PROOF
<1> USE DEF OrderInv
<1>1. /\ IsNew(e) /\ recorded' = Append(recorded, e) /\ fallback' = fallback \cup {e}
      /\ UNCHANGED <<open, ready, buffered, flusher, closer, sending, stream>>
    BY DEF RecordToFallback
<1>2. recorded \in Seq(Rows)
    BY DEF IInv, Types
<1>3. Recorded' = Recorded \cup {e} /\ e \notin Recorded
    BY <1>1, <1>2, RecordedGrows DEF IsNew, Recorded
<1>4. TakenOnce'
    BY <1>1, <1>2, EarlyGrows
<1>5. Held' = Held /\ Written' = Written \cup {e}
    BY <1>1, PlacesKept DEF Held, Written
<1>6. PlaceInv'
    BY <1>1, <1>3, <1>5, PlacesKept DEF PlaceInv, Held
<1>7. RankInv'
  <2>1. /\ RowsOf(stream) \subseteq Recorded /\ RowsOf(ready) \subseteq Recorded
        /\ sending.rows \subseteq Recorded /\ InOpen \subseteq Recorded
      BY DEF PlaceInv, Held, Written
  <2>2. /\ RowsOf(stream)' = RowsOf(stream) /\ RowsOf(ready)' = RowsOf(ready)
        /\ sending' = sending /\ InOpen' = InOpen /\ Publishing' = Publishing
      BY <1>1, PlacesKept DEF Publishing
  <2>3. \A x, y \in Recorded : <<x, y>> \in Early => <<x, y>> \in Early'
      BY <1>1, <1>2, EarlyGrows
  <2>4. Sorted(Early', stream) /\ Sorted(Early', ready)
      BY <2>1, <2>3, SortedKept DEF RankInv
  <2>5. Sorted(Early, stream)' /\ Sorted(Early, ready)'
      BY <1>1, <2>4 DEF Sorted
  <2>6. Before(Early, RowsOf(stream) \cup sending.rows, RowsOf(ready))'
      BY <2>1, <2>2, <2>3 DEF RankInv, Before
  <2>7. Before(Early, RowsOf(stream) \cup sending.rows \cup RowsOf(ready), InOpen)'
      BY <2>1, <2>2, <2>3 DEF RankInv, Before
  <2>8. Publishing' => Before(Early, RowsOf(stream), sending.rows)'
      BY <2>1, <2>2, <2>3 DEF RankInv, Before
  <2> QED
      BY <2>5, <2>6, <2>7, <2>8 DEF RankInv
<1>8. CountInv'
    BY <1>1, <1>5 DEF CountInv
<1> QED
    BY <1>4, <1>6, <1>7, <1>8

\* A row joins the open batch of its subject, behind all that were taken
\* before it; the batch it would overflow is sealed first (Record).
LEMMA BufferInOrder ==
    ASSUME IInv, OrderInv, NEW e \in Rows, RecordBuffered(e)
    PROVE  OrderInv'
PROOF
<1> USE DEF OrderInv
<1> DEFINE s == SubjectOf[e]
           full == Overflows(open[s], e)
           left == IF full THEN {} ELSE open[s].rows
<1>1. /\ IsNew(e) /\ recorded' = Append(recorded, e) /\ buffered' = buffered + 1
      /\ ready' = IF full THEN Append(ready, open[s]) ELSE ready
      /\ open' = [open EXCEPT ![s] = AddRow(IF full THEN NoBatch ELSE open[s], e)]
      /\ UNCHANGED <<flusher, closer, sending, stream, fallback>>
    BY DEF RecordBuffered
<1>2. /\ recorded \in Seq(Rows) /\ ready \in Seq(Batches)
      /\ open \in [Subjects -> Batches] /\ s \in Subjects /\ open[s] \in Batches
    BY RecorderAssumption DEF IInv, Types
<1>3. open'[s].rows = left \cup {e} /\ \A t \in Subjects : t # s => open'[t] = open[t]
    BY <1>1, <1>2 DEF AddRow, NoBatch
<1> HIDE DEF s, full, left
<1>4. Recorded' = Recorded \cup {e} /\ e \notin Recorded
    BY <1>1, <1>2, RecordedGrows DEF IsNew, Recorded
<1>5. /\ RowsOf(stream) \subseteq Recorded /\ RowsOf(ready) \subseteq Recorded
      /\ sending.rows \subseteq Recorded /\ InOpen \subseteq Recorded
    BY DEF PlaceInv, Held, Written
<1>6. /\ TakenOnce'
      /\ \A x, y \in Recorded : <<x, y>> \in Early => <<x, y>> \in Early'
      /\ \A x \in Recorded : <<x, e>> \in Early'
    BY <1>1, <1>2, EarlyGrows
<1>7. RowsOf(ready)' = RowsOf(ready) \cup (open[s].rows \ left)
  <2>1. CASE full
      BY <1>1, <1>2, <2>1, RowsAppend DEF left
  <2>2. CASE ~full
      BY <1>1, <2>2, PlacesKept DEF left
  <2> QED
      BY <2>1, <2>2
<1>8. left \subseteq open[s].rows /\ open[s].rows \subseteq InOpen
    BY <1>2 DEF left, InOpen
<1>9. InOpen' \subseteq InOpen \cup {e}
    BY <1>3, <1>8 DEF InOpen
<1>10. InOpen \subseteq InOpen' \cup (open[s].rows \ left) /\ e \in InOpen'
    BY <1>2, <1>3 DEF InOpen
<1>11. Held' = Held \cup {e} /\ Written' = Written
  <2>1. sending' = sending /\ RowsOf(stream)' = RowsOf(stream) /\ fallback' = fallback
      BY <1>1, PlacesKept
  <2> QED
      BY <1>7, <1>8, <1>9, <1>10, <2>1 DEF Held, Written
<1>12. PlaceInv'
  <2>1. e \notin fallback
      BY <1>4 DEF PlaceInv, Written
  <2>2. \A t \in Subjects : \A x \in open'[t].rows : SubjectOf[x] = t
      BY <1>2, <1>3, <1>8 DEF PlaceInv, s
  <2>3. fallback' \cap (InOpen' \cup RowsOf(ready)') = {}
      BY <1>1, <1>7, <1>8, <1>9, <2>1 DEF PlaceInv
  <2> QED
      BY <1>4, <1>11, <2>2, <2>3 DEF PlaceInv
<1>13. RankInv'
  <2>1. sending' = sending /\ RowsOf(stream)' = RowsOf(stream) /\ Publishing' = Publishing
      BY <1>1, PlacesKept DEF Publishing
  <2>2. Sorted(Early, stream)'
    <3>1. Sorted(Early', stream)
        BY <1>5, <1>6, SortedKept DEF RankInv
    <3> QED
        BY <1>1, <3>1 DEF Sorted
  <2>3. Sorted(Early, ready)'
    <3>1. Sorted(Early', ready)
        BY <1>5, <1>6, SortedKept DEF RankInv
    <3>2. Before(Early', RowsOf(ready), open[s].rows)
        BY <1>5, <1>6, <1>8 DEF RankInv, Before
    <3>3. Sorted(Early', Append(ready, open[s]))
        BY <1>2, <3>1, <3>2, SortedAppend
    <3> QED
        BY <1>1, <3>1, <3>3 DEF Sorted
  <2>4. Before(Early, RowsOf(stream) \cup sending.rows, RowsOf(ready))'
      BY <1>5, <1>6, <1>7, <1>8, <2>1 DEF RankInv, Before
  <2>5. Before(Early, RowsOf(stream) \cup sending.rows \cup RowsOf(ready), InOpen)'
    <3> SUFFICES ASSUME NEW x \in RowsOf(stream) \cup sending.rows \cup RowsOf(ready)',
                        NEW y \in InOpen'
                 PROVE  <<x, y>> \in Early'
        BY <2>1 DEF Before
    <3>1. x \in Recorded
        BY <1>5, <1>7, <1>8
    <3>2. CASE y = e
        BY <1>6, <3>1, <3>2
    <3>3. CASE y # e /\ x \in RowsOf(stream) \cup sending.rows \cup RowsOf(ready)
        BY <1>5, <1>6, <1>9, <3>1, <3>3 DEF RankInv, Before
    <3>4. CASE y # e /\ x \in open[s].rows \ left
      <4>1. left = {}
          BY <3>4 DEF left
      <4>2. PICK t \in Subjects : y \in open'[t].rows
          BY DEF InOpen
      <4>3. t # s /\ y \in open[t].rows
          BY <1>3, <3>4, <4>1, <4>2
      <4>4. SubjectOf[x] = s /\ SubjectOf[y] = t /\ x \in Rows /\ y \in Rows
          BY <1>2, <3>4, <4>3 DEF PlaceInv, Batches
      <4> QED
          BY <4>3, <4>4 DEF Early
    <3> QED
        BY <1>7, <3>2, <3>3, <3>4
  <2>6. Publishing' => Before(Early, RowsOf(stream), sending.rows)'
      BY <1>5, <1>6, <2>1 DEF RankInv, Before
  <2> QED
      BY <2>2, <2>3, <2>4, <2>5, <2>6 DEF RankInv
<1>14. CountInv'
  <2>1. IsFiniteSet(Held) /\ buffered = Cardinality(Held) /\ e \notin Held
      BY <1>4 DEF CountInv, PlaceInv
  <2>2. IsFiniteSet(Held \cup {e}) /\ Cardinality(Held \cup {e}) = Cardinality(Held) + 1
      BY <2>1, FS_AddElement
  <2> QED
      BY <1>1, <1>11, <2>1, <2>2 DEF CountInv
<1> QED
    BY <1>6, <1>12, <1>13, <1>14

\* The recorder is empty when it is made.
LEMMA EmptyInOrder == LifeInit => OrderInv
PROOF
<1> SUFFICES ASSUME LifeInit PROVE OrderInv
    OBVIOUS
<1> USE DEF LifeInit, Init
<1>1. Len(<<>>) = 0 /\ 1..0 = {}
    OBVIOUS
<1>2. InOpen = {} /\ RowsOf(ready) = {} /\ RowsOf(stream) = {} /\ sending.rows = {}
    BY <1>1 DEF InOpen, RowsOf, NoBatch
<1>3. Held = {} /\ Written = {}
    BY <1>2 DEF Held, Written
<1>4. TakenOnce
    BY <1>1 DEF TakenOnce
<1>5. PlaceInv
    BY <1>3 DEF PlaceInv, NoBatch
<1>6. Sorted(Early, ready) /\ Sorted(Early, stream)
    BY <1>1 DEF Sorted
<1>7. RankInv
    BY <1>2, <1>6 DEF RankInv, Before
<1>8. CountInv
    BY <1>3, FS_EmptySet DEF CountInv
<1> QED
    BY <1>4, <1>5, <1>7, <1>8 DEF OrderInv

\* Every step of the process keeps the rows in order.
LEMMA StepInOrder == IInv /\ OrderInv /\ [LifeNext]_allVars => OrderInv'
PROOF
<1> SUFFICES ASSUME IInv, OrderInv, [LifeNext]_allVars PROVE OrderInv'
    OBVIOUS
<1> DEFINE kept == <<open, ready, buffered, sending, stream, fallback, recorded>>
<1>1. CASE ServeStep
  <2>1. UNCHANGED vars
      BY <1>1 DEF ServeStep, Signal, BootFails, Booted, ListenFails, ServerClosed,
             ShutdownStarts, ShutdownEnds, Drained, Disconnect, Exit
  <2> QED
      BY <2>1, StillInOrder DEF vars, Publishing
<1>2. ASSUME NEW e \in Rows, Accept(e) PROVE OrderInv'
  <2>1. UNCHANGED vars
      BY <1>2 DEF Accept
  <2> QED
      BY <2>1, StillInOrder DEF vars, Publishing
<1>3. ASSUME NEW e \in Rows, Answer(e) PROVE OrderInv'
    BY <1>3, BypassInOrder, BufferInOrder DEF Answer
<1>4. CASE CloseRecord
  <2>1. UNCHANGED kept /\ closer' = "wait" /\ flusher' = flusher
      BY <1>4 DEF CloseRecord, CloseStart
  <2> QED
      BY <2>1, StillInOrder DEF Publishing
<1>5. ASSUME Woken \/ Stopped \/ DrainEmpty \/ CloseReturn PROVE OrderInv'
  <2>1. UNCHANGED kept /\ (Publishing' => Publishing)
      BY <1>5 DEF Woken, Stopped, DrainEmpty, CloseReturn, Publishing
  <2> QED
      BY <2>1, StillInOrder
<1>6. ASSUME Tick \/ CloseSeal PROVE OrderInv'
  <2>1. /\ SealAll /\ UNCHANGED <<buffered, sending, stream, fallback, recorded>>
        /\ Publishing' => Publishing
      BY <1>6 DEF Tick, CloseSeal, Publishing
  <2> QED
      BY <2>1, SealInOrder
<1>7. ASSUME DrainTake \/ CloseTake PROVE OrderInv'
  <2>1. TakeReady /\ UNCHANGED <<open, buffered, stream, fallback, recorded>>
      BY <1>7 DEF DrainTake, CloseTake
  <2>2. sending = NoBatch
      BY <1>7 DEF DrainTake, CloseTake, IInv, FlushInv, Types
  <2> QED
      BY <2>1, <2>2, TakeInOrder
<1>8. ASSUME DrainPublish \/ ClosePublish PROVE OrderInv'
  <2>1. /\ PublishOutcome /\ Publishing
        /\ UNCHANGED <<open, ready, buffered, sending, recorded>>
      BY <1>8 DEF DrainPublish, ClosePublish, Publishing
  <2>2. ~Publishing'
      BY <1>8 DEF DrainPublish, ClosePublish, Publishing, IInv, FlushInv
  <2> QED
      BY <2>1, <2>2, PublishInOrder
<1>9. ASSUME DrainSettle \/ CloseSettle PROVE OrderInv'
  <2>1. Settle /\ UNCHANGED <<open, ready, stream, fallback, recorded>>
      BY <1>9 DEF DrainSettle, CloseSettle
  <2>2. ~Publishing'
      BY <1>9 DEF DrainSettle, CloseSettle, Publishing, IInv, FlushInv
  <2> QED
      BY <2>1, <2>2, SettleInOrder
<1>10. CASE Running(Run) \/ Running(Closes)
    BY <1>5, <1>6, <1>7, <1>8, <1>9, <1>10 DEF Running, Run, Closes
<1>11. CASE UNCHANGED allVars
    BY <1>11, StillInOrder DEF allVars, vars, Publishing
<1> QED
    BY <1>1, <1>2, <1>3, <1>4, <1>10, <1>11 DEF LifeNext, ServeStep

\* In every state the rows are in order from the stream back to the open
\* batches, each in one place only, and counted.
THEOREM OrderInvariant == LifeSpec => []OrderInv
PROOF
    BY EmptyInOrder, StepInOrder, LifeInvariant, PTL DEF LifeSpec

\* The counter MaxBuffered is compared with neither leaks nor undercounts
\* (Record's increment, publish's deferred decrement on another goroutine), for
\* any batch bounds and through any broker.
THEOREM CountIsHeld == LifeSpec => []BufferedCountsHeld
PROOF
<1>1. OrderInv => BufferedCountsHeld
    BY DEF OrderInv, CountInv, BufferedCountsHeld
<1> QED
    BY <1>1, OrderInvariant, PTL

\* No row is in two batches: the stream has a row twice only if the broker
\* itself duplicates a message.
THEOREM RowsInOnePlace == LifeSpec => []NoRowTwice
PROOF
<1>1. IInv /\ OrderInv => NoRowTwice
  <2> SUFFICES ASSUME IInv, OrderInv PROVE NoRowTwice
      OBVIOUS
  <2>1. \A x \in Held \cup Written : <<x, x>> \notin Early
      BY EarlyStrict DEF OrderInv, PlaceInv, IInv, Types
  <2>2. ASSUME NEW i \in 1..Len(stream), NEW j \in 1..Len(stream), i < j
        PROVE  stream[i].rows \cap stream[j].rows = {}
    <3>1. Before(Early, stream[i].rows, stream[j].rows)
        BY <2>2 DEF OrderInv, RankInv, Sorted
    <3>2. stream[i].rows \subseteq Written
        BY DEF RowsOf, Written
    <3> QED
        BY <2>1, <3>1, <3>2 DEF Before
  <2>3. \A i, j \in 1..Len(stream) : i # j => stream[i].rows \cap stream[j].rows = {}
    <3> SUFFICES ASSUME NEW i \in 1..Len(stream), NEW j \in 1..Len(stream), i # j
                 PROVE  stream[i].rows \cap stream[j].rows = {}
        OBVIOUS
    <3>1. i < j \/ j < i
        OBVIOUS
    <3> QED
        BY <2>2, <3>1
  <2>4. InOpen \cap (RowsOf(ready) \cup sending.rows \cup Written) = {}
      BY <2>1 DEF OrderInv, RankInv, PlaceInv, Before, Held, Written
  <2>5. RowsOf(ready) \cap (sending.rows \cup Written) = {}
      BY <2>1 DEF OrderInv, RankInv, PlaceInv, Before, Held, Written
  <2> QED
      BY <2>3, <2>4, <2>5 DEF NoRowTwice
<1> QED
    BY <1>1, OrderInvariant, LifeInvariant, PTL

\* One tenant's rows leave in the order they were recorded, whoever publishes
\* them, the flusher or Close.
THEOREM StreamInOrder == LifeSpec => []SubjectOrder
PROOF
<1>1. IInv /\ OrderInv => SubjectOrder
  <2> SUFFICES ASSUME IInv, OrderInv, NEW i \in 1..Len(stream), NEW j \in 1..Len(stream),
                      i < j, NEW e \in stream[i].rows, NEW f \in stream[j].rows
               PROVE  SubjectOf[e] = SubjectOf[f] => RecordedAt(e) < RecordedAt(f)
      BY DEF SubjectOrder
  <2>1. <<e, f>> \in Early
      BY DEF OrderInv, RankInv, Sorted, Before
  <2> QED
      BY <2>1 DEF Early
<1> QED
    BY <1>1, OrderInvariant, LifeInvariant, PTL
================================================================================
