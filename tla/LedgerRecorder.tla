----------------------------- MODULE LedgerRecorder -----------------------------
(***************************************************************************)
(* The JetStream ledger recorder (internal/record/jetstream).              *)
(*                                                                         *)
(* Record puts a row into the open batch of its subject and never waits on *)
(* the broker.  One flusher goroutine seals and publishes; Close stops it  *)
(* and flushes what is left itself.  A batch the broker would not          *)
(* acknowledge goes row by row to the fallback, although the broker may    *)
(* have stored it: a publish has three outcomes, not two.                  *)
(*                                                                         *)
(* A row is a member of Rows with a subject and a framed size.  A batch is *)
(* the set of its rows and the byte count the code keeps with them.        *)
(***************************************************************************)
EXTENDS Naturals, Sequences, FiniteSets

CONSTANTS
    Rows,         \* ledger events, each recorded at most once
    Subjects,     \* one per tenant and app
    SubjectOf,    \* wire.LedgerSubjectFor
    SizeOf,       \* framedSize
    MaxEvents,    \* Config.MaxEvents
    MaxBytes,     \* Config.MaxBytes
    MaxBuffered   \* Config.MaxBuffered

ASSUME RecorderAssumption ==
    /\ IsFiniteSet(Subjects)
    /\ SubjectOf \in [Rows -> Subjects]
    /\ SizeOf \in [Rows -> Nat \ {0}]
    /\ MaxEvents \in Nat \ {0}
    /\ MaxBytes \in Nat \ {0}
    /\ MaxBuffered \in Nat \ {0}

NoBatch == [rows |-> {}, bytes |-> 0]

VARIABLES
    open,       \* the batch being filled, per subject
    ready,      \* sealed batches, oldest first
    buffered,   \* the rows counted against MaxBuffered
    closed,     \* Close was called
    wake,       \* the one-slot wake channel
    flusher,    \* run: "select", "drain", "settle", "done"
    closer,     \* Close: "none", "wait", "flush", "settle", "returned"
    sending,    \* the batch publish holds
    stream,     \* batches the broker stored, in order
    fallback,   \* rows written to the fallback recorder
    recorded    \* history: rows in the order Record took them

vars == <<open, ready, buffered, closed, wake, flusher, closer, sending,
          stream, fallback, recorded>>

Init ==
    /\ open = [s \in Subjects |-> NoBatch]
    /\ ready = <<>>
    /\ buffered = 0
    /\ closed = FALSE
    /\ wake = FALSE
    /\ flusher = "select"
    /\ closer = "none"
    /\ sending = NoBatch
    /\ stream = <<>>
    /\ fallback = {}
    /\ recorded = <<>>

IsNew(e) == \A i \in 1..Len(recorded) : recorded[i] # e

--------------------------------------------------------------------------------
(* Record.                                                                  *)

\* The ceiling alone.
BypassesWhenFull == buffered >= MaxBuffered

\* Closed, or at the ceiling: the row bypasses the buffer.
Bypasses == closed \/ buffered >= MaxBuffered

RecordToFallback(e) ==
    /\ IsNew(e)
    /\ Bypasses
    /\ fallback' = fallback \cup {e}
    /\ recorded' = Append(recorded, e)
    /\ UNCHANGED <<open, ready, buffered, closed, wake, flusher, closer,
                   sending, stream>>

\* The row would carry the open batch over one of its bounds.
Overflows(b, e) ==
    /\ b # NoBatch
    /\ b.bytes + SizeOf[e] > MaxBytes \/ Cardinality(b.rows) + 1 > MaxEvents

AddRow(b, e) == [rows |-> b.rows \cup {e}, bytes |-> b.bytes + SizeOf[e]]

\* Seal first if need be, append, count, wake the flusher if anything is sealed.
RecordBuffered(e) ==
    LET s    == SubjectOf[e]
        full == Overflows(open[s], e)
    IN  /\ IsNew(e)
        /\ ~Bypasses
        /\ ready' = IF full THEN Append(ready, open[s]) ELSE ready
        /\ open' = [open EXCEPT ![s] = AddRow(IF full THEN NoBatch ELSE @, e)]
        /\ buffered' = buffered + 1
        /\ wake' = (wake \/ ready' # <<>>)
        /\ recorded' = Append(recorded, e)
        /\ UNCHANGED <<closed, flusher, closer, sending, stream, fallback>>

--------------------------------------------------------------------------------
(* sealAll, publishReady and publish, used by the flusher and by Close.     *)

\* Go's map order: the open batches join the queue in any order, each once.
SealOrders ==
    LET full == {s \in Subjects : open[s] # NoBatch}
    IN  {q \in [1..Cardinality(full) -> full] : \A s \in full : \E i \in DOMAIN q : q[i] = s}

\* Sealing without resetting the open batches.
SealAllKeepsOpen ==
    \E q \in SealOrders :
        /\ ready' = ready \o [i \in DOMAIN q |-> open[q[i]]]
        /\ UNCHANGED open

\* Every open batch is sealed and a new one begins.
SealAll ==
    \E q \in SealOrders :
        /\ ready' = ready \o [i \in DOMAIN q |-> open[q[i]]]
        /\ open' = [s \in Subjects |-> NoBatch]

\* The newest sealed batch first.
TakeNewest ==
    /\ ready # <<>>
    /\ sending' = ready[Len(ready)]
    /\ ready' = SubSeq(ready, 1, Len(ready) - 1)

\* Pop the oldest sealed batch.
TakeReady ==
    /\ ready # <<>>
    /\ sending' = Head(ready)
    /\ ready' = Tail(ready)

\* A refused batch that is dropped.
ForgetsFailedBatch ==
    \/ stream' = Append(stream, sending) /\ UNCHANGED fallback
    \/ UNCHANGED <<stream, fallback>>

\* The broker stores and acknowledges; or refuses; or stores without the
\* acknowledgement arriving in time.  Any error sends every row of the batch
\* to the fallback.
PublishOutcome ==
    \/ stream' = Append(stream, sending) /\ UNCHANGED fallback
    \/ UNCHANGED stream /\ fallback' = fallback \cup sending.rows
    \/ stream' = Append(stream, sending) /\ fallback' = fallback \cup sending.rows

\* A publish that never gives its rows back to the count.
SettleLeaks ==
    /\ UNCHANGED buffered
    /\ sending' = NoBatch

\* publish's deferred decrement, under the lock again.
Settle ==
    /\ buffered' = buffered - Cardinality(sending.rows)
    /\ sending' = NoBatch

--------------------------------------------------------------------------------
(* run.                                                                     *)

\* A tick that publishes what is sealed and seals nothing.
TickWithoutSealing ==
    /\ flusher = "select"
    /\ flusher' = "drain"
    /\ UNCHANGED <<open, ready, buffered, closed, wake, closer, sending, stream,
                   fallback, recorded>>

\* The interval is over: seal everything, then publish.
Tick ==
    /\ flusher = "select"
    /\ SealAll
    /\ flusher' = "drain"
    /\ UNCHANGED <<buffered, closed, wake, closer, sending, stream, fallback,
                   recorded>>

\* Record or a sealed batch woke the flusher.
Woken ==
    /\ flusher = "select"
    /\ wake
    /\ wake' = FALSE
    /\ flusher' = "drain"
    /\ UNCHANGED <<open, ready, buffered, closed, closer, sending, stream,
                   fallback, recorded>>

\* Close closed the stop channel.
Stopped ==
    /\ flusher = "select"
    /\ closer = "wait"
    /\ flusher' = "done"
    /\ UNCHANGED <<open, ready, buffered, closed, wake, closer, sending, stream,
                   fallback, recorded>>

DrainTake ==
    /\ flusher = "drain"
    /\ TakeReady
    /\ flusher' = "publish"
    /\ UNCHANGED <<open, buffered, closed, wake, closer, stream, fallback, recorded>>

DrainEmpty ==
    /\ flusher = "drain"
    /\ ready = <<>>
    /\ flusher' = "select"
    /\ UNCHANGED <<open, ready, buffered, closed, wake, closer, sending, stream,
                   fallback, recorded>>

DrainPublish ==
    /\ flusher = "publish"
    /\ PublishOutcome
    /\ flusher' = "settle"
    /\ UNCHANGED <<open, ready, buffered, closed, wake, closer, sending, recorded>>

DrainSettle ==
    /\ flusher = "settle"
    /\ Settle
    /\ flusher' = "drain"
    /\ UNCHANGED <<open, ready, closed, wake, closer, stream, fallback, recorded>>

Run == Tick \/ Woken \/ Stopped \/ DrainTake \/ DrainEmpty \/ DrainPublish
       \/ DrainSettle

--------------------------------------------------------------------------------
(* Close.  A second Close finds closed set and returns at once.             *)

CloseStart ==
    /\ ~closed
    /\ closed' = TRUE
    /\ closer' = "wait"
    /\ UNCHANGED <<open, ready, buffered, wake, flusher, sending, stream,
                   fallback, recorded>>

\* The flusher is gone: Close seals what is open itself.
CloseSeal ==
    /\ closer = "wait"
    /\ flusher = "done"
    /\ SealAll
    /\ closer' = "flush"
    /\ UNCHANGED <<buffered, closed, wake, flusher, sending, stream, fallback,
                   recorded>>

CloseTake ==
    /\ closer = "flush"
    /\ TakeReady
    /\ closer' = "publish"
    /\ UNCHANGED <<open, buffered, closed, wake, flusher, stream, fallback, recorded>>

ClosePublish ==
    /\ closer = "publish"
    /\ PublishOutcome
    /\ closer' = "settle"
    /\ UNCHANGED <<open, ready, buffered, closed, wake, flusher, sending, recorded>>

CloseSettle ==
    /\ closer = "settle"
    /\ Settle
    /\ closer' = "flush"
    /\ UNCHANGED <<open, ready, closed, wake, flusher, stream, fallback, recorded>>

CloseReturn ==
    /\ closer = "flush"
    /\ ready = <<>>
    /\ closer' = "returned"
    /\ UNCHANGED <<open, ready, buffered, closed, wake, flusher, sending, stream,
                   fallback, recorded>>

Close == CloseStart \/ CloseSeal \/ CloseTake \/ ClosePublish \/ CloseSettle
         \/ CloseReturn

--------------------------------------------------------------------------------
Next ==
    \/ \E e \in Rows : RecordToFallback(e) \/ RecordBuffered(e)
    \/ Run
    \/ Close

Spec == Init /\ [][Next]_vars

--------------------------------------------------------------------------------
(* Properties.                                                              *)

RowsOf(q) == UNION {q[i].rows : i \in 1..Len(q)}
InOpen == UNION {open[s].rows : s \in Subjects}
Held == InOpen \cup RowsOf(ready) \cup sending.rows
Written == RowsOf(stream) \cup fallback
Recorded == {recorded[i] : i \in 1..Len(recorded)}

\* "Nil would mean those events are simply lost, which is the failure the
\* contract forbids" (recorder.go, Config.Fallback): a row Record took is in
\* the buffer, in the stream or in the fallback, through every refusal of the
\* broker, a full buffer and Close.
NoRowLost == Recorded \subseteq Held \cup Written

\* The counter MaxBuffered is compared with is the number of rows held: it
\* neither leaks (every row would bypass the stream after a while) nor
\* undercounts (the buffer would grow with the outage).
BufferedCountsHeld == buffered = Cardinality(Held)

\* A row reaches both the stream and the fallback only through a publish whose
\* acknowledgement was lost, and never the stream twice: two batches share no
\* row, wherever they are.
NoRowTwice ==
    /\ \A i, j \in 1..Len(stream) : i # j => stream[i].rows \cap stream[j].rows = {}
    /\ InOpen \cap (RowsOf(ready) \cup sending.rows \cup Written) = {}
    /\ RowsOf(ready) \cap (sending.rows \cup Written) = {}

\* One subject's batches are stored in the order its rows were recorded, so a
\* consumer of one tenant reads its rows oldest first, batch by batch.
RecordedAt(e) == CHOOSE i \in 1..Len(recorded) : recorded[i] = e
SubjectOrder ==
    \A i, j \in 1..Len(stream) : i < j =>
        \A e \in stream[i].rows, f \in stream[j].rows :
            SubjectOf[e] = SubjectOf[f] => RecordedAt(e) < RecordedAt(f)

\* "how long an event may sit unpublished" is bounded (recorder.go,
\* DefaultInterval): every row taken is written in the end.
RowsAreWritten == \A e \in Rows : e \in Recorded ~> e \in Written
================================================================================
