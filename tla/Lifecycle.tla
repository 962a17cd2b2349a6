-------------------------------- MODULE Lifecycle -------------------------------
(***************************************************************************)
(* The end of the process around its ledger (serve.go): a signal stops the *)
(* listener, the calls in flight are given a deadline to finish, and then  *)
(* what was deferred runs in the reverse of the order it was registered    *)
(* in: the buffered ledger is flushed, and after it the connection is      *)
(* closed.  A listener that fails returns without draining.                *)
(*                                                                         *)
(* A call is one row of the ledger, recorded before it is answered.  A     *)
(* step the recorder takes of its own is LedgerRecorder's.  The process is *)
(* one started with the ledger stream; without it nothing is buffered.     *)
(***************************************************************************)
EXTENDS LedgerRecorder

VARIABLES
    main,       \* Serve: "booting", "listening", "draining", "closing",
                \* "disconnected", "exited"
    cancelled,  \* the signal has arrived
    drain,      \* the shutdown goroutine: "none", "waiting", "stopping", "drained"
    failed,     \* boot or the listener failed
    cut,        \* Shutdown gave up on calls still running
    call        \* call[e]: "none", "running", "answered"

procVars == <<main, cancelled, drain, failed, cut, call>>
allVars == <<vars, procVars>>

LifeInit ==
    /\ Init
    /\ main = "booting"
    /\ cancelled = FALSE
    /\ drain = "none"
    /\ failed = FALSE
    /\ cut = FALSE
    /\ call = [e \in Rows |-> "none"]

InFlight == {e \in Rows : call[e] = "running"}

Moves(from, to) == main = from /\ main' = to

--------------------------------------------------------------------------------
(* Boot, from the moment the recorder exists, and the listener.             *)

Signal ==
    /\ ~cancelled /\ main # "exited"
    /\ cancelled' = TRUE
    /\ UNCHANGED <<vars, main, drain, failed, cut, call>>

\* The registry, an issuer's metadata or the mount check refuses.
BootFails ==
    /\ Moves("booting", "closing")
    /\ failed' = TRUE
    /\ UNCHANGED <<vars, cancelled, drain, cut, call>>

\* The shutdown goroutine is started, and then the listener.
Booted ==
    /\ Moves("booting", "listening")
    /\ drain' = "waiting"
    /\ UNCHANGED <<vars, cancelled, failed, cut, call>>

\* The address is taken, or the listener breaks: Serve returns the error.
ListenFails ==
    /\ Moves("listening", "closing")
    /\ drain = "waiting"
    /\ failed' = TRUE
    /\ UNCHANGED <<vars, cancelled, drain, cut, call>>

\* ErrServerClosed: it comes when Shutdown begins, not when it ends, and also
\* when Shutdown began before the listener did.
ServerClosed ==
    /\ Moves("listening", "draining")
    /\ drain # "waiting"
    /\ UNCHANGED <<vars, cancelled, drain, failed, cut, call>>

--------------------------------------------------------------------------------
(* Calls.  They run on the server's goroutines, until the process ends.     *)

\* From the listener, or on a connection kept alive: a listener that failed
\* does not close the connections it accepted, and Shutdown does.
Accept(e) ==
    /\ drain = "waiting" /\ main # "exited"
    /\ main = "listening" \/ \E f \in Rows : call[f] # "none"
    /\ call[e] = "none"
    /\ call' = [call EXCEPT ![e] = "running"]
    /\ UNCHANGED <<vars, main, cancelled, drain, failed, cut>>

\* The row is handed over, and then the answer is written.
Answer(e) ==
    /\ main # "exited"
    /\ call[e] = "running"
    /\ RecordToFallback(e) \/ RecordBuffered(e)
    /\ call' = [call EXCEPT ![e] = "answered"]
    /\ UNCHANGED <<main, cancelled, drain, failed, cut>>

--------------------------------------------------------------------------------
(* Shutdown.                                                                *)

ShutdownStarts ==
    /\ main # "exited"
    /\ cancelled /\ drain = "waiting"
    /\ drain' = "stopping"
    /\ UNCHANGED <<vars, main, cancelled, failed, cut, call>>

\* A Shutdown with no deadline.
ShutdownWaits ==
    /\ main # "exited"
    /\ drain = "stopping" /\ InFlight = {}
    /\ drain' = "drained"
    /\ UNCHANGED <<vars, main, cancelled, failed, cut, call>>

\* Every connection is idle, or the fifteen seconds are over.
ShutdownEnds ==
    /\ main # "exited"
    /\ drain = "stopping"
    /\ drain' = "drained"
    /\ cut' = (InFlight # {})
    /\ UNCHANGED <<vars, main, cancelled, failed, call>>

\* Serve returning as soon as the listener has.
DrainedAtOnce ==
    /\ Moves("draining", "closing")
    /\ UNCHANGED <<vars, cancelled, drain, failed, cut, call>>

Drained ==
    /\ Moves("draining", "closing")
    /\ drain = "drained"
    /\ UNCHANGED <<vars, cancelled, drain, failed, cut, call>>

\* closeRecord, deferred last and so run first.
CloseRecord ==
    /\ main = "closing"
    /\ CloseStart
    /\ UNCHANGED procVars

\* The connection closed while the ledger is still being flushed.
DisconnectEarly ==
    /\ Moves("closing", "disconnected")
    /\ closed
    /\ UNCHANGED <<vars, cancelled, drain, failed, cut, call>>

\* nc.Close, deferred first.
Disconnect ==
    /\ Moves("closing", "disconnected")
    /\ closer = "returned"
    /\ UNCHANGED <<vars, cancelled, drain, failed, cut, call>>

\* main returns, and with it every goroutine there is.
Exit ==
    /\ Moves("disconnected", "exited")
    /\ UNCHANGED <<vars, cancelled, drain, failed, cut, call>>

\* A step of the flusher, or of Close once it has begun.
Running(step) == main # "exited" /\ step /\ UNCHANGED procVars

Drains == DrainTake \/ DrainEmpty \/ DrainPublish \/ DrainSettle
Closes == CloseSeal \/ CloseTake \/ ClosePublish \/ CloseSettle \/ CloseReturn

--------------------------------------------------------------------------------
LifeNext ==
    \/ Signal \/ BootFails \/ Booted \/ ListenFails \/ ServerClosed
    \/ \E e \in Rows : Accept(e) \/ Answer(e)
    \/ ShutdownStarts \/ ShutdownEnds \/ Drained
    \/ CloseRecord \/ Disconnect \/ Exit
    \/ Running(Run) \/ Running(Closes)

LifeSpec == LifeInit /\ [][LifeNext]_allVars

(* The goroutines of the process keep running and Shutdown has a deadline;   *)
(* the flusher's select always has the ticker ready in the end.  Nothing     *)
(* makes a call finish.                                                      *)
LifeFairSpec ==
    /\ LifeSpec
    /\ WF_allVars(Booted \/ ServerClosed \/ Drained \/ CloseRecord \/ Disconnect \/ Exit)
    /\ WF_allVars(ShutdownStarts \/ ShutdownEnds)
    /\ WF_allVars(Running(Drains))
    /\ WF_allVars(Running(Closes))
    /\ SF_allVars(Running(Tick))
    /\ SF_allVars(Running(Stopped))

--------------------------------------------------------------------------------
(* Properties.                                                              *)

\* "The buffered ledger is flushed AFTER that, because a call still running is
\* a row not yet recorded" (serve.go): unless boot or the listener failed or
\* the drain ran out, no call is in flight once the recorder has been closed,
\* so no row of an orderly shutdown misses the stream for having come late.
FlushAfterDrain == closed /\ ~failed /\ ~cut => InFlight = {}

\* The flush has the connection it needs: nothing is being published, and
\* no sealed batch is left to publish, once the connection is closed.
FlushBeforeDisconnect ==
    main \in {"disconnected", "exited"} =>
        flusher = "done" /\ ready = <<>> /\ sending = NoBatch

\* No answered call is without its row: whatever the order of signals,
\* listener failures and deadlines, a caller that was answered before the
\* process ended has its row in the stream or in the fallback.
AnsweredRowsSurvive ==
    main = "exited" => \A e \in Rows : call[e] = "answered" => e \in Written

\* A signalled process ends, also under a call that never finishes.
SignalEndsProcess == cancelled ~> main = "exited"
================================================================================
