------------------------------ MODULE InvokeChain ------------------------------
(***************************************************************************)
(* The chain one call runs through (internal/toolplane, Core.invoke), and  *)
(* the three records it leaves: the ledger row, the audit stream's intent  *)
(* and outcome, and the spent approval.                                    *)
(*                                                                         *)
(* Each external answer (authorization, the approval cache, the audit      *)
(* stream, the tool, the ledger) is a step of its own, so calls interleave *)
(* there, a client can go away there and the process can die there.  The   *)
(* audit stream keeps what was published and drops a message whose id it   *)
(* has seen; a publish may be stored and acknowledged, not stored, or      *)
(* stored with the acknowledgement lost.                                   *)
(***************************************************************************)
EXTENDS Naturals, Sequences

CONSTANTS
    Calls,      \* calls in flight
    Tools,      \* the ToolDefs this Core mounted
    NoTool,     \* the zero ToolDef: a procedure lookup does not know
    Grants,     \* approvals
    NoGrant,    \* no Garm-Grant header
    NoCall,     \* an approval nobody has spent
    Audit,      \* a tool's audit declaration
    GrantFor,   \* the tool an approval was given for
    Gated       \* the tools with MODE_GRANT

ASSUME ConstantsAssumption ==
    /\ NoTool \notin Tools
    /\ NoGrant \notin Grants
    /\ NoCall \notin Calls
    /\ Audit \in [Tools \cup {NoTool} -> {"none", "open", "fail_closed"}]
    /\ Audit[NoTool] = "none"
    /\ Gated \subseteq Tools
    /\ GrantFor \in [Grants -> Gated]

VARIABLES
    call,       \* each call's frame: where it is and what its event says
    rows,       \* what the Recorder was handed for each call
    stream,     \* the audit stream
    spent,      \* the replay cache: who spent an approval
    wire,       \* calls whose request message is on its way to the tool
    gone,       \* calls whose request context is cancelled
    down        \* the process has died

vars == <<call, rows, stream, spent, wire, gone, down>>

\* newEvent: Outcome starts at denied and the one that succeeds says so.
newEvent(t, g) ==
    [at |-> "gate", tool |-> t, grant |-> g, outcome |-> "denied",
     answer |-> "none", ran |-> FALSE, acked |-> FALSE]

\* A call before it reaches the chain.
Arrived ==
    [at |-> "arrived", tool |-> NoTool, grant |-> NoGrant, outcome |-> "denied",
     answer |-> "none", ran |-> FALSE, acked |-> FALSE]

Init ==
    /\ call = [c \in Calls |-> Arrived]
    /\ rows = [c \in Calls |-> <<>>]
    /\ stream = {}
    /\ spent = [g \in Grants |-> NoCall]
    /\ wire = {}
    /\ gone = {}
    /\ down = FALSE

\* A return from invoke enters the deferred function.
Return(c, outcome, answer) ==
    call' = [call EXCEPT ![c].at = "record", ![c].outcome = outcome,
                         ![c].answer = answer]

Proceed(c, step) == call' = [call EXCEPT ![c].at = step]

At(c, step) == ~down /\ call[c].at = step

records == <<rows, stream, spent, wire, gone, down>>

-----------------------------------------------------------------------------
(* Step 1's refusal, and the chain up to the first external question.      *)

\* Core.Unauthenticated: the surface could not build a Principal.  Its own row,
\* with no tool and so no audit record, and no chain.
Unauthenticated(c) ==
    /\ At(c, "arrived")
    /\ call' = [call EXCEPT ![c].at = "done", ![c].answer = "refused"]
    /\ rows' = [rows EXCEPT ![c] = Append(@, "denied")]
    /\ UNCHANGED <<stream, spent, wire, gone, down>>

Invoke(c, t, g) ==
    /\ At(c, "arrived")
    /\ call' = [call EXCEPT ![c] = newEvent(t, g)]
    /\ UNCHANGED records

\* A nil Principal returns before the tool is looked up: the deferred audit
\* sees the zero ToolDef.
NoPrincipal(c) ==
    /\ At(c, "gate")
    /\ call' = [call EXCEPT ![c].at = "record", ![c].tool = NoTool,
                            ![c].answer = "refused"]
    /\ UNCHANGED records

GateRefuses(c) ==
    /\ At(c, "gate")
    /\ Return(c, "denied", "refused")
    /\ UNCHANGED records

\* Visible: a verb, a clearance or a compartment the caller does not have.
Invisible(c) == call[c].tool # NoTool /\ GateRefuses(c)

\* PlanFor: a procedure that is no tool and whose request type has no plan.
NoPlan(c) == call[c].tool = NoTool /\ GateRefuses(c)

\* A field the caller may not write is set.
checkInputWrites(c) == GateRefuses(c)

\* The request breaks a rule its schema states.
validateInput(c) == GateRefuses(c)

\* A payload that is not a proto message.
BadPayload(c) ==
    /\ At(c, "gate")
    /\ Return(c, "error", "refused")
    /\ UNCHANGED records

GatePasses(c) ==
    /\ At(c, "gate")
    /\ Proceed(c, "fga")
    /\ UNCHANGED records

-----------------------------------------------------------------------------
(* Steps 4 to 6: authorization, the approval, the service.                 *)

fgaPre(c) ==
    /\ At(c, "fga")
    /\ Return(c, "denied", "refused") \/ Proceed(c, "grant")
    /\ UNCHANGED records

\* Verifier.verify's checks before the spend.
Admissible(c) ==
    /\ call[c].grant \in Grants
    /\ GrantFor[call[c].grant] = call[c].tool

\* Verify without the spend.
PresentOnly(c) ==
    /\ At(c, "grant") /\ call[c].tool \in Gated
    /\ Admissible(c) /\ spent[call[c].grant] = NoCall
    /\ Proceed(c, "availability")
    /\ UNCHANGED records

\* Verify, passing: the approval is spent as the last check.
SpendGrant(c) ==
    /\ At(c, "grant") /\ call[c].tool \in Gated
    /\ Admissible(c) /\ spent[call[c].grant] = NoCall
    /\ spent' = [spent EXCEPT ![call[c].grant] = c]
    /\ Proceed(c, "availability")
    /\ UNCHANGED <<rows, stream, wire, gone, down>>

\* Verify, refusing: no approval, one for another call, one already spent.
GrantRefused(c) ==
    /\ At(c, "grant") /\ call[c].tool \in Gated
    /\ Admissible(c) => spent[call[c].grant] # NoCall
    /\ Return(c, "denied", "refused")
    /\ UNCHANGED records

\* The cache could not be asked: the approval may be spent or not, and the
\* call is refused either way.
GrantUnchecked(c) ==
    /\ At(c, "grant") /\ call[c].tool \in Gated
    /\ Admissible(c)
    /\ \/ UNCHANGED spent
       \/ /\ spent[call[c].grant] = NoCall
          /\ spent' = [spent EXCEPT ![call[c].grant] = c]
    /\ Return(c, "denied", "refused")
    /\ UNCHANGED <<rows, stream, wire, gone, down>>

GrantNotNeeded(c) ==
    /\ At(c, "grant") /\ call[c].tool \notin Gated
    /\ Proceed(c, "availability")
    /\ UNCHANGED records

verifyGrant(c) ==
    SpendGrant(c) \/ GrantRefused(c) \/ GrantUnchecked(c) \/ GrantNotNeeded(c)

checkAvailability(c) ==
    /\ At(c, "availability")
    /\ \/ Proceed(c, "intent")
       \/ /\ call[c].tool # NoTool
          /\ Return(c, "error", "refused")
    /\ UNCHANGED records

-----------------------------------------------------------------------------
(* The audit stream.                                                       *)

Audited(c) == Audit[call[c].tool] # "none"

\* The event id alone.
MsgIDWithoutOutcome(c, outcome) == <<c>>

\* Sink.Write: one event id per call, and the outcome with it.
MsgID(c, outcome) == <<c, outcome>>

Published(c, outcome) ==
    IF \E m \in stream : MsgID(m.call, m.outcome) = MsgID(c, outcome)
    THEN stream
    ELSE stream \cup {[call |-> c, outcome |-> outcome]}

\* What a publish can come to.  A cancelled context is never acknowledged.
Write(c, outcome, acked) ==
    /\ acked => c \notin gone
    /\ stream' = Published(c, outcome) \/ (~acked /\ stream' = stream)

\* An intent whose error is dropped whatever the tool declared.
IntentNeverRefuses(c) ==
    /\ At(c, "intent") /\ Audited(c)
    /\ Write(c, "intent", TRUE) \/ Write(c, "intent", FALSE)
    /\ Proceed(c, "resolve")
    /\ UNCHANGED <<rows, spent, wire, gone, down>>

\* auditIntent: only fail_closed turns a failed write into a refusal.
auditIntent(c) ==
    /\ At(c, "intent") /\ Audited(c)
    /\ \/ /\ Write(c, "intent", TRUE)
          /\ Proceed(c, "resolve")
       \/ /\ Write(c, "intent", FALSE)
          /\ IF Audit[call[c].tool] = "fail_closed"
             THEN Return(c, "denied", "refused")
             ELSE Proceed(c, "resolve")
    /\ UNCHANGED <<rows, spent, wire, gone, down>>

NotAudited(c) ==
    /\ At(c, "intent") /\ ~Audited(c)
    /\ Proceed(c, "resolve")
    /\ UNCHANGED records

-----------------------------------------------------------------------------
(* The tool, and what is done to its answer.                               *)

\* A missing resolver answered with nothing at all.
UnsentLooksEmpty(c) ==
    /\ At(c, "resolve")
    /\ Return(c, "ok", "reply")
    /\ UNCHANGED records

\* No resolver is registered, or the request cannot be encoded.
Unsent(c) ==
    /\ At(c, "resolve")
    /\ Return(c, "error", "refused")
    /\ UNCHANGED records

\* Transport.Invoke puts the request on the wire.
Send(c) ==
    /\ At(c, "resolve")
    /\ Proceed(c, "reply")
    /\ wire' = wire \cup {c}
    /\ UNCHANGED <<rows, stream, spent, gone, down>>

\* The tool takes the request and does what it does, also when nobody waits
\* for the answer any more.
ToolRuns(c) ==
    /\ c \in wire
    /\ wire' = wire \ {c}
    /\ call' = [call EXCEPT ![c].ran = TRUE]
    /\ UNCHANGED <<rows, stream, spent, gone, down>>

\* A message of the declared type: steps 7 and 8 are next.
Answered(c) ==
    /\ At(c, "reply") /\ call[c].ran
    /\ Proceed(c, "post")
    /\ UNCHANGED records

\* Success without a message: nothing to sanitize.
EmptyAnswer(c) ==
    /\ At(c, "reply") /\ call[c].ran
    /\ Return(c, "ok", "reply")
    /\ UNCHANGED records

\* A code the tool chose: a refusal if the chain knows the code, otherwise, and
\* for a reply that is not the declared response, a failure.
ToolRefuses(c) ==
    /\ At(c, "reply") /\ call[c].ran
    /\ Return(c, "denied", "refused") \/ Return(c, "error", "refused")
    /\ UNCHANGED records

\* Nobody listens on the subject, so the request is gone; or the deadline or
\* the client ended the wait, and the request may still arrive.
NoAnswer(c) ==
    /\ At(c, "reply")
    /\ UNCHANGED wire \/ (c \in wire /\ wire' = wire \ {c})
    /\ Return(c, "error", "refused")
    /\ UNCHANGED <<rows, stream, spent, gone, down>>

resolve(c) ==
    Unsent(c) \/ Send(c) \/ Answered(c) \/ EmptyAnswer(c) \/ ToolRefuses(c)
    \/ NoAnswer(c)

\* Step 7: a post-check that fails, answers nothing or replaces the message
\* refuses the whole response.
fgaPost(c) ==
    /\ At(c, "post")
    /\ Return(c, "error", "refused") \/ Proceed(c, "sanitize")
    /\ UNCHANGED records

\* Step 8: no plan or an invalid card fails the call, a card withheld whole
\* leaves it denied, and the sanitized reply goes out.
sanitize(c) ==
    /\ At(c, "sanitize")
    /\ \/ Return(c, "error", "refused")
       \/ Return(c, "denied", "refused")
       \/ Return(c, "ok", "reply")
    /\ UNCHANGED records

\* A panic anywhere the chain runs code of others.  ErrAbortHandler is raised
\* again after the records are written: the caller gets no answer.
Panics(c) ==
    /\ ~down
    /\ call[c].at \in {"gate", "fga", "grant", "reply", "post", "sanitize"}
    /\ Return(c, "error", "refused") \/ Return(c, "error", "none")
    /\ UNCHANGED records

-----------------------------------------------------------------------------
(* The deferred function, in its order.                                    *)

\* record: WithoutCancel, so a client that went away does not cost the row.
record(c) ==
    /\ At(c, "record")
    /\ rows' = [rows EXCEPT ![c] = Append(@, call[c].outcome)]
    /\ Proceed(c, "audit")
    /\ UNCHANGED <<stream, spent, wire, gone, down>>

\* auditOutcome: under the request's own context, and it cannot refuse.
auditOutcome(c) ==
    /\ At(c, "audit") /\ Audited(c)
    /\ \E acked \in BOOLEAN :
          /\ Write(c, call[c].outcome, acked)
          /\ call' = [call EXCEPT ![c].at = "done", ![c].acked = acked]
    /\ UNCHANGED <<rows, spent, wire, gone, down>>

NoOutcome(c) ==
    /\ At(c, "audit") /\ ~Audited(c)
    /\ Proceed(c, "done")
    /\ UNCHANGED records

-----------------------------------------------------------------------------
(* What happens to the process.                                            *)

\* The client closes its connection.
Cancel(c) ==
    /\ ~down
    /\ call[c].at \notin {"arrived", "done"} /\ c \notin gone
    /\ gone' = gone \cup {c}
    /\ UNCHANGED <<call, rows, stream, spent, wire, down>>

\* The process dies.  The stream and the replay cache live elsewhere.
Crash ==
    /\ ~down
    /\ down' = TRUE
    /\ UNCHANGED <<call, rows, stream, spent, wire, gone>>

ChainStep(c) ==
    \/ Unauthenticated(c)
    \/ \E t \in Tools \cup {NoTool}, g \in Grants \cup {NoGrant} : Invoke(c, t, g)
    \/ NoPrincipal(c) \/ Invisible(c) \/ NoPlan(c) \/ BadPayload(c)
    \/ checkInputWrites(c) \/ validateInput(c) \/ GatePasses(c)
    \/ fgaPre(c) \/ verifyGrant(c) \/ checkAvailability(c)
    \/ auditIntent(c) \/ NotAudited(c)
    \/ resolve(c) \/ fgaPost(c) \/ sanitize(c) \/ Panics(c)
    \/ record(c) \/ auditOutcome(c) \/ NoOutcome(c)

Next == Crash \/ \E c \in Calls : ChainStep(c) \/ ToolRuns(c) \/ Cancel(c)

Spec == Init /\ [][Next]_vars

-----------------------------------------------------------------------------
(* Properties.                                                             *)

\* "Emit EXACTLY ONE event, on every terminal path": a call that is past its
\* record step has one row, an earlier one has none, and the row of a call
\* that is over agrees with what its caller was told.  "An unresolvable
\* procedure must never look like a successful empty call": the row is ok only
\* if the tool has run.
OneRow ==
    \A c \in Calls :
        /\ Len(rows[c]) = IF call[c].at \in {"audit", "done"} THEN 1 ELSE 0
        /\ call[c].at = "done" =>
              /\ rows[c][1] = "ok" <=> call[c].answer = "reply"
              /\ rows[c][1] = "ok" => call[c].ran

HasRow(c, outcome) == \E m \in stream : m.call = c /\ m.outcome = outcome

\* A fail_closed tool runs only if its intent is already in the stream, whatever
\* was lost, cancelled or killed on the way, and however late it runs.
FailClosedWritesAhead ==
    \A c \in Calls :
        (call[c].ran \/ c \in wire) /\ Audit[call[c].tool] = "fail_closed"
        => HasRow(c, "intent")

\* An outcome the stream acknowledged is in the stream, and says what the
\* ledger row says: the intent of the same call never stands in for it.
AckedOutcomeIsStored ==
    \A c \in Calls :
        call[c].at = "done" /\ call[c].acked => HasRow(c, rows[c][1])

\* "An approval authorises one call": of the calls presenting one approval,
\* the tool runs for at most one.
OneRunPerApproval ==
    \A c, d \in Calls :
        /\ call[c].ran /\ call[c].tool \in Gated
        /\ call[d].ran /\ call[d].tool \in Gated
        /\ call[c].grant = call[d].grant
        => c = d
=============================================================================
