---------------------------- MODULE InvokeChainProofs ----------------------------
(***************************************************************************)
(* What the chain promises of its records, for any calls, tools, audit     *)
(* declarations and approvals: one row per call, the intent ahead of the   *)
(* effect, an acknowledged outcome stored, one run per approval.           *)
(***************************************************************************)
EXTENDS InvokeChain, TLAPS

Outcomes == {"ok", "denied", "error"}

Before == {"arrived", "gate", "fga", "grant", "availability", "intent", "resolve"}
After  == {"reply", "post", "sanitize"}
Deferred == {"record", "audit", "done"}

Frame ==
    [at : Before \cup After \cup Deferred, tool : Tools \cup {NoTool},
     grant : Grants \cup {NoGrant}, outcome : Outcomes,
     answer : {"none", "refused", "reply"}, ran : BOOLEAN, acked : BOOLEAN]

Messages == [call : Calls, outcome : Outcomes \cup {"intent"}]

Types ==
    /\ call \in [Calls -> Frame]
    /\ rows \in [Calls -> Seq(Outcomes)]
    /\ stream \subseteq Messages
    /\ spent \in [Grants -> Calls \cup {NoCall}]
    /\ wire \subseteq Calls

\* The tool may run, now or later.
Released(c) == call[c].ran \/ c \in wire

\* The row and the answer of a call, and when there are any.
RowInv(c) ==
    /\ Len(rows[c]) = IF call[c].at \in {"audit", "done"} THEN 1 ELSE 0
    /\ call[c].at \in {"audit", "done"} => rows[c][1] = call[c].outcome
    /\ call[c].at \in Deferred =>
          /\ call[c].outcome = "ok" <=> call[c].answer = "reply"
          /\ call[c].outcome = "ok" => call[c].ran
    /\ call[c].at \notin Deferred => call[c].outcome = "denied"
    /\ call[c].at \in {"post", "sanitize"} => call[c].ran

\* Nothing is released before step 6, and the intent comes first.
AheadInv(c) ==
    /\ call[c].at \in Before => ~Released(c)
    /\ Released(c) \/ call[c].at \in {"resolve"} \cup After =>
          (Audit[call[c].tool] = "fail_closed" => HasRow(c, "intent"))

\* An acknowledgement says that the outcome of the row is stored.
AckInv(c) ==
    /\ call[c].at # "done" => ~call[c].acked
    /\ call[c].acked => HasRow(c, call[c].outcome)

\* Past step 5 a gated call holds its approval.
SpentInv(c) ==
    (Released(c) \/ call[c].at \in {"availability", "intent", "resolve"} \cup After)
    /\ call[c].tool \in Gated
    => call[c].grant \in Grants /\ spent[call[c].grant] = c

CallInv(c) == RowInv(c) /\ AheadInv(c) /\ AckInv(c) /\ SpentInv(c)

\* The invariant of the chain.
IInv == Types /\ \A c \in Calls : CallInv(c)

--------------------------------------------------------------------------------
(* A step of one call.                                                      *)

\* The other calls keep their frames and rows and gain no message on the wire.
Apart(c) ==
    \A d \in Calls \ {c} :
        call'[d] = call[d] /\ rows'[d] = rows[d] /\ (d \in wire' => d \in wire)

\* The audit stream forgets nothing and no approval changes hands.
Grows ==
    /\ stream \subseteq stream'
    /\ \A g \in Grants : spent[g] \in Calls => spent'[g] = spent[g]

\* What a call is promised is its own frame, row and message, and records that
\* only grow: a step has to keep it for the call that takes it.
LEMMA StepKeeps ==
    ASSUME IInv, NEW c \in Calls, Types', Apart(c), Grows, CallInv(c)'
    PROVE  IInv'
PROOF
<1> SUFFICES ASSUME NEW d \in Calls, d # c PROVE CallInv(d)'
    BY DEF IInv
<1>1. CallInv(d)
    BY DEF IInv
<1>2. call'[d] = call[d] /\ rows'[d] = rows[d] /\ (d \in wire' => d \in wire)
    BY DEF Apart
<1>3. \A o : HasRow(d, o) => HasRow(d, o)'
    BY DEF HasRow, Grows
<1>4. RowInv(d)'
    BY <1>1, <1>2 DEF CallInv, RowInv
<1>5. Released(d)' => Released(d)
    BY <1>2 DEF Released
<1>6. AheadInv(d)' /\ AckInv(d)'
    BY <1>1, <1>2, <1>3, <1>5 DEF CallInv, AheadInv, AckInv
<1>7. SpentInv(d)'
    BY <1>1, <1>2, <1>5 DEF CallInv, SpentInv, Grows
<1> QED
    BY <1>4, <1>6, <1>7 DEF CallInv

\* Entering the deferred function: the row is still to come, and a success is
\* one whose tool has run.
LEMMA ReturnStep ==
    ASSUME IInv, NEW c \in Calls, NEW o \in Outcomes, NEW a \in {"none", "refused", "reply"},
           Return(c, o, a), call[c].at \notin Deferred,
           o = "ok" <=> a = "reply", o = "ok" => call[c].ran,
           UNCHANGED rows, stream' \subseteq Messages, wire' \subseteq wire,
           spent' \in [Grants -> Calls \cup {NoCall}], Grows
    PROVE  IInv'
PROOF
<1>1. /\ Types /\ CallInv(c)
      /\ call[c] \in Frame
    BY DEF IInv, Types
<1>2. /\ call' \in [Calls -> Frame]
      /\ \A d \in Calls \ {c} : call'[d] = call[d]
      /\ call'[c].at = "record" /\ call'[c].outcome = o /\ call'[c].answer = a
      /\ call'[c].tool = call[c].tool /\ call'[c].grant = call[c].grant
      /\ call'[c].ran = call[c].ran /\ call'[c].acked = call[c].acked
    BY <1>1 DEF Return, Types, Frame, Deferred
<1>3. Types'
    BY <1>1, <1>2 DEF Types
<1>4. Apart(c)
    BY <1>2 DEF Apart
<1>5. RowInv(c)'
    BY <1>1, <1>2 DEF CallInv, RowInv, Deferred
<1>6. Released(c)' => Released(c)
    BY <1>2 DEF Released
<1>7. AheadInv(c)'
  <2>1. HasRow(c, "intent") => HasRow(c, "intent")'
      BY DEF HasRow, Grows
  <2> QED
      BY <1>1, <1>2, <1>6, <2>1 DEF CallInv, AheadInv, Before, After
<1>8. AckInv(c)'
    BY <1>1, <1>2 DEF CallInv, AckInv, Deferred
<1>9. SpentInv(c)'
    BY <1>1, <1>2, <1>6 DEF CallInv, SpentInv, Grows, After
<1> QED
    BY <1>3, <1>4, <1>5, <1>7, <1>8, <1>9, StepKeeps DEF CallInv

\* Going on inside the chain: what the next place asks for is there.
LEMMA ProceedStep ==
    ASSUME IInv, NEW c \in Calls, NEW to \in Before \cup After,
           Proceed(c, to), call[c].at \in (Before \cup After) \ {"arrived"},
           call[c].at \in After => to \in After,
           to # "arrived", to \in {"post", "sanitize"} => call[c].ran,
           to \in {"resolve"} \cup After /\ call[c].at \in Before =>
              (Audit[call[c].tool] = "fail_closed" => HasRow(c, "intent")'),
           to \in {"availability", "intent", "resolve"} \cup After
           /\ call[c].at \in {"gate", "fga", "grant"}
           /\ call[c].tool \in Gated =>
              call[c].grant \in Grants /\ spent'[call[c].grant] = c,
           UNCHANGED rows, stream' \subseteq Messages,
           wire' \subseteq wire \cup {c}, to \in Before => wire' = wire,
           spent' \in [Grants -> Calls \cup {NoCall}], Grows
    PROVE  IInv'
PROOF
<1>1. /\ Types /\ CallInv(c)
      /\ call[c] \in Frame
    BY DEF IInv, Types
<1>2. /\ call' \in [Calls -> Frame]
      /\ \A d \in Calls \ {c} : call'[d] = call[d]
      /\ call'[c].at = to /\ call'[c].outcome = call[c].outcome
      /\ call'[c].tool = call[c].tool /\ call'[c].grant = call[c].grant
      /\ call'[c].ran = call[c].ran /\ call'[c].acked = call[c].acked
    BY <1>1 DEF Proceed, Types, Frame
<1>3. Types'
    BY <1>1, <1>2 DEF Types
<1>4. Apart(c)
    BY <1>2 DEF Apart
<1>5. RowInv(c)'
    BY <1>1, <1>2 DEF CallInv, RowInv, Deferred, Before, After
<1>6. HasRow(c, "intent") => HasRow(c, "intent")'
    BY DEF HasRow, Grows
<1>7. AheadInv(c)'
    BY <1>1, <1>2, <1>6 DEF CallInv, AheadInv, Released, Before, After
<1>8. AckInv(c)'
    BY <1>1, <1>2 DEF CallInv, AckInv, Before, After
<1>9. SpentInv(c)'
    BY <1>1, <1>2 DEF CallInv, SpentInv, AheadInv, Released, Grows, Before, After
<1> QED
    BY <1>3, <1>4, <1>5, <1>7, <1>8, <1>9, StepKeeps DEF CallInv

--------------------------------------------------------------------------------
(* The audit stream.                                                        *)

\* A publish only adds, and one that is acknowledged has stored its message:
\* a message dropped for its id is the same message (Sink.Write).
LEMMA WriteStores ==
    ASSUME Types, NEW c \in Calls, NEW o \in Outcomes \cup {"intent"}, NEW acked \in BOOLEAN,
           Write(c, o, acked)
    PROVE  /\ stream \subseteq stream' /\ stream' \subseteq Messages
           /\ acked => HasRow(c, o)'
PROOF
<1>1. Published(c, o) \subseteq stream \cup {[call |-> c, outcome |-> o]}
      /\ stream \subseteq Published(c, o)
    BY DEF Published
<1>2. [call |-> c, outcome |-> o] \in Messages
    BY DEF Messages
<1>3. \E m \in Published(c, o) : m.call = c /\ m.outcome = o
  <2>1. CASE \E m \in stream : MsgID(m.call, m.outcome) = MsgID(c, o)
    <3>1. PICK m \in stream : MsgID(m.call, m.outcome) = MsgID(c, o)
        BY <2>1
    <3>2. m.call = c /\ m.outcome = o
        BY <3>1 DEF MsgID
    <3> QED
        BY <1>1, <3>2
  <2>2. CASE ~ \E m \in stream : MsgID(m.call, m.outcome) = MsgID(c, o)
    <3> DEFINE new == [call |-> c, outcome |-> o]
    <3>1. new \in Published(c, o)
        BY <2>2 DEF Published
    <3>2. new.call = c /\ new.outcome = o
        OBVIOUS
    <3> QED
        BY <3>1, <3>2
  <2> QED
      BY <2>1, <2>2
<1>4. acked => stream' = Published(c, o)
    BY DEF Write
<1>5. stream' = Published(c, o) \/ stream' = stream
    BY DEF Write
<1> QED
    BY <1>1, <1>2, <1>3, <1>4, <1>5 DEF HasRow, Types

\* With the records left alone there is nothing they could lose.
LEMMA RecordsKeep ==
    ASSUME Types, UNCHANGED <<stream, spent>>
    PROVE  Grows /\ stream' \subseteq Messages /\ spent' \in [Grants -> Calls \cup {NoCall}]
BY DEF Types, Grows

--------------------------------------------------------------------------------
(* The actions.                                                             *)

\* No call has a row, a message or an approval before it begins.
LEMMA InitHolds == Init => IInv
PROOF
<1> SUFFICES ASSUME Init PROVE IInv
    OBVIOUS
<1>1. Types
    BY DEF Init, Types, Arrived, Frame, Before, After, Deferred, Messages, Outcomes
<1>2. ASSUME NEW c \in Calls PROVE CallInv(c)
    BY DEF Init, Arrived, CallInv, RowInv, AheadInv, AckInv, SpentInv, Released,
           Before, After, Deferred
<1> QED
    BY <1>1, <1>2 DEF IInv

\* A call begins, or is refused before there is a Principal.
LEMMA FirstSteps ==
    ASSUME IInv, NEW c \in Calls,
           \/ Unauthenticated(c)
           \/ \E t \in Tools \cup {NoTool}, g \in Grants \cup {NoGrant} : Invoke(c, t, g)
           \/ NoPrincipal(c)
    PROVE  IInv'
PROOF
<1>1. /\ Types /\ CallInv(c)
      /\ call[c] \in Frame
    BY DEF IInv, Types
<1>2. CASE Unauthenticated(c)
  <2>1. /\ call' \in [Calls -> Frame]
        /\ \A d \in Calls \ {c} : call'[d] = call[d] /\ rows'[d] = rows[d]
        /\ call'[c] = [call[c] EXCEPT !.at = "done", !.answer = "refused"]
        /\ rows'[c] = Append(rows[c], "denied") /\ rows' \in [Calls -> Seq(Outcomes)]
        /\ call[c].at = "arrived" /\ UNCHANGED <<stream, spent, wire>>
    <3>1. call[c].at = "arrived" /\ UNCHANGED <<stream, spent, wire>>
        BY <1>2 DEF Unauthenticated, At
    <3>2. /\ rows' = [rows EXCEPT ![c] = Append(rows[c], "denied")]
          /\ Append(rows[c], "denied") \in Seq(Outcomes)
        BY <1>1, <1>2 DEF Unauthenticated, Types, Outcomes
    <3>3. /\ call' = [call EXCEPT ![c] = [call[c] EXCEPT !.at = "done", !.answer = "refused"]]
          /\ [call[c] EXCEPT !.at = "done", !.answer = "refused"] \in Frame
        BY <1>1, <1>2 DEF Unauthenticated, Types, Frame, Deferred
    <3> QED
        BY <1>1, <3>1, <3>2, <3>3 DEF Types
  <2>2. Types' /\ Apart(c) /\ Grows
      BY <1>1, <2>1 DEF Types, Apart, Grows
  <2>3. Len(rows'[c]) = 1 /\ rows'[c][1] = "denied"
    <3>1. rows[c] \in Seq(Outcomes) /\ Len(rows[c]) = 0
        BY <1>1, <2>1 DEF Types, CallInv, RowInv
    <3> QED
        BY <2>1, <3>1 DEF Outcomes
  <2>4. CallInv(c)'
      BY <1>1, <2>1, <2>3 DEF Frame, CallInv, RowInv, AheadInv, AckInv, SpentInv, Released,
                        HasRow, Before, After, Deferred
  <2> QED
      BY <2>2, <2>4, StepKeeps
<1>3. CASE \E t \in Tools \cup {NoTool}, g \in Grants \cup {NoGrant} : Invoke(c, t, g)
  <2>1. PICK t \in Tools \cup {NoTool}, g \in Grants \cup {NoGrant} : Invoke(c, t, g)
      BY <1>3
  <2>2. /\ call' = [call EXCEPT ![c] = newEvent(t, g)]
        /\ newEvent(t, g) \in Frame
        /\ call[c].at = "arrived" /\ UNCHANGED <<rows, stream, spent, wire>>
      BY <2>1 DEF Invoke, At, newEvent, Frame, Before, Outcomes, records
  <2>3. Types' /\ Apart(c) /\ Grows
      BY <1>1, <2>2 DEF Types, Apart, Grows
  <2>4. CallInv(c)'
      BY <1>1, <2>2 DEF Types, newEvent, CallInv, RowInv, AheadInv, AckInv, SpentInv, Released,
                        HasRow, Before, After, Deferred
  <2> QED
      BY <2>3, <2>4, StepKeeps
<1>4. CASE NoPrincipal(c)
  <2>1. /\ call' \in [Calls -> Frame]
        /\ \A d \in Calls \ {c} : call'[d] = call[d]
        /\ call'[c] = [call[c] EXCEPT !.at = "record", !.tool = NoTool, !.answer = "refused"]
        /\ call[c].at = "gate" /\ UNCHANGED <<rows, stream, spent, wire>>
      BY <1>1, <1>4 DEF NoPrincipal, At, Types, Frame, Deferred, records
  <2>2. Types' /\ Apart(c) /\ Grows
      BY <1>1, <2>1 DEF Types, Apart, Grows
  <2>3. CallInv(c)'
      BY <1>1, <2>1 DEF Frame, CallInv, RowInv, AheadInv, AckInv, SpentInv, Released,
                        HasRow, Before, After, Deferred
  <2> QED
      BY <2>2, <2>3, StepKeeps
<1> QED
    BY <1>2, <1>3, <1>4

\* A refusal before anything was sent, whose cause left no record.
EarlyRefusal(c) ==
    \/ Invisible(c) \/ NoPlan(c) \/ BadPayload(c) \/ checkInputWrites(c) \/ validateInput(c)
    \/ At(c, "fga") /\ Return(c, "denied", "refused") /\ UNCHANGED records
    \/ GrantRefused(c)
    \/ At(c, "availability") /\ Return(c, "error", "refused") /\ UNCHANGED records
    \/ Unsent(c)

\* A refusal or a reply after the request was sent, or a panic.
LateReturn(c) ==
    \/ EmptyAnswer(c) \/ ToolRefuses(c)
    \/ At(c, "post") /\ Return(c, "error", "refused") /\ UNCHANGED records
    \/ sanitize(c)
    \/ Panics(c)

\* Every return that leaves the records alone: only a tool that has run is
\* answered with a reply.
LEMMA PlainReturns ==
    ASSUME IInv, NEW c \in Calls, EarlyRefusal(c) \/ LateReturn(c)
    PROVE  IInv'
PROOF
<1>1. Types /\ RowInv(c)
    BY DEF IInv, CallInv
<1>2. UNCHANGED <<rows, stream, spent, wire>> /\ call[c].at \notin Deferred
    BY DEF EarlyRefusal, LateReturn, Invisible, NoPlan, BadPayload, checkInputWrites,
           validateInput, GateRefuses, GrantRefused, Unsent, EmptyAnswer, ToolRefuses,
           sanitize, Panics, At, records, Deferred
<1>3. /\ Grows /\ stream' \subseteq Messages
      /\ spent' \in [Grants -> Calls \cup {NoCall}]
    BY <1>1, <1>2, RecordsKeep
<1>4. \/ Return(c, "denied", "refused")
      \/ Return(c, "error", "refused")
      \/ Return(c, "error", "none")
      \/ Return(c, "ok", "reply") /\ call[c].ran
    BY <1>1 DEF EarlyRefusal, LateReturn, Invisible, NoPlan, BadPayload, checkInputWrites,
           validateInput, GateRefuses, GrantRefused, Unsent, EmptyAnswer, ToolRefuses,
           sanitize, Panics, At, RowInv
<1> QED
    BY <1>2, <1>3, <1>4, ReturnStep DEF Outcomes

\* The steps from one question to the next that leave the records alone.
LEMMA PlainProceeds ==
    ASSUME IInv, NEW c \in Calls,
           \/ GatePasses(c)
           \/ At(c, "fga") /\ Proceed(c, "grant") /\ UNCHANGED records
           \/ GrantNotNeeded(c)
           \/ At(c, "availability") /\ Proceed(c, "intent") /\ UNCHANGED records
           \/ NotAudited(c)
           \/ Answered(c)
           \/ At(c, "post") /\ Proceed(c, "sanitize") /\ UNCHANGED records
    PROVE  IInv'
PROOF
<1> USE DEF At, records
<1>1. Types /\ RowInv(c)
    BY DEF IInv, CallInv
<1>2. UNCHANGED <<rows, stream, spent, wire>>
    BY DEF GatePasses, GrantNotNeeded, NotAudited, Answered
<1>3. /\ Grows /\ stream' \subseteq Messages
      /\ spent' \in [Grants -> Calls \cup {NoCall}]
    BY <1>1, <1>2, RecordsKeep
<1>4. CASE GatePasses(c)
    BY <1>2, <1>3, <1>4, ProceedStep DEF GatePasses, Before, After
<1>5. CASE At(c, "fga") /\ Proceed(c, "grant") /\ UNCHANGED records
    BY <1>2, <1>3, <1>5, ProceedStep DEF Before, After
<1>6. CASE GrantNotNeeded(c)
    BY <1>2, <1>3, <1>6, ProceedStep DEF GrantNotNeeded, Before, After
<1>7. CASE At(c, "availability") /\ Proceed(c, "intent") /\ UNCHANGED records
    BY <1>2, <1>3, <1>7, ProceedStep DEF Before, After
<1>8. CASE NotAudited(c)
    BY <1>2, <1>3, <1>8, ProceedStep DEF NotAudited, Audited, Before, After
<1>9. CASE Answered(c)
    BY <1>2, <1>3, <1>9, ProceedStep DEF Answered, Before, After
<1>10. CASE At(c, "post") /\ Proceed(c, "sanitize") /\ UNCHANGED records
    BY <1>1, <1>2, <1>3, <1>10, ProceedStep DEF Before, After, RowInv
<1> QED
    BY <1>4, <1>5, <1>6, <1>7, <1>8, <1>9, <1>10

\* The approval goes to the call that found it unspent, and stays with it,
\* whether or not the answer arrived.
LEMMA GrantSteps ==
    ASSUME IInv, NEW c \in Calls, SpendGrant(c) \/ GrantUnchecked(c)
    PROVE  IInv'
PROOF
<1> USE ConstantsAssumption
<1>1. Types /\ call[c].at = "grant" /\ UNCHANGED <<rows, stream, wire>>
    BY DEF IInv, SpendGrant, GrantUnchecked, At
<1>2. call[c].grant \in Grants
    BY DEF SpendGrant, GrantUnchecked, Admissible
<1>3. \/ UNCHANGED spent
      \/ /\ spent[call[c].grant] = NoCall
         /\ spent' = [spent EXCEPT ![call[c].grant] = c]
    BY DEF SpendGrant, GrantUnchecked
<1>4. Grows /\ stream' \subseteq Messages /\ spent' \in [Grants -> Calls \cup {NoCall}]
    BY <1>1, <1>2, <1>3 DEF Types, Grows
<1>5. CASE SpendGrant(c)
  <2>1. Proceed(c, "availability") /\ spent'[call[c].grant] = c
      BY <1>1, <1>2, <1>5 DEF SpendGrant, Types
  <2> QED
      BY <1>1, <1>2, <1>4, <2>1, ProceedStep DEF Before, After
<1>6. CASE GrantUnchecked(c)
    BY <1>1, <1>4, <1>6, ReturnStep DEF GrantUnchecked, Outcomes, Deferred
<1> QED
    BY <1>5, <1>6

\* A fail_closed call goes on only with its intent acknowledged, and so stored.
LEMMA IntentStep ==
    ASSUME IInv, NEW c \in Calls, auditIntent(c)
    PROVE  IInv'
PROOF
<1>1. Types /\ call[c].at = "intent" /\ UNCHANGED <<rows, spent, wire>>
    BY DEF IInv, auditIntent, At
<1>2. PICK acked \in BOOLEAN :
          /\ Write(c, "intent", acked)
          /\ \/ Proceed(c, "resolve") /\ (acked \/ Audit[call[c].tool] # "fail_closed")
             \/ Return(c, "denied", "refused")
    BY DEF auditIntent
<1>3. /\ stream \subseteq stream' /\ stream' \subseteq Messages
      /\ acked => HasRow(c, "intent")'
    BY <1>1, <1>2, WriteStores
<1>4. Grows /\ spent' \in [Grants -> Calls \cup {NoCall}]
    BY <1>1, <1>3 DEF Types, Grows
<1>5. CASE Return(c, "denied", "refused")
    BY <1>1, <1>3, <1>4, <1>5, ReturnStep DEF Outcomes, Deferred
<1>6. CASE Proceed(c, "resolve") /\ (acked \/ Audit[call[c].tool] # "fail_closed")
    BY <1>1, <1>3, <1>4, <1>6, ProceedStep DEF Before, After
<1> QED
    BY <1>2, <1>5, <1>6

\* The request goes out, the tool takes it, or nobody waits any more.
LEMMA ToolSteps ==
    ASSUME IInv, NEW c \in Calls, Send(c) \/ ToolRuns(c) \/ NoAnswer(c)
    PROVE  IInv'
PROOF
<1>1. /\ Types /\ CallInv(c) /\ UNCHANGED <<rows, stream, spent>>
      /\ call[c] \in Frame
    BY DEF IInv, Types, Send, ToolRuns, NoAnswer
<1>2. /\ Grows /\ stream' \subseteq Messages
      /\ spent' \in [Grants -> Calls \cup {NoCall}]
    BY <1>1, RecordsKeep
<1>3. CASE Send(c)
  <2>1. call[c].at = "resolve" /\ Proceed(c, "reply") /\ wire' = wire \cup {c}
      BY <1>3 DEF Send, At
  <2>2. Audit[call[c].tool] = "fail_closed" => HasRow(c, "intent")'
      BY <1>1, <2>1 DEF CallInv, AheadInv, HasRow
  <2> QED
      BY <1>1, <1>2, <2>1, <2>2, ProceedStep DEF Before, After
<1>4. CASE ToolRuns(c)
  <2>1. /\ c \in wire /\ wire' = wire \ {c}
        /\ call' = [call EXCEPT ![c] = [call[c] EXCEPT !.ran = TRUE]]
        /\ [call[c] EXCEPT !.ran = TRUE] \in Frame
      BY <1>1, <1>4 DEF ToolRuns, Types, Frame
  <2>2. Types' /\ Apart(c)
      BY <1>1, <2>1 DEF Types, Apart
  <2>3. CallInv(c)'
      BY <1>1, <2>1 DEF Types, Frame, CallInv, RowInv, AheadInv, AckInv, SpentInv, Released,
                        HasRow, Before, After, Deferred
  <2> QED
      BY <1>2, <2>2, <2>3, StepKeeps
<1>5. CASE NoAnswer(c)
    BY <1>1, <1>2, <1>5, ReturnStep DEF NoAnswer, At, Outcomes, Deferred
<1> QED
    BY <1>3, <1>4, <1>5

\* The deferred function: the row, then the outcome, in that order.
LEMMA DeferredSteps ==
    ASSUME IInv, NEW c \in Calls, record(c) \/ auditOutcome(c) \/ NoOutcome(c)
    PROVE  IInv'
PROOF
<1>1. /\ Types /\ CallInv(c)
      /\ call[c] \in Frame
    BY DEF IInv, Types
<1>2. CASE record(c)
  <2>1. /\ call[c].at = "record" /\ UNCHANGED <<stream, spent, wire>>
        /\ rows' = [rows EXCEPT ![c] = Append(rows[c], call[c].outcome)]
        /\ call' = [call EXCEPT ![c] = [call[c] EXCEPT !.at = "audit"]]
        /\ [call[c] EXCEPT !.at = "audit"] \in Frame
      BY <1>1, <1>2 DEF record, At, Proceed, Types, Frame, Deferred
  <2>2. /\ rows[c] \in Seq(Outcomes) /\ Len(rows[c]) = 0
        /\ call[c].outcome \in Outcomes
      BY <1>1, <2>1 DEF Types, CallInv, RowInv, Frame
  <2>3. /\ Append(rows[c], call[c].outcome) \in Seq(Outcomes)
        /\ Len(Append(rows[c], call[c].outcome)) = 1
        /\ Append(rows[c], call[c].outcome)[1] = call[c].outcome
      BY <2>2
  <2>4. Types' /\ Apart(c) /\ Grows
      BY <1>1, <2>1, <2>3 DEF Types, Apart, Grows
  <2>5. Len(rows'[c]) = 1 /\ rows'[c][1] = call[c].outcome
      BY <1>1, <2>1, <2>3 DEF Types
  <2>6. CallInv(c)'
      BY <1>1, <2>1, <2>5 DEF Types, Frame, CallInv, RowInv, AheadInv, AckInv, SpentInv, Released,
                        HasRow, Before, After, Deferred
  <2> QED
      BY <2>4, <2>6, StepKeeps
<1>3. CASE auditOutcome(c)
  <2>1. PICK acked \in BOOLEAN :
            /\ Write(c, call[c].outcome, acked)
            /\ call' = [call EXCEPT ![c].at = "done", ![c].acked = acked]
      BY <1>3 DEF auditOutcome
  <2>2. /\ call[c].at = "audit" /\ UNCHANGED <<rows, spent, wire>>
        /\ call' = [call EXCEPT ![c] = [call[c] EXCEPT !.at = "done", !.acked = acked]]
        /\ [call[c] EXCEPT !.at = "done", !.acked = acked] \in Frame
      BY <1>1, <1>3, <2>1 DEF auditOutcome, At, Types, Frame, Deferred
  <2>3. /\ stream \subseteq stream' /\ stream' \subseteq Messages
        /\ acked => \E m \in stream' : m.call = c /\ m.outcome = call[c].outcome
    <3>1. PICK o \in Outcomes : o = call[c].outcome
        BY <1>1 DEF Frame
    <3>2. /\ stream \subseteq stream' /\ stream' \subseteq Messages
          /\ acked => HasRow(c, o)'
        BY <1>1, <2>1, <3>1, WriteStores
    <3> QED
        BY <3>1, <3>2 DEF HasRow
  <2>4. Types' /\ Apart(c) /\ Grows
      BY <1>1, <2>2, <2>3 DEF Types, Apart, Grows
  <2>5. CallInv(c)'
      BY <1>1, <2>2, <2>3 DEF Types, Frame, CallInv, RowInv, AheadInv, AckInv, SpentInv, Released,
                        HasRow, Before, After, Deferred
  <2> QED
      BY <2>4, <2>5, StepKeeps
<1>4. CASE NoOutcome(c)
  <2>1. /\ call[c].at = "audit" /\ UNCHANGED <<rows, stream, spent, wire>>
        /\ call' = [call EXCEPT ![c] = [call[c] EXCEPT !.at = "done"]]
        /\ [call[c] EXCEPT !.at = "done"] \in Frame
      BY <1>1, <1>4 DEF NoOutcome, At, Proceed, Types, Frame, Deferred, records
  <2>2. Types' /\ Apart(c) /\ Grows
      BY <1>1, <2>1 DEF Types, Apart, Grows
  <2>3. CallInv(c)'
      BY <1>1, <2>1 DEF Types, Frame, CallInv, RowInv, AheadInv, AckInv, SpentInv, Released,
                        HasRow, Before, After, Deferred
  <2> QED
      BY <2>2, <2>3, StepKeeps
<1> QED
    BY <1>2, <1>3, <1>4

\* A cancelled context and the end of the process leave what was recorded.
LEMMA OutsideSteps ==
    ASSUME IInv, UNCHANGED <<call, rows, stream, spent, wire>>
    PROVE  IInv'
BY DEF IInv, Types, CallInv, RowInv, AheadInv, AckInv, SpentInv, Released, HasRow

--------------------------------------------------------------------------------
(* The theorems.                                                            *)

\* IInv holds through every refusal, panic, lost acknowledgement, cancelled
\* context and crash.
THEOREM ChainInvariant == Spec => []IInv
PROOF
<1>1. IInv /\ [Next]_vars => IInv'
  <2> SUFFICES ASSUME IInv, [Next]_vars PROVE IInv'
      OBVIOUS
  <2>1. ASSUME NEW c \in Calls, ChainStep(c) PROVE IInv'
    <3>1. CASE \/ Unauthenticated(c)
               \/ \E t \in Tools \cup {NoTool}, g \in Grants \cup {NoGrant} : Invoke(c, t, g)
               \/ NoPrincipal(c)
        BY <3>1, FirstSteps
    <3>2. CASE \/ Invisible(c) \/ NoPlan(c) \/ BadPayload(c)
               \/ checkInputWrites(c) \/ validateInput(c)
        BY <3>2, PlainReturns DEF EarlyRefusal
    <3>3. CASE GatePasses(c) \/ NotAudited(c)
        BY <3>3, PlainProceeds
    <3>4. CASE fgaPre(c)
        BY <3>4, PlainReturns, PlainProceeds DEF fgaPre, EarlyRefusal
    <3>5. CASE verifyGrant(c)
        BY <3>5, GrantSteps, PlainReturns, PlainProceeds DEF verifyGrant, EarlyRefusal
    <3>6. CASE checkAvailability(c)
        BY <3>6, PlainReturns, PlainProceeds DEF checkAvailability, EarlyRefusal
    <3>7. CASE auditIntent(c)
        BY <3>7, IntentStep
    <3>8. CASE resolve(c)
        BY <3>8, ToolSteps, PlainReturns, PlainProceeds DEF resolve, EarlyRefusal, LateReturn
    <3>9. CASE fgaPost(c) \/ sanitize(c) \/ Panics(c)
        BY <3>9, PlainReturns, PlainProceeds DEF fgaPost, LateReturn
    <3>10. CASE record(c) \/ auditOutcome(c) \/ NoOutcome(c)
        BY <3>10, DeferredSteps
    <3> QED
        BY <2>1, <3>1, <3>2, <3>3, <3>4, <3>5, <3>6, <3>7, <3>8, <3>9, <3>10 DEF ChainStep
  <2>2. ASSUME NEW c \in Calls, ToolRuns(c) PROVE IInv'
      BY <2>2, ToolSteps
  <2>3. CASE Crash \/ (\E c \in Calls : Cancel(c)) \/ UNCHANGED vars
      BY <2>3, OutsideSteps DEF Crash, Cancel, vars
  <2> QED
      BY <2>1, <2>2, <2>3 DEF Next
<1> QED
    BY InitHolds, <1>1, PTL DEF Spec

\* "Emit EXACTLY ONE event, on every terminal path": for any calls and tools,
\* one row per call that is past its record step, and it says what the caller
\* was told.
THEOREM OneRowPerCall == Spec => []OneRow
PROOF
<1>1. IInv => OneRow
    BY DEF IInv, CallInv, RowInv, OneRow, Deferred
<1> QED
    BY <1>1, ChainInvariant, PTL

\* A fail_closed tool runs only behind its stored intent, for any declarations
\* and whatever a publish comes to.
THEOREM IntentBeforeEffect == Spec => []FailClosedWritesAhead
PROOF
<1>1. IInv => FailClosedWritesAhead
    BY DEF IInv, CallInv, AheadInv, Released, FailClosedWritesAhead
<1> QED
    BY <1>1, ChainInvariant, PTL

\* An acknowledged outcome is stored and is the one the ledger row gives.
THEOREM AckedIsStored == Spec => []AckedOutcomeIsStored
PROOF
<1>1. IInv => AckedOutcomeIsStored
    BY DEF IInv, CallInv, RowInv, AckInv, AckedOutcomeIsStored
<1> QED
    BY <1>1, ChainInvariant, PTL

\* "An approval authorises one call": for any number of calls presenting it,
\* the tool runs for at most one.
THEOREM ApprovalRunsOnce == Spec => []OneRunPerApproval
PROOF
<1>1. IInv => OneRunPerApproval
    BY DEF IInv, CallInv, SpentInv, Released, OneRunPerApproval
<1> QED
    BY <1>1, ChainInvariant, PTL
================================================================================
