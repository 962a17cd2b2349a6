\* Two calls interleaved.  A process serves finitely many calls here, so it
\* may stop.
SPECIFICATION Spec
CONSTANTS
    pay = pay
    look = look
    note = note
    Calls = {c1, c2}
    Tools = {pay, look, note}
    NoTool = NoTool
    Grants = {g1}
    NoGrant = NoGrant
    NoCall = NoCall
    Audit <- MCAudit
    GrantFor <- MCGrantFor
    Gated = {pay, look}
SYMMETRY Symmetry
INVARIANTS
    OneRow
    FailClosedWritesAhead
    AckedOutcomeIsStored
    OneRunPerApproval
CHECK_DEADLOCK FALSE
