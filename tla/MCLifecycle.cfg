SPECIFICATION LifeFairSpec
CONSTANTS
    Rows <- MCRows
    Subjects = {"t1", "t2"}
    SubjectOf <- MCSubjectOf
    SizeOf <- MCSizeOf
    MaxEvents = 2
    MaxBytes = 3
    MaxBuffered = 2
INVARIANTS
    NoRowLost
    BufferedCountsHeld
    NoRowTwice
    SubjectOrder
    FlushAfterDrain
    FlushBeforeDisconnect
    AnsweredRowsSurvive
PROPERTIES
    RowsAreWritten
    SignalEndsProcess
CHECK_DEADLOCK FALSE
