\* Four labelled nodes: a card with a section of two, or a page of two cards
\* with an element each, under every labelling.  Step 8 ends, so the walk does.
SPECIFICATION Spec
CHECK_DEADLOCK FALSE
CONSTANTS
    Size = 4
    Labels <- MCLabels
    NoLabel = NoLabel
    Unreadable = Unreadable
    Floors <- MCFloors
    Readers <- MCReaders
    Declared <- MCDeclared
INVARIANTS
    ServedIsWhatIsReached
    RefusedWhole
    EveryHoleIsNamed
