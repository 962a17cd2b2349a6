-------------------------------- MODULE MCCards --------------------------------
EXTENDS CardProjection

Access(clearance, compartments) ==
    [clearance |-> clearance, compartments |-> compartments]

\* Two clearances, one compartment the catalogue declares and one it does not.
MCLabels == {Access(0, {}), Access(1, {}), Access(0, {"hr"}), Access(1, {"hr", "typo"})}
MCFloors == {Access(0, {}), Access(0, {"hr"})}
MCReaders == {Access(c, s) : c \in {0, 1}, s \in {{}, {"hr"}}}
MCDeclared == {"hr"}
================================================================================
