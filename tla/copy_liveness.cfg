\* The copies of a closed position disappear although lines are lost.
SPECIFICATION FairSpec
CONSTANTS
    Slaves = {s1}
    Readers = {r1}
    Tickets = {t1}
    MaxPush = 2
    MaxChan = 2
INVARIANTS
    TypeOK
PROPERTIES
    EventuallyNoPhantoms
