\* An order that was sent again is opened once more.
SPECIFICATION Spec
CONSTANTS
    Tickets = {t1}
    Ids = {i1, i2}
    Sides = {buy}
    Volumes = {1, 2}
    Faults = {}
INVARIANTS
    NoDuplicateCopy
