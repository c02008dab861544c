\* One ticket, room for two copies of it.
SPECIFICATION Spec
CONSTANTS
    Tickets = {t1}
    Ids = {i1, i2}
    Sides = {buy, sell}
    Volumes = {1, 2}
    Faults = {"timeout", "reload", "gap"}
SYMMETRY IdSymmetry
INVARIANTS
    TypeOK
    OneCopyUnlessUnseen
PROPERTIES
    KeepsWhatMasterHas
