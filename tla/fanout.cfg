\* Two slaves whose handlers compete for the callback mutex, one HTTP thread.
SPECIFICATION Spec
CONSTANTS
    Slaves = {s1, s2}
    Requests = {r1}
    MaxPush = 2
    MaxWire = 2
SYMMETRY SlaveSymmetry
CONSTRAINT FewLines
INVARIANTS
    TypeOK
    FreshInOrder
    NewSessionBaseline
PROPERTIES
    ImplementsChannel
