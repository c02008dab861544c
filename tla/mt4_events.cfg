SPECIFICATION FairSpec
CONSTANTS
    MaxTicket = 3
INVARIANTS
    TypeOK
    ToldAsOne
    ClosedIsOver
PROPERTIES
    EndIsSeen
