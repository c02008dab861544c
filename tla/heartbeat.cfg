\* One account with settings, another without, two heartbeat threads.
SPECIFICATION FairSpec
CONSTANTS
    Null = Null
    Unit = 10
    Exact = 20
    Text <- Strings
    Bodies <- SmallBodies
    Trades <- SmallTrades
    Account = A
    Other = B
    Nobody = nobody
    NextKey = lot_type
    Loops = {l1, l2}
CONSTRAINT
    Bound
INVARIANTS
    TypeOK
    PortMatchesRole
    EveryCopyIsPlaceable
    EverySnapshotConfirms
PROPERTIES
    ImplementsStore
    EventuallyTold
    LoopsEnd
