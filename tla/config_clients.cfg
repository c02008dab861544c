\* One HTTP thread, the EA thread and the maintenance loop.
SPECIFICATION FairSpec
CONSTANTS
    Requests = {r1}
    Terminal = ea
    Maintenance = loop
    Urls = {u1, u2}
INVARIANTS
    TypeOK
    NoWrongMaster
    FileMatchesMemory
    StoppedIsDisconnected
PROPERTIES
    EventuallyConnected
