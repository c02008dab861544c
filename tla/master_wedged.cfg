\* A deal that shows late holds the snapshots back for ever.
SPECIFICATION FairSpec
CONSTANTS
    Tickets = {t1}
    HistoryLag = TRUE
PROPERTIES
    SnapshotsGoOn
