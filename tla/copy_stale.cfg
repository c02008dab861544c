\* A replayed snapshot closes a copy that is newer than it.
SPECIFICATION Spec
CONSTANTS
    Slaves = {s1}
    Readers = {r1}
    Tickets = {t1}
    MaxPush = 3
    MaxChan = 2
PROPERTIES
    StaleSnapshotNeverCloses
