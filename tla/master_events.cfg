\* Two tickets, the history may be late.
SPECIFICATION FairSpec
CONSTANTS
    Tickets = {t1, t2}
    HistoryLag = TRUE
INVARIANTS
    TypeOK
PROPERTIES
    
    GoneIsTold
