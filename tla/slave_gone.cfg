\* Copies of a ticket that is gone disappear.
SPECIFICATION FairSpec
CONSTANTS
    Tickets = {t1}
    Ids = {i1, i2}
    Sides = {buy}
    Volumes = {1, 2}
    Faults = {"timeout", "reload", "gap"}
PROPERTIES
    GoneForGood
