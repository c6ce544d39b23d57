\* Three tasks around turns of the user that may never end, collections, clearings and shutdown, and a budget that runs out.
SPECIFICATION FairSpec
CONSTANTS
    Tasks = {t1, t2, t3}
    MaxWakes = 2
CHECK_DEADLOCK FALSE
INVARIANTS PendingIsServed NothingVanishes
PROPERTY OutcomeSettles
