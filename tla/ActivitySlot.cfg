SPECIFICATION SlotFairSpec
CONSTANTS
    Tasks = {t1, t2, t3}
    Updaters = {t2}
    Workers = {w1, w2}
    Clients = {c1}
    Cap = 2
    Idle = Idle
    Nobody = Nobody
INVARIANTS SlotTypeOK SlotHasOneHolder NoStuckBanner
PROPERTIES ImplementsMutex IdleIsShown
