CONSTANTS
    Keys = {k1, k2}
    Callers = {a1, a2, a3}
    Locks = {l1, l2, l3}
    Unlocked = Unlocked
    NoLock = NoLock
SPECIFICATION FairLockSpec
INVARIANTS LockTypeOK NoLeakedEntry
PROPERTIES ImplementsMutex EveryCallerEnters
