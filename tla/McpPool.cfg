CONSTANTS
    s1 = s1
    s2 = s2
    p = p
    q = q
    r = r
    Servers = {s1}
    Names = {p, q, r}
    Offers <- Lists
    Prints = {f, g}
    Callers = {c1}
    Refreshers = {r1}
    MaxEdits = 1
    MaxFailures = 1
    MaxVersion = 1
    Closes = TRUE
    Generations = {1, 2, 3, 4, 5, 6}
SPECIFICATION FairSpec
INVARIANTS TypeOK ServesItsConfig
PROPERTIES ImplementsSessionPool Settles RetiredForCause
CHECK_DEADLOCK FALSE
