CONSTANTS
    s1 = s1
    s2 = s2
    p = p
    q = q
    r = r
    Servers = {s1, s2}
    Names = {p, q, r}
    Offers <- Lists
    Prints = {f}
    Callers = {c1}
    Refreshers = {r1}
    MaxEdits = 1
    MaxFailures = 0
    MaxVersion = 2
    Closes = TRUE
    Generations = {1, 2, 3}
SPECIFICATION Spec
INVARIANT RegistryAgrees
CHECK_DEADLOCK FALSE
