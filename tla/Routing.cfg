CONSTANTS
    Callers = {c1, c2}
    p1 = p1
    p2 = p2
    on = on
    off = off
    PlatformOrder <- TwoPlatforms
    Submissions <- MCSubmissions
    Uploads <- MCUploads
    LegacyFiles <- MCLegacyFiles
    Preferences = {off, on}
    Off = off
    Missing = Missing
    Broken = Broken
    None = None
    MaxJobs = 3
    MaxRestarts = 1
SPECIFICATION Spec
INVARIANTS TypeOK Agreement
PROPERTIES CleanCalls ImportedOnce
SYMMETRY Symmetry
CHECK_DEADLOCK FALSE
