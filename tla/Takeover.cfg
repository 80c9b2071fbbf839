CONSTANTS
    Callers = {c1, c2}
    Values = {v}
    None = None
    Ours = Ours
    NoFile = NoFile
SPECIFICATION Spec
INVARIANTS TypeOK OriginalsSaved FilesTogether McpAsAsked
PROPERTIES ClosesRestored
SYMMETRY Symmetry
