CONSTANTS
    NoKey = NoKey
    Garbled = Garbled
    ProviderFields <- TwoFields
    TomlLines <- TomlAlphabet
    JsonMembers <- JsonAlphabet
    EnvLines <- EnvAlphabet
    MaxLines = 3
    MaxEdits = 1
    MoreCycles = FALSE
    LastLineEnded = {TRUE}
SPECIFICATION Spec
INVARIANTS TypeOK SetAndPutBack RoundTrip
PROPERTY KeepsTheRest
CHECK_DEADLOCK FALSE
