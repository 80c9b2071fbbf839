CONSTANTS
    NoKey = NoKey
    Garbled = Garbled
    ProviderFields <- TwoFields
    TomlLines <- TomlAlphabet
    JsonMembers <- JsonAlphabet
    EnvLines <- EnvAlphabet
    MaxLines = 3
    MaxEdits = 1
    MoreCycles = FALSE
    LastLineEnded = {TRUE, FALSE}
SPECIFICATION Spec
INVARIANT SetAndPutBack
CHECK_DEADLOCK FALSE
