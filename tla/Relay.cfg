CONSTANTS
    Profiles <- MCProfiles
    Models <- MCModels
    MaxLines = 3
SPECIFICATION Spec
INVARIANTS TypeOK AnswerIntact CreditedServed OneTarget
CHECK_DEADLOCK FALSE
