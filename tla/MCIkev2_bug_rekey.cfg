SPECIFICATION Spec
CONSTANTS
    Verdicts = {"ok"}
    Commands = {"initiate", "rekey"}
    Expires = FALSE
    LivenessRetries = 1
    RekeyRetries = 1
    OldIdTicks = 0
    Patient = FALSE
    MaxDraw <- Draws
    MaxReq <- Reqs
    MaxNet = 2
    MaxFaults = 0
INVARIANT AnswerMatches
CHECK_DEADLOCK FALSE
