SPECIFICATION Spec
CONSTANTS
    Verdicts <- AllVerdicts
    Commands <- AllCommands
    Expires = TRUE
    LivenessRetries = 1
    RekeyRetries = 1
    OldIdTicks = 0
    Patient = TRUE
    MaxDraw <- Draws
    MaxReq <- Reqs
    MaxNet = 2
    MaxFaults = 2
INVARIANTS TypeOK SaIndexed TunnelExact Agreement
CHECK_DEADLOCK FALSE
PROPERTIES DeadPeerGone
