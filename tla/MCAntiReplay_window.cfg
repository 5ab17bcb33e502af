\* Frames of packets at the start and around the first wrap.
CONSTANTS
  SeqMod = 32
  UwordBits = 4
  HugeSize = 8
  WrapDistance = 8
  Bmi2 = TRUE
  Starts = {0, 5, 30, 34}
  Ahead = 10
  Behind = 9
  MaxFlight = 3
  MaxArrivals = 3
SPECIFICATION Spec
INVARIANTS TypeOK NoReplay WindowExact LostExact FreshPasses
CHECK_DEADLOCK FALSE
