\* Two threads with two queue mains, rings that hold two elements each.
CONSTANTS
  a = a
  b = b
  Threads = {a, b}
  NFqm = 2
  Routes <- Mutual
  Nelts = 3
  FrameSize = 2
  VectorThreshold = 3
  CheckCount = 1
  MaxPackets <- Mixed
  DropOnCongestion <- DropsWait
  WithAux = FALSE
SPECIFICATION FairSpec
INVARIANTS TypeOK RingSafe NoneLost
PROPERTIES Implements AllConsumed
