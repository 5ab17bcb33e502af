SPECIFICATION Spec
CONSTANTS
    Size = 2
    Total = 5
    MaxWnd = 2
    Thresh = 1
    Modes = {"block", "epoll", "mod"}
INVARIANTS
    TypeOK
    TxCovered
    WriterCovered
PROPERTIES
    AllDelivered
CHECK_DEADLOCK FALSE
