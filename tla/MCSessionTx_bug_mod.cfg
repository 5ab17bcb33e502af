SPECIFICATION Spec
CONSTANTS
    Size = 2
    Total = 5
    MaxWnd = 2
    Thresh = 1
    Modes = {"mod"}
PROPERTIES
    WriterWoken
CHECK_DEADLOCK FALSE
