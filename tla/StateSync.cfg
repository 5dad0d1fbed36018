SPECIFICATION FairSpec
CONSTANTS
    row = row
    Rows = {row}
    MaxVersion = 2
    Writes = 1
    Faults = 2
PROPERTIES Implements CatchesUp
CHECK_DEADLOCK FALSE
