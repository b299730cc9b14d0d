CONSTANTS
    MaxStreamID = 7
    First = 1
SPECIFICATION IDSpec
INVARIANT IDsFit
