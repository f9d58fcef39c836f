CONSTANTS
    Keys = {"x", "y"}
    Unparsed = Unparsed
    Zero <- MCZero
    Unset = Unset
    Second = 2
    Day = 6
    Longest = 7
    Requests <- MCRequests
    Rights <- MCRights
SPECIFICATION Spec
INVARIANTS InBucket GapsFilled Nearest
PROPERTY CallsEnd
CHECK_DEADLOCK FALSE
