CONSTANTS
    Sections = {1, 2}
    Awaiting = {}
    MaxItems = 3
    MaxRounds = 1
    MaxBreaks = 0
SPECIFICATION Spec
INVARIANTS ShippedProseIsAudited
CHECK_DEADLOCK FALSE
