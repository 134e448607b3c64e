CONSTANTS
    Format <- MCFormat
    MaxRuns = 2
    MaxPackages = 2
    MaxReads = 3
    MaxRejections = 2
    MaxHalts = 2
    GenerateMax = 2
    KeepMax = 1
    MaxEdits = 2
    Approvals = {a1, a2}
    Rejection = r
    Absent = absent
    Cards = {card, secret}
    Restricted = {secret}
    Urls = {url, other}
    Packed = {url}
SPECIFICATION Spec
INVARIANTS ReadingIsHonest GatesHold
PROPERTIES IntakeSettles
CHECK_DEADLOCK FALSE
