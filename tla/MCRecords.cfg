CONSTANTS
    None = None
    Elder = elder
    Absent = absent
    NoCard = NoCard
    p1 = p1
    p2 = p2
    prose = prose
    percent = percent
    q1 = q1
    c1 = c1
    c2 = c2
    l1 = l1
    l2 = l2
    g1 = g1
    g2 = g2
    v0 = v0
    v1 = v1
    Pursuits = {p1, p2}
    Texts = {prose, percent}
    Stated = {percent}
    Questions = {q1}
    Crisp = {q1}
    Wires <- MCWires
    MaxOrgs = 3
    MaxRequests = 2
    MaxPings = 1
    Forms <- MCForms
    MaxTexts = 2
    MaxPlans = 2
    MaxRuns = 2
    MaxKills = 1
    Cards = {c1, c2}
    Values = {v0, v1}
    Lessons = {l1, l2}
    LessonCard <- MCLessonCard
    Answers = {g1, g2}
    Body <- MCBody
    Held = {c2}
    MaxEdits = 2
    MaxOpen = 2
    MaxFaults = 1
SYMMETRY MCSymmetry
SPECIFICATION Spec
INVARIANTS AcceptedIsCarried
PROPERTIES GapsSettleOnce ConfirmShipsTheDraft
CHECK_DEADLOCK FALSE
