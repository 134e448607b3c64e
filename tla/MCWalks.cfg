CONSTANTS
    None = None
    Half = Half
    Prices = {0, 3}
    Ceiling = 4
    Total = 5
    MaxCalls = 3
    Attempts = 3
    MaxRuns = 2
    Commands = {intake, slicer}
    Servers = {server}
    Fresh = {slicer}
    MaxInodes = 3
    Threads = {t1, t2}
    Agents = {a1, a2}
    Named = 3
    MaxSeq = 3
    MaxBad = 1
    MaxStops = 1
    p1 = p1
    p2 = p2
    e1 = e1
    e2 = e2
    g1 = g1
    Pursuits = {p1, p2}
    Cards = {c1}
    Events = {e1, e2}
    Gaps = {g1}
    Of <- MCOf
    Kind <- MCKind
    Naming = {e1, g1}
    Residual = {e2}
    MaxAccepts = 2
    MaxKills = 1
SPECIFICATION Spec
INVARIANTS OneCallOver SpentIsProposed OneWriterUntilWiped
PROPERTIES AnswersItsQuestion WalksEnd
CHECK_DEADLOCK FALSE
