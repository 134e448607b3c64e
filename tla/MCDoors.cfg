CONSTANTS
    Nobody = nobody
    MaxCrashes = 1
    Threads = {t1, t2}
    Planned = {g1}
    MaxReviewGaps = 1
    MaxPings = 2
    MaxJobs = 1
    MaxRequests = 3
    Guests = {guest1}
    Clerks = {c1, c2}
    MaxLinks = 2
    MaxLines = 3
    MaxDays = 1
    MaxNow = 1
    MaxVisits = 1
    Turns = {m1, m2}
    Sources = {doc, card}
    Withheld = {card}
    Prices = {2}
    Ceiling = 4
    MaxTools = 1
    MaxRecites = 1
SPECIFICATION Spec
INVARIANTS AnswersReachThePlan NoEntryAfterTheEnd CitationsEarned
PROPERTIES DoorsAnswer
CHECK_DEADLOCK FALSE
