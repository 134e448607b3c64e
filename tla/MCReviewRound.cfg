CONSTANTS
    Sections = {1, 2}
    Awaiting = {2}
    MaxItems = 2
    MaxRounds = 2
    MaxBreaks = 1
SPECIFICATION FairSpec
INVARIANTS TypeOK ItemsLandOnce CarriedVerdictsMatch
PROPERTIES RevisionMoves CommitConverges
CHECK_DEADLOCK FALSE
