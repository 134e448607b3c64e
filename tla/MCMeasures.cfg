CONSTANTS
    Nil = Nil
    Cases <- MCCases
    Scopes <- MCScopes
    Shapes <- MCShapes
    Tokens <- MCTokens
    MintLane <- MCMintLane
    Path <- MCPath
    Derived <- MCDerived
    Topics <- MCTopics
SPECIFICATION Measures
INVARIANTS TripwireFires NoSilentMiss
PROPERTIES ReplacedIsArchived PassMeansWithheld
CHECK_DEADLOCK FALSE
