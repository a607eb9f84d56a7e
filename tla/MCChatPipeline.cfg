SPECIFICATION ChatSpec
CONSTANTS
    None = None
    AnyRole = AnyRole
    Requests = {r1, r2}
    Routes <- MCRoutes
    Asked <- MCAsked
    Answers <- MCAnswers
    Vocabulary <- MCVocabulary
    MaxFailures = 1
SYMMETRY Symmetry
CHECK_DEADLOCK FALSE
INVARIANTS
    MaskedFromModels
    JudgedAsSent
    OutputScreened
    CachedAsAsked
