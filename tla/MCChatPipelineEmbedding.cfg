SPECIFICATION ChatSpec
CONSTANTS
    None = None
    AnyRole = AnyRole
    Requests = {r1}
    Routes <- MCRoutes
    Asked <- MCAsked
    Answers <- MCAnswers
    Vocabulary <- MCVocabulary
    MaxFailures = 1
CHECK_DEADLOCK FALSE
PROPERTY
    EmbeddingFailureHarmless
