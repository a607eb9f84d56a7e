SPECIFICATION Spec
CONSTANTS
    None = None
    Providers = {"openai", "reasoner", "deepseek", "responses", "anthropic", "mistral", "gemini", "gemini3"}
    PlainIds = {"plain", "nine"}
    NineIds = {"nine"}
    Openings <- MCOpenings
    FollowUps <- MCFollowUps
    ResultForms <- MCResultForms
    Replies <- MCReplies
    MaxMessages = 5
CHECK_DEADLOCK FALSE
INVARIANTS
    HistoryTold
    CallsAnswered
    GeminiSigned
    
    UsageAgrees
