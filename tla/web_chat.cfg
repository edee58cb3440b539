SPECIFICATION Spec
CONSTANTS
    Format = {"qwen", "gpt", "other"}
    Outputs <- MCOutputs
    MaxRequests = 2
    MaxChanges = 2
INVARIANT StatusMatchesStream
INVARIANT AnswersItsQuestion
INVARIANT ThoughtsHidden
PROPERTY AnswerEnds
CHECK_DEADLOCK TRUE
