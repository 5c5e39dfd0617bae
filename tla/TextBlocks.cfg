SPECIFICATION Spec
CONSTANTS
    AdapterNames = {"deepseek", "doubao", "glm", "hunyuan", "kimi", "minimax", "qwen", "stepfun", "custom"}
    Requests <- MCRequests
    Answers <- MCAnswers
    StructuredAnswers <- MCStructuredAnswers
    Data <- MCData
    Items <- MCItems
    Statuses = {400, 401, 429, 503}
    Events <- MCEvents
    MaxLines = 0
    MaxOther = 0
INVARIANT BlocksAreSent
