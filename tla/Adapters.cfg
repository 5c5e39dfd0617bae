SPECIFICATION Spec
CONSTANTS
    AdapterNames = {"deepseek", "doubao", "glm", "hunyuan", "kimi", "minimax", "qwen", "stepfun", "custom"}
    Requests <- MCRequests
    Answers <- MCAnswers
    StructuredAnswers <- MCStructuredAnswers
    Data <- MCData
    Items <- MCItems
    Statuses = {400, 401, 429, 503}
    Events <- MCEvents
    MaxLines = 5
    MaxOther = 2
INVARIANT TypeOK
INVARIANT AdmittedIsSendable
INVARIANT ParsersAgree
INVARIANT FindsObject
INVARIANT StreamDelivered
INVARIANT ReasoningUnmixed
