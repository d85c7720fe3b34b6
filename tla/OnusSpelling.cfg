SPECIFICATION AnswerSpec
CONSTANT MaxAttempts = 1
INVARIANT AcceptedEnumsPersist
