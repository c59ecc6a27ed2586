SPECIFICATION Spec
CONSTANT Replies <- MCReplies
INVARIANT PromptedAnswerIsUsed
CHECK_DEADLOCK FALSE
