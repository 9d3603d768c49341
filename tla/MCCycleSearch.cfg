SPECIFICATION FairSpec
CONSTANT Node = {n1, n2, n3}
INVARIANT AnswerCorrect
PROPERTY SearchEnds
CHECK_DEADLOCK FALSE
