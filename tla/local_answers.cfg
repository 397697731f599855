\* Every kind of answer, every cut into reads, every early close.
SPECIFICATION FairSpec
CONSTANTS
  Answers <- AllAnswers
  RowRead = 4
  MaxMisread = 3
  None = None
INVARIANTS TypeOK WholeAnswer LengthTrue ContentIsHead
PROPERTY AnswerSent
CHECK_DEADLOCK FALSE
