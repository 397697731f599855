\* Two chunks and a read that reaches beyond the first.
SPECIFICATION Spec
CONSTANTS
  Answers <- ChunkedAnswers
  RowRead = 4
  MaxMisread = 1
  None = None
INVARIANT ContentInOrder
CHECK_DEADLOCK FALSE
