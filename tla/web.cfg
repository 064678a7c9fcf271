\* Three requests on a connection, of which the last one closes it.
SPECIFICATION FairSpec
CONSTANTS
  Last = 3
  Pieces = 2
  Keep <- MCButLast
  Bad <- MCBad
  Asks <- MCSecond
  Streamed <- MCButLast
  Pending = Pending
  Lost = Lost
INVARIANTS AnswersInOrder OwnBody NotStalled
PROPERTIES EachAnswered LostEndsReceive
\* The connection ends.
CHECK_DEADLOCK FALSE
