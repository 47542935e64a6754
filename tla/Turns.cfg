SPECIFICATION Spec
CONSTANTS
  Turns = {t1, t2}
  NoTurn = NoTurn
  Chunks = 2
  Buffer = 1
  Budget = 2
  Crashes = 1
  Edits = 1
INVARIANTS QuietTurnsWin NothingHiddenIsSent
PROPERTY AnswersAreRemembered
CHECK_DEADLOCK FALSE
