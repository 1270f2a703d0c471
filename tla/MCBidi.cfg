\* Two wrappers, two lines: a reconnect on the same wrapper, or a swap.
SPECIFICATION Spec
CONSTANTS
  MaxWrappers = 2
  MaxLines = 2
  MaxCalls = 2
  MaxIds = 1
  MaxFlight = 1
INVARIANTS
  NoCallHangs
  AnswersAreOwn
CHECK_DEADLOCK FALSE
