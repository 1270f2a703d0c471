\* Two browsers, two logins, two callbacks, one restart.
SPECIFICATION FairSpec
CONSTANTS
  Browsers = {b1, b2}
  Logins = {l1, l2}
  Callbacks = {c1, c2}
  None = None
INVARIANTS
  OneSessionPerLogin
  OnlyOvertakenIsRefused
PROPERTIES
  EveryRequestIsAnswered
CHECK_DEADLOCK FALSE
