\* Two uploads, three tokens.
SPECIFICATION FairSpec
CONSTANTS
  Requests = {r1, r2}
  MaxRotations = 2
INVARIANTS
  NoStaleLogout
PROPERTIES
  EveryUploadIsAnswered
CHECK_DEADLOCK FALSE
