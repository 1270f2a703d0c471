\* Token and cookie auth, an unreliable server and identity provider: recovery.
SPECIFICATION FairSpec
CONSTANTS
  Wrappers = {w1, w2}
  NoWs = NoWs
  Setups <- LiveSetups
PROPERTIES
  Recovers
CHECK_DEADLOCK FALSE
