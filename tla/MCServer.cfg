\* Every configuration, every fault, a consumer that calls back from onKicked:
\* safety, and nothing waits for ever.
SPECIFICATION FairSpec
CONSTANTS
  Sockets = {s1, s2}
  Users = {u1, u2}
  NoWs = NoWs
  Modes = {"single", "concurrent", "authless", "authless-concurrent"}
  HookCalls = {"closeUser", "dispose"}
  Faults = {"throws", "silent", "abandoned"}
INVARIANTS
  EveryoneIsReachable
  NothingLeaks
  AnsweredOnce
PROPERTIES
  NobodyIsCutOffEarly
  ImplementsDirectory
  NothingHangs
CHECK_DEADLOCK FALSE
