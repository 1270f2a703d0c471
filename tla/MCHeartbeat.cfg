\* Opens, swaps and teardowns with a retry budget of two.
SPECIFICATION FairSpec
CONSTANTS
  MaxGen = 6
  Retries = 2
INVARIANTS
  OneConsumer
  NoStrayTimer
PROPERTIES
  WatchedOrGivenUp
CHECK_DEADLOCK FALSE
