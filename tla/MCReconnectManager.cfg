\* Both kinds of auth, three callers: safety, and every promise settles.
SPECIFICATION FairSpec
CONSTANTS
  Calls = {c1, c2, c3}
INVARIANTS
  NoLostWaiter
  MemoIsTheFlight
  DisposedIsQuiet
  AtMostTwoRefreshesPerWindow
PROPERTIES
  ResolvedMeansServed
  StoppedStartsNothing
  EveryCallSettles
