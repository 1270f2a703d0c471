\* Stores with and without touch(), every request and every failure.
SPECIFICATION Spec
CONSTANTS
  Sids = {s1}
  Requests = {r1, r2, r3}
  Kinds = {"verify", "me", "logout", "revoke", "refresh"}
  Stores = {TRUE, FALSE}
  Faults = {"expiry", "store-fails", "answer-lost", "restart"}
  TokenCap = 3
  NoSession = NoSession
  NoRequest = NoRequest
SYMMETRY Symmetry
INVARIANTS
  TypeOK
  FlightsAreShared
PROPERTIES
  TerminalMeansOver
  TokensNeverRollBack
  OnlyRefreshResurrects
  FallbackKeepsFresh
