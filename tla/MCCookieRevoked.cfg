\* Revocation while a refresh is in flight, in a store with touch(): the slide
\* cannot bring the session back.
SPECIFICATION Spec
CONSTANTS
  Sids = {s1}
  Requests = {r1, r2, r3}
  Kinds = {"verify", "revoke", "refresh"}
  Stores = {TRUE}
  Faults = {}
  TokenCap = 3
  NoSession = NoSession
  NoRequest = NoRequest
SYMMETRY Symmetry
INVARIANTS
  GoneStaysOut
