\* Token auth with every fault, token auth with an honest server, and cookie
\* auth; the consumer re-enters during a swap and while an auth close is handled.
SPECIFICATION Spec
CONSTANTS
  Wrappers = {w1, w2, w3}
  NoWs = NoWs
  Setups <- AllSetups
SYMMETRY WrapperSymmetry
INVARIANTS
  LiveSocketIsHeld
  DeadHoldsNothing
  ConnectedIsOpen
  NoSpuriousLogout
PROPERTIES
  NoResurrection
  ManagerInContext
  ImplementsContract
CHECK_DEADLOCK FALSE
