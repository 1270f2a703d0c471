\* dispose() from a state listener on the connecting frame.
SPECIFICATION Spec
CONSTANTS
  Wrappers = {w1, w2, w3}
  NoWs = NoWs
  Setups <- ListenerSetups
SYMMETRY WrapperSymmetry
INVARIANTS
  DisposedHasNoSocket
CHECK_DEADLOCK FALSE
