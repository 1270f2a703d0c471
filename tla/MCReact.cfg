\* Three subscriptions, three components for one procedure, two cleanups of
\* the provider at a time.
SPECIFICATION Spec
CONSTANTS
  MaxRuns = 3
  MaxRemounts = 2
  Components = {c1, c2, c3}
  NoComponent = NoComponent
SYMMETRY ComponentSymmetry
INVARIANTS
  HookIsCurrent
  ProviderOwnsClient
  LastRegistrantAnswers
CHECK_DEADLOCK FALSE
