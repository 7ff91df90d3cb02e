SPECIFICATION Spec
CONSTANTS
  None = None
  Personal = Personal
  day = day
  hours = hours
  planned = planned
  actual = actual
  area = area
  fd = fd
  fp = fp
  fa = fa
  HistoryKept = 2
  FamiliesKept = 2
  ResidualGap = 2
  Groups <- MCGroups
  Formats = {"DMY"}
  MaxConfirmations = 2
  MaxAmbiguities = 3
  Files <- MCFiles
  ByHand <- MCByHand
  Canonical <- MCCanonical
  MaxImports = 3
  MaxAtOnce = 2
  MaxInterventions = 1
PROPERTIES
  NothingIsInvented
  ConfirmationsAreKept
  TaughtIsKnown
CHECK_DEADLOCK FALSE
