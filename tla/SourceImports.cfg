\* Imports of a workspace, with crashes, refused statements and an operator.
SPECIFICATION Spec
CONSTANTS
  None = None
  h1 = h1
  h2 = h2
  v1 = v1
  n1 = n1
  n2 = n2
  Similar <- MCSimilar
  MaxReviews = 3
  Request <- MCRequest
  MaxImports = 2
  ByHand <- MCByHand
  MaxEvents = 1
INVARIANTS
  FailedImportLeavesNothingOn
  ImportsMakeOneSource
  WritesAreNeverRejected
  
PROPERTIES
  SwitchedOffByItsOwner
  EveryImportEnds
  WholeImportsOnly
\* The imports are bounded: the system stops after the last.
CHECK_DEADLOCK FALSE
