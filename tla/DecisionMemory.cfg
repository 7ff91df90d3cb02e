\* The atomic syncs of one hotel: every history of four runs.
SPECIFICATION MemorySpec
CONSTANTS
  h1 = h1
  d1 = d1
  d2 = d2
  Property = {h1}
  Identity = {d1, d2}
  Reading = {1}
  Context = {1}
  Input <- MCInput
  MaxSequence = 4
INVARIANTS
  MemoryTypeOK
  RowMatchesHistory
  HistoryInOrder
  OneRunPerInput
  NothingForgotten
PROPERTIES
  AppendOnly
\* No caller has to bring a new input.
CHECK_DEADLOCK FALSE
