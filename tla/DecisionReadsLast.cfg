\* A run of the day commits between the two statements of a feed.
SPECIFICATION Spec
CONSTANTS
  h1 = h1
  d1 = d1
  d2 = d2
  d3 = d3
  Property = {h1}
  Identity = {d1, d2, d3}
  Reading = {1}
  Context = {1}
  Input <- MCInput
  MaxSequence = 2
  IdOrder <- MCIdOrder
  Limit = 1
\* No caller has to bring a new input.
CHECK_DEADLOCK FALSE
INVARIANTS
  LastAnalysisIsAnotherDay
