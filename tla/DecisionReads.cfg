\* Lists, histories and feeds read while syncs commit.
SPECIFICATION Spec
CONSTANTS
  h1 = h1
  d1 = d1
  d2 = d2
  d3 = d3
  Property = {h1}
  Identity = {d1, d2, d3}
  Reading = {1}
  Context = {1}
  Input <- MCInput
  MaxSequence = 4
  IdOrder <- MCIdOrder
  Limit = 1
INVARIANTS
  ListNeverRepeats
  ListMissesNothingUntouched
  ItemsHaveTheirObservation
  HistoryIsWhole
  FeedIsTheRuns
\* No caller has to bring a new input.
CHECK_DEADLOCK FALSE
