\* The answer of a replay against what DecisionSyncResult says of it.
SPECIFICATION Spec
CONSTANTS
  h1 = h1
  h2 = h2
  d1 = d1
  d2 = d2
  Nobody = Nobody
  NoInput = NoInput
  Process = {p1, p2}
  Property = {h1, h2}
  Identity = {d1, d2}
  Reading = {1, 2}
  Context = {1, 2}
  Input <- MCInput
  MaxSequence = 2
INVARIANTS
  ReplayCountsAreTheOriginals
