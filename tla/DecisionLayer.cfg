\* Two sessions sharing the tables: every interleaving of their statements over
\* three runs, with fair statements and lock grants.
SPECIFICATION FairSpec
CONSTANTS
  h1 = h1
  h2 = h2
  d1 = d1
  d2 = d2
  Nobody = Nobody
  NoInput = NoInput
  Process = {p1, p2}
  Property = {h1, h2}
  Identity = {d1, d2}
  Reading = {1, 2}
  Context = {1, 2}
  Input <- MCInput
  MaxSequence = 3
INVARIANTS
  TypeOK
  ReadsStayTrue
PROPERTIES
  SyncIsAtomic
  EverySyncEnds
