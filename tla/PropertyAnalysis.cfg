\* Two analyses, manual or of the policy, two imports, one midnight.
SPECIFICATION Spec
CONSTANTS
  s1 = s1
  s2 = s2
  Session = {s1, s2}
  Night <- MCNight
  Books <- MCBooks
  FirstBooks <- MCFirst
  ManualWindow <- MCManualWindow
  WindowDays = 2
  DayLength = 2
  MaxClock = 2
  MaxImports = 2
SYMMETRY MCSymmetry
INVARIANTS
  TypeOK
  SnapshotIsOfItsInstant
  RunReadsOneState
  RunsOfADayAgree
  ProvenanceCoversTheRun
  MixMatchesTheSnapshots
  AutomaticRunReadsTodaysImport
\* The sessions of the model are used up.
CHECK_DEADLOCK FALSE
