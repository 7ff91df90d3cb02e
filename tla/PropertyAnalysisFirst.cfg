\* A manual run beats the job between the job's check and its run.
SPECIFICATION Spec
CONSTANTS
  s1 = s1
  s2 = s2
  Session = {s1, s2}
  Night <- MCNight
  Books <- MCBooks
  FirstBooks <- MCFirst
  ManualWindow <- MCManualWindow
  WindowDays = 2
  DayLength = 2
  MaxClock = 2
  MaxImports = 2
INVARIANTS
  AutomaticRunIsFirstOfItsDay
CHECK_DEADLOCK FALSE
