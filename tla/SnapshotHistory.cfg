SPECIFICATION Spec
CONSTANTS
  Nothing = Nothing
  group = group
  couple = couple
  NoInstant = Nothing
  NoNumber = Nothing
  DayLength = 2
  Week = 1
  HorizonDays = 2
  SeasonalWindow = 2
  LeapLength = 7
  CommonLength = 6
  LeapPosition <- MCLeapPosition
  CommonPosition <- MCCommonPosition
  MinSample = 2
  MaxSample = 2
  Saturation = 3
  PickupWindow = 1
  MinPairs = 2
  MaxPairs = 2
  Histories <- MCHistories
  Zones <- MCZones
  Capacities <- MCCapacities
  LastInstant = 6
  ImportInstants = {1, 4}
  Ranges <- MCRanges
  Nights = {1, 2, 3, 4}
INVARIANTS
  ReconstructionIsOfThePast
  ReconstructionBoundsTheTruth
  NoHindsight
PROPERTY
  EvidenceStands
CHECK_DEADLOCK FALSE
