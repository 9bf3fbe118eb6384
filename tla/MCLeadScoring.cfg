CONSTANTS
  Day = 1
  NoActivity = NoActivity
  MaxCount = 3
  MaxAge = 16
SPECIFICATION LifeSpec
INVARIANTS
  ReasonsAddUp
PROPERTIES
  ContactNeverHurts
  IdleScoreOnlyFalls
