CONSTANTS
  t1 = t1 t2 = t2
  Tools = {t1, t2}
  SlotsPerDay = 2
  DaysPerWeek = 2
  GraceSlots = 1
  MaxSlot = 4
  Schedules <- ShopSchedules
  MaxSets = 3
  MaxCrashes = 1
  MaxErrors = 1
SPECIFICATION Spec
SYMMETRY ToolSymmetry
INVARIANTS TypeOK OneDeliveryPerPeriod TriggersFollowPreferences
CHECK_DEADLOCK FALSE
