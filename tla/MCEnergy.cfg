CONSTANTS
  Free = Free
  Minute = 2
  End = 6
  N = 3
  SlotTicks = 2
  Full = 16
  Charger = 4
  Capacity = 12
  Reserve = 0
  Power = 8
  Loss = 2
  Hvac = 2
  Outdoor = 0
  Resistance = 32
  Cycle = 3
  BaseLoad = 4
  ApplianceLoad = 4
  Wear = 1
  Gap = 100
  MaxCrashes = 1
  Tolerance = 1
  Talk = 2
  MaxSaid = 2
  HoldTicks = 4
  Residents <- MCResidents
  Role <- MCRole
  Specs <- MCSpecs
  Phrases <- MCPhrases
  Local <- MCLocal
  Rates <- MCRates
  Night = {3}
  Price <- MCPrice
  Solar <- MCSolar
  Outside <- MCOutside
  Timetable <- MCTimetable
  Device <- MCDevice
  Inputs <- MCInputs
SPECIFICATION EnergySpec
INVARIANTS PlanDelivers OptimalIsBest TimetableKept OwnEffectsPredicted RequestsHonoured
CHECK_DEADLOCK FALSE
