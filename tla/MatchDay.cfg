CONSTANTS
  Fixtures = {1, 2, 3}
  Home <- ThreeHome
  Away <- ThreeAway
  Planned <- ThreePlanned
  LastOfLeg = 3
  Matchdays = 3
  Days = 2
  Slots = 1
  Duration = 1
  SlotSteps = {1}
  DayLimit = 2
  EntryLimit = 1
  Moves = {2}
  Callers <- Host
  MaxRequests = 2
SPECIFICATION Spec
INVARIANTS
  DayLimitsHold
  MatchdaysProper
PROPERTY SmartNeverMoves
