CONSTANTS
  a = a
  b = b
  c = c
  p = p
  pAgain = pAgain
  q = q
  NoEntry = NoEntry
  Entries <- SixRows
  Name <- TeamName
  Players <- TeamPlayers
  SelfMade <- Registering
  Batches <- TwoLists
  MaxEntries = 3
  Modes <- Alternatives
  Legs = 2
  MaxRequests = 2
SPECIFICATION Spec
CHECK_DEADLOCK FALSE
INVARIANTS
  CapacityHeld
  PlacesDistinct
  PlanProper
PROPERTY ScheduledAsApproved
