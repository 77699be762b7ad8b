CONSTANTS
  NONE = NONE
  a = a
  b = b
  c = c
  o1 = o1
  o2 = o2
  Organisers = {o1, o2}
  Lists <- EntryLists
  Legs = 1
  HomeAwayMode = "RANDOM"
  ManualRounds = {1, 2}
  MaxRows = 6
  MaxByHand = 2
  Racing = {}

SPECIFICATION Spec
CHECK_DEADLOCK FALSE
INVARIANT MeetingsLimited
