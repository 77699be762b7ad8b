CONSTANTS
  NONE = NONE
  a = a
  b = b
  c = c
  o1 = o1
  o2 = o2
  Organisers = {o1, o2}
  Lists <- EntryLists
  Legs = 1
  HomeAwayMode = "BALANCED"
  ManualRounds = {2, 3}
  MaxRows = 6
  MaxByHand = 2
  Racing = {"GENERATE", "ADD", "PUBLISH"}
SYMMETRY Alike
SPECIFICATION Spec
PROPERTIES
  PublishesRoundRobin
  PublishedStand
CHECK_DEADLOCK FALSE
