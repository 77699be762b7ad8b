CONSTANTS
  p = p
  q = q
  r = r
  h = h
  a = a
  Nobody = Nobody
  Members <- OneReserve
  Admins = {h, a}
  AdminOf <- OneEach
  PlayerCount = 1
  Legs = 2
  Award <- Standard
  Scores <- OneNil
  MaxRequests = 2
SPECIFICATION Spec
SYMMETRY Reserves
INVARIANTS
  PairingsProper
  CountedIsAgreed
  WalkoverCounts
  WinnerIsLeader
PROPERTY DisputeStands
