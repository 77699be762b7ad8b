CONSTANTS
  a = a
  b = b
  c = c
  s1 = s1
  s2 = s2
  s3 = s3
  s4 = s4
  s5 = s5
  NoEntry = NoEntry
  NoGroup = NoGroup
  NoSubmission = NoSubmission
  NoTarget = NoTarget
  NoResult = NoResult
  Fixtures <- ThreeFixtures
  Submissions = {s1, s2, s3}
  Scores <- HomeOrAway
  Plan <- DoublePlan
  Progression <- DoubleProgression
  Format <- Elimination
  EntryGroup <- ThreeEntries
  MaxRequests = 0
  Racing = {}
SPECIFICATION Spec
SYMMETRY SubmissionSymmetry
INVARIANTS
  EveryFixtureRecordable
CHECK_DEADLOCK FALSE
