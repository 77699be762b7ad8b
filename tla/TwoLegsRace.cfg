CONSTANTS
  a = a
  b = b
  c = c
  s1 = s1
  s2 = s2
  s3 = s3
  s4 = s4
  s5 = s5
  NoEntry = NoEntry
  NoGroup = NoGroup
  NoSubmission = NoSubmission
  NoTarget = NoTarget
  NoResult = NoResult
  Fixtures <- TwoFixtures
  Submissions = {s1, s2, s3}
  Scores <- HomeAwayOrDraw
  Plan <- TwoLegsPlan
  Progression <- StageOnlyTwo
  Format <- TwoLegs
  EntryGroup <- TwoEntries
  MaxRequests = 2
  Racing = {"SCHEDULE", "POSTPONE", "CANCEL"}
SPECIFICATION Spec
SYMMETRY SubmissionSymmetry
INVARIANTS
  TypeOK
  SubmissionIntegrity
  LedgerBalanced
  NoPhantomResult
  EveryResultCounts
  EveryFixtureRecordable
  ChampionIsCurrent
PROPERTY VerdictsFinal
CHECK_DEADLOCK FALSE
