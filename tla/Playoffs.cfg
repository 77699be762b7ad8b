CONSTANTS
  Formats = {"GLOBAL_SEEDED", "PROTECTED_SEED", "DOUBLE_CHANCE"}
  Sizes = {2, 3, 4, 5, 6, 9}
  GroupCounts = {2, 3, 4}
  CupSizes = {3, 5, 6, 7, 10}
  MaxRevisions = 1
SPECIFICATION Spec
INVARIANTS
  EveryEntryHasItsFixture
  FavouritesApart
  RematchOnlyInFinal
  LeaguePhaseFair
PROPERTY
  DrawnAsRanked
