SPECIFICATION FairSpec
CONSTANTS
  Stores = {"receipts", "reconciliation"}
  Keyed = {"reconciliation"}
  NoId = 0
  MaxId = 9
  MaxTrouble = 2
  Legacy <- MCLegacy
INVARIANT CountedOnce
INVARIANT NoReferenceDangles
PROPERTY OrderlyMigration
PROPERTY HealthyEnds
CHECK_DEADLOCK FALSE
