SPECIFICATION FairSpec
CONSTANTS
  Table <- MCTable
  Under <- MCUnder
  BadPrefixes = {"bad"}
  PageLimit = 2
  Services = {"s3", "fixture", "rogue"}
  MaxTransfers = 2
  MaxChanges = 3
INVARIANTS
  ListedFaithfully
  HonestPagesAccepted
  SlotReturned
PROPERTY
  ListEnds
