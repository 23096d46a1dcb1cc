SPECIFICATION FairSpec
CONSTANTS
  n1 = n1
  n2 = n2
  n3 = n3
  tx1 = tx1
  tx2 = tx2
  tx3 = tx3
  Nodes <- Everyone
  Self = n1
  Quorum <- AllThree
  Interval = 2
  Lag = 2
  MinVotes = 2
  Size = 3
  Blinks <- OneBlink
  Plain <- OnePlain
  Inputs <- OneImage
  Asks <- NoPlain
  MaxThreads = 2
  MaxRestarts = 1
  MaxDropped = 1
INVARIANT
  RelayedIsApproved
PROPERTIES
  VotesAsPromised
  StoredIsSigned
CHECK_DEADLOCK FALSE
