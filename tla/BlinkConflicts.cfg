SPECIFICATION Spec
CONSTANTS
  n1 = n1
  n2 = n2
  n3 = n3
  tx1 = tx1
  tx2 = tx2
  tx3 = tx3
  Nodes <- Everyone
  Self = n1
  Quorum <- OneShort
  Interval = 2
  Lag = 2
  MinVotes = 2
  Size = 3
  Blinks <- TwoBlinks
  Plain <- NoPlain
  Inputs <- OneImage
  Asks <- OneBlink
  MaxThreads = 2
  MaxRestarts = 0
  MaxDropped = 0
SYMMETRY Others
INVARIANTS
  TypeOK
  NoConflictingBlinks
  OneVerdict
  ApproverRelays
CHECK_DEADLOCK FALSE
