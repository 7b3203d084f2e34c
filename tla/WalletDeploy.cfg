SPECIFICATION FairSpec
CONSTANTS
  g = g
  w1 = w1
  w2 = w2
  Null = Null
  NaN = NaN
  Wallets = {g, w1}
  New = {w1}
  Giver = g
  Amount = 1
  Attempts = 2
  MaxStalls = 1
  MaxByHand = 1
  MaxCredits = 3
  MaxAsides = 1
  MaxFaults = 2
INVARIANT GiverPaysBounded
INVARIANT WipesBounded
PROPERTY EveryWalletIsDeployed
CHECK_DEADLOCK FALSE
