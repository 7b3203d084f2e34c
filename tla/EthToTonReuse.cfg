SPECIFICATION Spec
CONSTANTS
  s1 = s1
  s2 = s2
  w1 = w1
  w2 = w2
  alice = alice
  bob = bob
  NoWallet = NoWallet
  Recipients = {alice, bob}
  FeeNum = 1
  FeeDen = 10
  SourceUnit = 4
  DestinationUnit = 1
  MinSwapAmount = 4
  MaxSwapAmount = 60
  Asked = {43}
  Transferred = {40}
  TotalConfirmations = 2
  LookBack = 1
  NormalAttempts = 1
  ExtendedAttempts = 1
  UltimateAttempts = 1
  MaxStalls = 0
  MaxBlock = 3
  MaxIncoming = 2
  MaxOthers = 0
  MaxTransfers = 1
  MaxFaults = 0
  MaxAge = 2
  Swaps = {s1, s2}
  Wallets = {w1}
  RecipientOf <- SameRecipient
CHECK_DEADLOCK FALSE
SYMMETRY SwapSymmetry
INVARIANT MintsAreCovered
