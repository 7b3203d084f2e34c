SPECIFICATION FairSpec
CONSTANTS
  s1 = s1
  s2 = s2
  w1 = w1
  w2 = w2
  alice = alice
  bob = bob
  NoWallet = NoWallet
  Collector = collector
  Senders = {alice}
  Recipients = {alice, bob}
  FeeNum = 1
  FeeDen = 10
  SourceUnit = 4
  DestinationUnit = 1
  MinSwapAmount = 4
  MaxSwapAmount = 60
  Asked = {43}
  Transferred = {44, 0}
  Reserve = 60
  NormalAttempts = 1
  ExtendedAttempts = 2
  UltimateAttempts = 1
  MaxStalls = 1
  MaxTransfers = 2
  MaxFaults = 2
  MaxAge = 3
  Swaps = {s1}
  Wallets = {w1}
  RecipientOf <- SameRecipient
CHECK_DEADLOCK FALSE
INVARIANT NoSwapIsForgotten
INVARIANT PayoutBacked
INVARIANT PayoutWithinTransfer
INVARIANT ChargedAfterPayout
INVARIANT RepeatsAreBounded
PROPERTY ImplementsPromise
PROPERTY EverySwapSettles
