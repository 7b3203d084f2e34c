SPECIFICATION Spec
CONSTANTS
  s1 = s1
  s2 = s2
  w1 = w1
  w2 = w2
  alice = alice
  bob = bob
  NoWallet = NoWallet
  Collector = collector
  Senders = {alice}
  Recipients = {alice, bob}
  FeeNum = 1
  FeeDen = 10
  SourceUnit = 4
  DestinationUnit = 1
  MinSwapAmount = 4
  MaxSwapAmount = 60
  Asked = {43}
  Transferred = {60}
  Reserve = 40
  NormalAttempts = 1
  ExtendedAttempts = 1
  UltimateAttempts = 1
  MaxStalls = 0
  MaxTransfers = 1
  MaxFaults = 0
  MaxAge = 0
  Swaps = {s1}
  Wallets = {w1}
  RecipientOf <- SameRecipient
CHECK_DEADLOCK FALSE
INVARIANT CompletedIsPaid
