SPECIFICATION FairSpec
CONSTANTS
  s1 = s1
  s2 = s2
  w1 = w1
  w2 = w2
  alice = alice
  bob = bob
  NoWallet = NoWallet
  Recipients = {alice, bob}
  FeeNum = 1
  FeeDen = 10
  SourceUnit = 4
  DestinationUnit = 1
  MinSwapAmount = 4
  MaxSwapAmount = 120
  Asked = {43}
  Transferred = {40, 20}
  TotalConfirmations = 3
  LookBack = 1
  NormalAttempts = 2
  ExtendedAttempts = 2
  UltimateAttempts = 1
  MaxStalls = 1
  MaxBlock = 5
  MaxIncoming = 1
  MaxOthers = 0
  MaxTransfers = 2
  MaxFaults = 2
  MaxAge = 3
  Swaps = {s1}
  Wallets = {w1}
  RecipientOf <- SameRecipient
CHECK_DEADLOCK FALSE
INVARIANT TypeOK
INVARIANT NoValueCreated
INVARIANT QuoteOverpaysBelowUnit
INVARIANT RecalculatedIsCharged
INVARIANT MintBacked
INVARIANT MintWithinTransfer
INVARIANT NoTransferPassedOver
INVARIANT InUseIsHeld
INVARIANT NoSwapIsForgotten
INVARIANT RepeatsAreBounded
PROPERTY FinalButForLatecomers
PROPERTY TransferIsKept
PROPERTY ImplementsPromise
PROPERTY EverySwapSettles
PROPERTY EveryWalletReturns
