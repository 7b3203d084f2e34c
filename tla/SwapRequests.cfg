SPECIFICATION FairSpec
CONSTANTS
  c1 = c1
  c2 = c2
  a1 = a1
  a2 = a2
  s1 = s1
  s2 = s2
  s3 = s3
  s4 = s4
  s5 = s5
  w1 = w1
  w2 = w2
  w3 = w3
  NoWallet = NoWallet
  Clients = {c1, c2}
  Addresses = {a1}
  Swaps = {s1, s2, s3}
  Wallets = {w1, w2}
  Limit = 0
  MaxFaults = 2
INVARIANT PendingAreFew
PROPERTY ServedAgain
CHECK_DEADLOCK FALSE
