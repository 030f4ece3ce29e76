SPECIFICATION WalletSpec
CONSTANTS
  Jobs = {1, 2, 3, 4}
  Quote <- MCQuote
  Initial = 3
  Actuals = {0, 1, 3}
  Amounts = {1, 2}
  MaxBalance = 5
INVARIANTS
  WalletTypeOK
  HeldIsHolds
  NeverOverdrawn
PROPERTIES
  ImplementsAccount
CHECK_DEADLOCK FALSE
