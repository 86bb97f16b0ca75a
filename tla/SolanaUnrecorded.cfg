\* One withdrawal of all the user has, no preparation beside it.
SPECIFICATION SolanaFairSpec
CONSTANTS
    Withdrawal = {x1}
    Amount = 1
    Total = 1
    Serial = {b1}
    Redeposit = FALSE
PROPERTY PayoutIsRecorded
CHECK_DEADLOCK FALSE
