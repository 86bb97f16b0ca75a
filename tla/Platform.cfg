SPECIFICATION PlatformSpec
CONSTANTS
  p1 = p1
  p2 = p2
  s1 = s1
  s2 = s2
  x1 = x1
  o1 = o1
  o2 = o2
  u1 = u1
  Payment = {p1, p2}
  Slot = {s1, s2}
  MaxJobs = 2
  Fee = {1}
  MaxNonce = 2
  Withdrawal = {x1}
  Amount = 2
  Total = 2
  Serial = {1, 2}
  Redeposit = TRUE
  Stake = 2
  PaidBack = {3}
  Elsewhere = {1}
  Told = {"external_close"}
  MaxCloses = 2
  MaxTellings = 2
  Order = {o1, o2}
  Setup = {u1}
  BaseNonces = 3
  MaxRestarts = 1
  Price = {1, 2}
  MaxSecond = 2
  MaxSequence = 3
  MaxProcess = 2
  QueueLimit = 2
  Retention = 0
  Market = {1, 2}
  MaxTrades = 1
  MaxCloseTries = 2
  MaxSwitches = 2
  MaxExecutions = 2
  MaxLocalRestarts = 1
INVARIANTS
  TypeOK StoredBeforeSent PaidOnce ConfirmedIsPaid FailedWithdrawalIsHarmless
  NoNonceGap NonceKept NoLivePositionBesideWithdrawal
  SolanaPaidOnce SolanaConfirmedIsPaid
  ResultNetsGas ReconciledIsTrue ChargedOnce
  FailedOrderIsHarmless GapIsRecoverable
  BarIsTrue AcceptedIsKept
  ResultShownOnce ResultIsNew
  OneOpenInFlight
PROPERTIES WithdrawalSettlesOnce RunningIsOwned
CHECK_DEADLOCK FALSE
