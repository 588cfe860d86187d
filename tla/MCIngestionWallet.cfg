SPECIFICATION Spec
CONSTANTS
  r1 = r1
  r2 = r2
  r3 = r3
  Receipts = {r1, r2, r3}
  NumActions <- MCNumActions
  FailedReceipts = {r3}
  NextInTx <- MCNextInTx
  NumEntries = 4
  ReceiptOf <- MCRedelivered
  Consumer = consumer
  Retriers = {t1}
  Wallets = {w1}
  None = None
  UseDynamo = TRUE
  BatchSizes = {1, 2}
  MaxAttempts = 2
  MaxFaults = 1
  MaxOutages = 1
  MaxCrashes = 1
  MaxCallbacks = 1
INVARIANTS
  MarkedAfterEffects
  AppliedInOrder
  NoReceiptLost
PROPERTIES
  ImplementsLedger
