SPECIFICATION FairSpec
CONSTANTS
  r1 = r1
  r2 = r2
  r3 = r3
  Receipts = {r1, r2}
  NumActions <- MCNumActions
  FailedReceipts = {}
  NextInTx <- MCNextInTx
  NumEntries = 2
  ReceiptOf <- MCReceiptOf
  Consumer = consumer
  Retriers = {t1}
  Wallets = {}
  None = None
  UseDynamo = FALSE
  BatchSizes = {1, 2}
  MaxAttempts = 2
  MaxFaults = 1
  MaxOutages = 1
  MaxCrashes = 0
  MaxCallbacks = 0
PROPERTY
  FailedReceiptsPassed
