SPECIFICATION FairSpec
CONSTANTS
  r1 = r1
  r2 = r2
  r3 = r3
  Receipts = {r2, r3}
  NumActions <- MCNumActions
  FailedReceipts = {}
  NextInTx <- MCNextInTx
  NumEntries = 2
  ReceiptOf <- MCShortReceipts
  Consumer = consumer
  Retriers = {t1, t2}
  Wallets = {}
  None = None
  UseDynamo = FALSE
  BatchSizes = {1}
  MaxAttempts = 3
  MaxFaults = 2
  MaxOutages = 0
  MaxCrashes = 1
  MaxCallbacks = 0
INVARIANT
  ResolvedMeansDone
PROPERTIES
  ReceiptsHandled
  ErrorsResolved
