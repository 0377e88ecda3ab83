SPECIFICATION TransactionSpec
CONSTANTS
  Terms = {"t1", "t2"}
  MaxStamp = 1
INVARIANT ReceiptBindsBoth
CHECK_DEADLOCK FALSE
