SPECIFICATION FairSpec
CONSTANTS
  p1 = p1
  Payment = {p1}
  Message = {m1}
  PaymentOf <- OnePayment
  Attempts = {0, 2, 6}
  MaxAttempts = 3
  MaxEvents = 3
  Repeats = 1
  Prefetch = 1
  MaxLosses = 1
INVARIANTS
  TypeOK
  RowIsBacked
  InOrderIsCurrent
  ReceiptIsBacked
PROPERTIES
  KeepsContract
  EveryJobIsSettled
CHECK_DEADLOCK FALSE
