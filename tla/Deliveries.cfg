SPECIFICATION Spec
CONSTANTS
  s1 = s1
  s2 = s2
  s3 = s3
  c1 = c1
  c2 = c2
  k1 = k1
  k2 = k2
  p1 = p1
  p2 = p2
  Senders <- ThreeSenders
  Closers <- OneCloser
  Keys <- TwoKeys
  Payloads <- TwoPayloads
  MaxConcurrent = 2
  MaxPending = 2
  MaxTracked = 1
  MaxSends = 4
SYMMETRY ThreadsAlike
INVARIANTS
  SingleFlight
  OneMessagePerKey
  ReceiptIsEarned
PROPERTIES
  DeliveredOnce
CHECK_DEADLOCK FALSE
