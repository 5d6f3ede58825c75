SPECIFICATION FairSpec
CONSTANTS
  s1 = s1
  s2 = s2
  s3 = s3
  c1 = c1
  c2 = c2
  k1 = k1
  k2 = k2
  p1 = p1
  p2 = p2
  Senders <- TwoSenders
  Closers <- TwoClosers
  Keys <- TwoKeys
  Payloads <- OnePayload
  MaxConcurrent = 1
  MaxPending = 2
  MaxTracked = 2
  MaxSends = 3
INVARIANTS
  TypeOK
  SlotsBalance
  ClientOutlivesRequests
  NothingIsAbandoned
PROPERTIES
  CloseEnds
CHECK_DEADLOCK FALSE
