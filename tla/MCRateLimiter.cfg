CONSTANTS
  c1 = c1
  c2 = c2
  c3 = c3
  NoCall = NoCall
  NoHolder = NoHolder
  Callers <- MCCallers
  Interval = 2
  MaxCalls = 2
  MaxTime = 3

SPECIFICATION Spec

INVARIANT TypeOK
PROPERTY ImplementsRateLimit

PROPERTY WaitReturns
