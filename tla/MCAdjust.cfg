CONSTANTS
  EpochTimes = {1, 2, 3}
  ChangeTimes = {1, 2, 3, 4}
  MaxRows = 2
  Values = {7}
  Rates = {2, 3}
  MaxChanges = 2
  ArgLists <- MCArgLists
  Lower <- MCLower
  MaxInt64 = 1000
  Shape <- MCShape
SPECIFICATION Spec
INVARIANT TypeOK
INVARIANT AdjustedByLaterChanges
INVARIANT OutputKeepsColumns
