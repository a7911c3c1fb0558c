CONSTANTS
  s1 = s1
  s2 = s2
  s3 = s3
  SymbolList <- MCSymbolList
  BarTimes <- MCBarTimes
  Parallelism <- MCParallelism
  BatchSize <- MCBatchSize
  Dur <- MCDur
  StartTime <- MCStartTime
  EndTime <- MCEndTime

SPECIFICATION Spec

INVARIANT TypeOK
INVARIANT NoSkippedBars
INVARIANT ConcurrencyBounded

PROPERTY BackfillTerminates
