CONSTANTS
  s1 = s1
  BackfillEnabled <- MCBackfillEnabled
  RealtimeEnabled <- MCRealtimeEnabled
  SymbolList <- MCSymbolList
  BarTimes <- MCBarTimes
  Parallelism <- MCParallelism
  BatchSize <- MCBatchSize
  Dur <- MCDur
  StartTime <- MCStartTime
  EndTime <- MCEndTime
  Timeframe <- MCTimeframe
  UpdateFreq <- MCUpdateFreq
  BufferSize <- MCBufferSize
  MaxFrames = 1
  TradeTimes = {1000}
  StreamTypes <- MCStreamTypes
  Highs = {1}
  Lows = {0}
  Volumes = {1}

SPECIFICATION Spec

INVARIANT TypeOK

PROPERTY FeederStops
