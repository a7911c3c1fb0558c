CONSTANTS
  sy1 = sy1
  Symbols <- MCSymbols
  Timeframe <- MCTimeframe
  UpdateFreq <- MCUpdateFreq
  StreamTypes <- MCKline
  BufferSize <- MCBufferSize
  MaxFrames = 3
  TradeTimes = {1000, 1500, 2000}
  Highs = {2, 3}
  Lows = {0, 1}
  Volumes = {1}

SPECIFICATION Spec

INVARIANT AggregateVolumeIsSum
