CONSTANTS
  sy1 = sy1
  Symbols <- MCSymbols
  Timeframe <- MCTimeframe
  UpdateFreq <- MCUpdateFreq
  StreamTypes <- MCStreamTypes
  BufferSize <- MCBufferSize
  MaxFrames = 3
  TradeTimes = {1000, 2000, 61000}
  Highs = {2, 3}
  Lows = {0, 1}
  Volumes = {1}

SPECIFICATION Spec

INVARIANT TypeOK
INVARIANT EveryBarAggregatedOnce
INVARIANT AggregatePricesMatchSpec
 

PROPERTY RealtimeShutsDown
