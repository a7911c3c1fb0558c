------------------------------ MODULE MCFeeder ------------------------------
(* Feeder for TLC with both feeds enabled: one symbol, backfilled over two *)
(* windows and streamed one bar with a buffer of one, so that a flush, a   *)
(* cancellation in the middle of either feed and both joins are reached.   *)
(*                                                                         *)
(* Every constant but the exchange's bars and prices is what ParseConfig   *)
(* makes of one plugin configuration that validateConfig accepts; its     *)
(* backfill section leaves end_time out, so validateConfig fills in Now.  *)
EXTENDS Feeder, TLC

CONSTANTS s1

MCSymbolList == <<s1>>
MCBarTimes == 1..4

Cfg == INSTANCE Config WITH Now <- 4, Lower <- LAMBDA w : w

Raw(st) ==
  ("symbols" :> [kind |-> "list", val |-> 1])
  @@ ("timeframe" :> [kind |-> "string", val |-> "1h"])
  @@ ("backfill" :> [kind |-> "map", val |->
         ("enabled" :> [kind |-> "bool", val |-> TRUE])
         @@ ("start_time" :> [kind |-> "string", val |-> 1])
         @@ ("batch_size" :> [kind |-> "float64", val |-> 2])
         @@ ("parallelism" :> [kind |-> "float64", val |-> 1])])
  @@ ("realtime" :> [kind |-> "map", val |->
         ("enabled" :> [kind |-> "bool", val |-> TRUE])
         @@ ("stream_type" :> [kind |-> "string", val |-> st])
         @@ ("update_freq" :> [kind |-> "string", val |-> "1m"])
         @@ ("buffer_size" :> [kind |-> "float64", val |-> 1])])

\* The same configuration with a kline or a trade stream.
Parsed == Cfg!ParseConfig(Raw("kline"))
ParsedTrade == Cfg!ParseConfig(Raw("trade"))

ASSUME Parsed.ok /\ ParsedTrade.ok

MCBackfillEnabled == Parsed.config.backfill.enabled
MCRealtimeEnabled == Parsed.config.realtime.enabled
MCParallelism == Parsed.config.backfill.parallelism
MCBatchSize == Parsed.config.backfill.batchSize
MCDur == Cfg!IntervalMinutes(Parsed.config.backfill.interval)
MCStartTime == Parsed.config.backfill.startTime
MCEndTime == Parsed.config.backfill.endTime
MCTimeframe == Parsed.config.timeframe
MCUpdateFreq == Parsed.config.realtime.updateFreq
MCBufferSize == Parsed.config.realtime.bufferSize
MCStreamTypes == {Parsed.config.realtime.streamType, ParsedTrade.config.realtime.streamType}
=============================================================================
