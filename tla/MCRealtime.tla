----------------------------- MODULE MCRealtime -----------------------------
(* Realtime instantiated for TLC: one symbol (the aggregator is per        *)
(* symbol and fed by a single reader), three final klines with two highs   *)
(* and two lows each, and a buffer of two, so that one flush happens and   *)
(* a second buffer is left partly filled; or three trades at 1.0 s, 1.5 s  *)
(* and 2.0 s, so that two share a second and one does not; or three depth  *)
(* snapshots.                                                              *)
(*                                                                         *)
(* Timeframe, UpdateFreq and BufferSize are what ParseConfig makes of a    *)
(* plugin configuration that validateConfig accepts; StreamTypes holds the *)
(* stream types of the configurations a run checks.                        *)
EXTENDS Realtime, TLC

CONSTANTS sy1

MCSymbols == {sy1}

Cfg == INSTANCE Config WITH Now <- 10, Lower <- LAMBDA w : w

\* The plugin's configuration map with the Writer's timeframe tf, a stream
\* of type st (one-minute bars for klines), and a buffer of two.
Raw(tf, st) ==
  ("symbols" :> [kind |-> "list", val |-> 1])
  @@ ("timeframe" :> [kind |-> "string", val |-> tf])
  @@ ("realtime" :> [kind |-> "map", val |->
         ("enabled" :> [kind |-> "bool", val |-> TRUE])
         @@ ("stream_type" :> [kind |-> "string", val |-> st])
         @@ ("update_freq" :> [kind |-> "string", val |-> "1m"])
         @@ ("buffer_size" :> [kind |-> "float64", val |-> 2])])

\* An hourly store, and one whose timeframe is the stream's interval.
Parsed == Cfg!ParseConfig(Raw("1h", "kline"))
ParsedMinute == Cfg!ParseConfig(Raw("1m", "kline"))
ParsedOf(tf, st) == Cfg!ParseConfig(Raw(tf, st))

ASSUME /\ \A tf \in {"1h", "1m"}, st \in {"kline", "trade", "depth"} :
            ParsedOf(tf, st).ok /\ ParsedOf(tf, st).config.realtime.enabled

MCKline == {Parsed.config.realtime.streamType}
MCStreamTypes ==
  {ParsedOf("1h", st).config.realtime.streamType : st \in {"kline", "trade", "depth"}}
MCKlineTradeMinute ==
  {ParsedOf("1m", st).config.realtime.streamType : st \in {"kline", "trade"}}

MCTimeframe == Parsed.config.timeframe
MCTimeframeMinute == ParsedMinute.config.timeframe
MCUpdateFreq == Parsed.config.realtime.updateFreq
MCBufferSize == Parsed.config.realtime.bufferSize
=============================================================================
