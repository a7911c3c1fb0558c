----------------------------- MODULE MCBackfill -----------------------------
(* Backfill instantiated for TLC: three symbols, a pool of two, and a      *)
(* range of three bar times split into windows of two bars, so that one *)
(* symbol waits for a token, the last window is clipped at EndTime, and    *)
(* the bar opening each window is also the last bar time of the previous.  *)
(*                                                                         *)
(* Pool size, batch size, range and interval are what ParseConfig makes of *)
(* a plugin configuration that validateConfig accepts; one minute is one   *)
(* tick.                                                                   *)
EXTENDS Backfill, TLC

CONSTANTS s1, s2, s3

MCSymbolList == <<s1, s2, s3>>
MCBarTimes == 1..7

MCLower(w) == IF w = "Yes" THEN "yes" ELSE w

Cfg == INSTANCE Config WITH Now <- 10, Lower <- MCLower

\* The plugin's configuration map: JSON numbers, RFC3339 times (here their
\* ticks), backfill enabled by the string "Yes".
Raw(batchSize) ==
  ("symbols" :> [kind |-> "list", val |-> 3])
  @@ ("backfill" :> [kind |-> "map", val |->
         ("enabled" :> [kind |-> "string", val |-> "Yes"])
         @@ ("start_time" :> [kind |-> "string", val |-> 1])
         @@ ("end_time" :> [kind |-> "string", val |-> 4])
         @@ ("batch_size" :> [kind |-> "float64", val |-> batchSize])
         @@ ("parallelism" :> [kind |-> "float64", val |-> 2])
         @@ ("interval" :> [kind |-> "string", val |-> "1m"])])

\* batch_size 2, and batch_size 0, which validateConfig lets through.
Parsed == Cfg!ParseConfig(Raw(2))
ParsedZeroBatch == Cfg!ParseConfig(Raw(0))

ASSUME Parsed.ok /\ ParsedZeroBatch.ok

MCParallelism == Parsed.config.backfill.parallelism
MCBatchSize == Parsed.config.backfill.batchSize
MCZeroBatchSize == ParsedZeroBatch.config.backfill.batchSize
MCStartTime == Parsed.config.backfill.startTime
MCEndTime == Parsed.config.backfill.endTime
MCDur == Cfg!IntervalMinutes(Parsed.config.backfill.interval)
=============================================================================
