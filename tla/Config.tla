------------------------------- MODULE Config -------------------------------
(***************************************************************************)
(* ParseConfig and validateConfig of contrib/binancefeeder_v2/configs/     *)
(* config.go, as operators.                                                *)
(*                                                                         *)
(* The raw configuration is the map the plugin receives: a function from   *)
(* key to a value tagged with its dynamic Go type, "bool", "string",       *)
(* "float64" (a JSON number), "int" (a YAML integer), "list" or "map".  A  *)
(* type assertion conf[k].(T) succeeds only for a present key of that      *)
(* type.  A time given as a string is either a tick (it parses as RFC3339) *)
(* or a word (it does not); the zero time.Time is ZeroTime.                *)
(***************************************************************************)
EXTENDS Naturals, Integers, TLC

CONSTANTS
  Now,        \* time.Now() when validateConfig defaults EndTime
  Lower(_)    \* strings.ToLower over the words a configuration holds

ZeroTime == 0

\* conf[k].(kind) succeeds.
Has(m, k, kind) == k \in DOMAIN m /\ m[k].kind = kind

\* toStringMap: a map[string]interface{} or map[interface{}]interface{}
\* (keys printed with fmt.Sprint, here already strings); anything else nil.
IsMap(m, k) == Has(m, k, "map")

\* conf[k].(string) or, when the assertion fails, the default.
StringOr(m, k, default) == IF Has(m, k, "string") THEN m[k].val ELSE default

\* conf[k].(float64) converted with int(), or, when it fails, the default.
NumberOr(m, k, default) == IF Has(m, k, "float64") THEN m[k].val ELSE default

\* time.Parse(time.RFC3339, s) on a string; on any failure the field
\* keeps its zero value.
TimeOf(m, k) ==
  IF Has(m, k, "string") /\ m[k].val \in Nat THEN m[k].val ELSE ZeroTime

\* backfill.enabled: a bool, or a string read as "true", "yes" or "1".
Enabled(m) ==
  CASE Has(m, "enabled", "bool")   -> m["enabled"].val
    [] Has(m, "enabled", "string") -> Lower(m["enabled"].val) \in {"true", "yes", "1"}
    [] OTHER                       -> FALSE

NoBackfill ==
  [enabled |-> FALSE, startTime |-> ZeroTime, endTime |-> ZeroTime,
   batchSize |-> 0, parallelism |-> 0, interval |-> ""]

\* The "backfill" section; the zero BackfillConfig when it is absent or
\* not a map.
ParseBackfill(conf) ==
  IF ~IsMap(conf, "backfill") THEN NoBackfill
  ELSE LET b == conf["backfill"].val
       IN  [enabled |-> Enabled(b),
            startTime |-> TimeOf(b, "start_time"),
            endTime |-> TimeOf(b, "end_time"),
            batchSize |-> NumberOr(b, "batch_size", 1000),
            parallelism |-> NumberOr(b, "parallelism", 5),
            interval |-> StringOr(b, "interval", "1m")]

NoRealtime ==
  [enabled |-> FALSE, streamType |-> "", updateFreq |-> "", bufferSize |-> 0,
   maxRetries |-> 0, retryDelay |-> ""]

\* The "realtime" section; enabled is read only as a bool.
ParseRealtime(conf) ==
  IF ~IsMap(conf, "realtime") THEN NoRealtime
  ELSE LET r == conf["realtime"].val
       IN  [enabled |-> Has(r, "enabled", "bool") /\ r["enabled"].val,
            streamType |-> StringOr(r, "stream_type", "kline"),
            updateFreq |-> StringOr(r, "update_freq", "1s"),
            bufferSize |-> NumberOr(r, "buffer_size", 1000),
            maxRetries |-> NumberOr(r, "max_retries", 3),
            retryDelay |-> StringOr(r, "retry_delay", "5s")]

ValidTimeframes == {"1m", "3m", "5m", "15m", "30m", "1h", "4h", "1d", "1w"}

ValidStreamTypes == {"kline", "trade", "depth"}

\* validateConfig: the checks in order, and the EndTime it fills in for an
\* enabled backfill (through the *Config pointer).
ValidateConfig(c) ==
  LET b == c.backfill
      endTime == IF b.endTime = ZeroTime THEN Now ELSE b.endTime
      ok == /\ c.timeframe \in ValidTimeframes
            /\ c.symbols > 0
            /\ b.enabled => /\ b.startTime # ZeroTime
                            /\ ~(b.startTime > endTime)
                            /\ b.interval \in ValidTimeframes
            /\ c.realtime.enabled => c.realtime.streamType \in ValidStreamTypes
  IN  [ok |-> ok,
       config |-> IF b.enabled THEN [c EXCEPT !.backfill.endTime = endTime] ELSE c]

\* ParseConfig: the Config it builds and whether validateConfig accepts it.
ParseConfig(conf) ==
  ValidateConfig(
    [apiKey |-> StringOr(conf, "api_key", ""),
     testnet |-> Has(conf, "testnet", "bool") /\ conf["testnet"].val,
     symbols |-> IF Has(conf, "symbols", "list") THEN conf["symbols"].val ELSE 0,
     excludes |-> IF Has(conf, "exclude_symbols", "list") THEN conf["exclude_symbols"].val ELSE 0,
     timeframe |-> StringOr(conf, "timeframe", "1m"),
     backfill |-> ParseBackfill(conf),
     realtime |-> ParseRealtime(conf)])

\* getIntervalDuration (feed/backfill.go), in minutes; one minute for an
\* interval it does not know.
IntervalTable ==
  ("1m" :> 1) @@ ("3m" :> 3) @@ ("5m" :> 5) @@ ("15m" :> 15) @@ ("30m" :> 30)
  @@ ("1h" :> 60) @@ ("2h" :> 120) @@ ("4h" :> 240) @@ ("6h" :> 360)
  @@ ("8h" :> 480) @@ ("12h" :> 720) @@ ("1d" :> 1440) @@ ("3d" :> 4320)
  @@ ("1w" :> 10080) @@ ("1M" :> 43200)

IntervalMinutes(i) == IF i \in DOMAIN IntervalTable THEN IntervalTable[i] ELSE 1
====
