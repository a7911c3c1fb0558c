------------------------------ MODULE Realtime ------------------------------
(***************************************************************************)
(* The realtime feed of contrib/binancefeeder_v2/feed/realtime.go.         *)
(*                                                                         *)
(* Realtime.Run starts the streams of the configured StreamType: kline,    *)
(* trade or depth.  startKlineStreams (and likewise startTradeStreams and  *)
(* startDepthStreams) dials one combined                                  *)
(* WebSocket stream for every symbol, starts the reader goroutine          *)
(* (handleKlineMessages, handleTradeMessages or handleDepthMessages), and  *)
(* then loops sending a ping every 30 s until the *)
(* context is cancelled or a ping fails; the deferred conn.Close() runs    *)
(* on every exit.  The reader loops: check the context, block in           *)
(* ReadMessage, and hand every final kline to processKlineData, which      *)
(* writes it with WriteKlines and feeds it to aggregateData.  That appends *)
(* it to the symbol's DataAggregator buffer and, once the buffer holds     *)
(* BufferSize bars, flush() writes aggregateKlines(buffer) with            *)
(* WriteAggregatedData and clears the buffer.  The trade reader hands     *)
(* every trade to processTradeData, which writes it alone with            *)
(* WriteTrades; the depth reader hands every snapshot to WriteDepth, a     *)
(* stub that only logs.                                                    *)
(*                                                                         *)
(* The exchange sends, per symbol, final klines with open times 1, 2, ...  *)
(* up to MaxFrames; one tick is the stream's cadence, so a kline closes at   *)
(* its open time.  Frames that are not final klines or do not unmarshal    *)
(* are read and dropped.  The sink is the set of bars stored per           *)
(* (symbol, timeframe label, epoch); a later write at the same key         *)
(* replaces the bar.  Trades go to the symbol's 1Min/Trade bucket, a set   *)
(* of rows keyed by (symbol, minute): WriteTrades writes with              *)
(* isVariableLength false, so the fixed-length 1Min bucket holds one row   *)
(* per minute and a trade replaces the row of its minute.                  *)
(* Trades carry an id and a time in milliseconds, nondecreasing per        *)
(* symbol as the exchange sends them; price and size are left out.         *)
(***************************************************************************)
EXTENDS Naturals, Sequences, FiniteSets, SequencesExt

CONSTANTS
  Symbols,      \* the working symbol set (one stream name per symbol)
  Timeframe,    \* config.Timeframe: the Writer's timeframe
  UpdateFreq,   \* config.Realtime.UpdateFreq: kline interval of the stream
  StreamTypes,  \* config.Realtime.StreamType of the configurations checked
  BufferSize,   \* config.Realtime.BufferSize
  MaxFrames,    \* bound: klines, trades or snapshots the exchange sends per symbol
  TradeTimes,   \* the times, in ms, a trade may carry
  Highs, Lows,  \* the prices a kline's high and low may take
  Volumes       \* the volumes a kline may carry

ASSUME /\ Symbols # {}
       /\ BufferSize \in Nat /\ MaxFrames \in Nat /\ TradeTimes \subseteq Nat
       \* validateConfig rejects any other stream type of an enabled feed, so
       \* Run's default branch (realtime.go:72-73) is never taken.
       /\ StreamTypes \subseteq {"kline", "trade", "depth"}
       /\ \A h \in Highs, l \in Lows : l <= h

VARIABLES
  cancelled,  \* the shared context has been cancelled
  streamType, \* r.config.StreamType
  rtPc,       \* start*Streams: "dial", "keepalive" or "returned"
  conn,       \* the WebSocket: "none", "open" or "closed"
  reader,     \* handleKlineMessages: "none", "top", "blocked", "processing", "exited"
  frame,      \* the final kline or trade the reader has read and not yet processed
  sent,       \* per symbol: final klines the exchange has sent so far
  buffer,     \* per symbol: the DataAggregator's buffer
  received,   \* history, per symbol: final klines handed to aggregateData
  flushed,    \* history, per symbol: the buffers flush() has reduced, in order
  stored,     \* the sink: set of [sym, tf, bar] records
  handed,     \* history, per symbol: trades handed to WriteTrades, with its outcome
  tradeRows   \* the sink's Trade buckets: set of [sym, minute, epoch, ns, id] rows

vars == <<cancelled, streamType, rtPc, conn, reader, frame, sent, buffer,
          received, flushed, stored, handed, tradeRows>>

-----------------------------------------------------------------------------
(* Data.                                                                   *)

\* A kline: open time t, close time ct, open/high/low/close, volume v,
\* number of trades n.
Klines(t) ==
  [t : {t}, ct : {t}, h : Highs, l : Lows, v : Volumes, n : {1}, o : Highs \cup Lows, c : Highs \cup Lows]

ValidKline(k) == {k.o, k.c} = {k.h, k.l}

KlineSet == UNION {{k \in Klines(t) : ValidKline(k)} : t \in 1..MaxFrames}

\* A trade: its id and its time in ms (api.TradeData.ID, Time).
TradeSet == [id : 1..MaxFrames, time : TradeTimes]

NoFrame == [sym |-> CHOOSE s \in Symbols : TRUE, bar |-> CHOOSE k \in KlineSet : TRUE]

Frames == [sym : Symbols, bar : KlineSet] \cup [sym : Symbols, trade : TradeSet]

\* WriteTrades(symbol, [tr]): the row of 1Min/Trade it builds, Epoch from
\* time.Unix(Time/1000, (Time%1000)*1e6); the 1Min bucket's row is the
\* minute of that Epoch.
TradeMinute(tr) == (tr.time \div 1000) \div 60

TradeRow(s, tr) ==
  [sym |-> s, minute |-> TradeMinute(tr), epoch |-> tr.time \div 1000,
   ns |-> (tr.time % 1000) * 1000000, id |-> tr.id]

WriteTrades(rows, s, tr) ==
  LET row == TradeRow(s, tr)
  IN  {r \in rows : ~(r.sym = s /\ r.minute = row.minute)} \cup {row}

\* ConvertTimeframe: Binance interval to MarketStore timeframe, unknown
\* intervals returned unchanged.
TimeframeMap ==
  [i \in {"1m", "3m", "5m", "15m", "30m", "1h", "2h", "4h", "6h", "8h",
          "12h", "1d", "3d", "1w", "1M"} |->
     CASE i = "1m" -> "1Min" [] i = "3m" -> "3Min" [] i = "5m" -> "5Min"
       [] i = "15m" -> "15Min" [] i = "30m" -> "30Min" [] i = "1h" -> "1H"
       [] i = "2h" -> "2H" [] i = "4h" -> "4H" [] i = "6h" -> "6H"
       [] i = "8h" -> "8H" [] i = "12h" -> "12H" [] i = "1d" -> "1D"
       [] i = "3d" -> "3D" [] i = "1w" -> "1W" [] i = "1M" -> "1M"]

ConvertTimeframe(i) == IF i \in DOMAIN TimeframeMap THEN TimeframeMap[i] ELSE i

\* ValidateTimeframe: the labels the Writer accepts.
ValidTimeframes == {TimeframeMap[i] : i \in DOMAIN TimeframeMap}

\* executor.WriteCSM of bar k under (s, tf): the bar at its epoch is replaced.
Store(st, s, tf, k) ==
  {r \in st : ~(r.sym = s /\ r.tf = tf /\ r.bar.t = k.t)} \cup {[sym |-> s, tf |-> tf, bar |-> k]}

\* WriteAggregatedData(symbol, timeframe, [k]): the bucket is symbol/tf/OHLCV
\* with tf = ConvertTimeframe(timeframe), refused when tf is not valid.
WriteAggregatedData(st, s, interval, k) ==
  LET tf == ConvertTimeframe(interval) IN
  IF tf \in ValidTimeframes THEN Store(st, s, tf, k) ELSE st

\* WriteKlines(symbol, [k]): the same, under the Writer's own timeframe.
WriteKlines(st, s, k) ==
  LET tf == ConvertTimeframe(Timeframe) IN
  IF tf \in ValidTimeframes THEN Store(st, s, tf, k) ELSE st

\* aggregateData's test `len(aggregator.buffer) >= r.config.BufferSize'.
\* Variant with a bug: the buffer is flushed one bar late.
FlushDueLate(buf) == Len(buf) > BufferSize

FlushDue(buf) == Len(buf) >= BufferSize

\* flush() empties the buffer, a.buffer = a.buffer[:0].
\* Variant with a bug: the buffer is not emptied.
ClearedBufferMissing(buf) == buf

ClearedBuffer(buf) == <<>>

\* Variant with a bug: the close is taken from the first kline.
AggregateKlinesFirstClose(ks) ==
  [t |-> ks[1].t, o |-> ks[1].o, c |-> ks[1].c, ct |-> ks[Len(ks)].ct,
   h |-> ks[1].h, l |-> ks[1].l, v |-> ks[1].v, n |-> 0]

\* aggregateKlines, as its loop computes it: start from a copy of the first
\* kline with the close and close time of the last, then fold every kline,
\* the first included, into high, low and the sums.
RECURSIVE AggregateLoop(_, _)
AggregateLoop(acc, ks) ==
  IF ks = <<>> THEN acc
  ELSE LET k == Head(ks) IN
       AggregateLoop([acc EXCEPT !.h = IF k.h > @ THEN k.h ELSE @,
                                 !.l = IF k.l < @ THEN k.l ELSE @,
                                 !.v = @ + k.v,
                                 !.n = @ + k.n], Tail(ks))

AggregateKlines(ks) ==
  AggregateLoop([t |-> ks[1].t, o |-> ks[1].o, h |-> ks[1].h, l |-> ks[1].l,
                 c |-> ks[Len(ks)].c, v |-> ks[1].v, ct |-> ks[Len(ks)].ct,
                 n |-> 0], ks)

\* flush() of a non-empty buffer: the sink after WriteAggregatedData of
\* aggregateKlines(buffer) under UpdateFreq, when the write does not fail
\* (ok); the buffer is cleared whatever the write returned.
Flush(st, s, buf, ok) ==
  IF ok THEN WriteAggregatedData(st, s, UpdateFreq, AggregateKlines(buf)) ELSE st

-----------------------------------------------------------------------------
Init ==
  /\ cancelled = FALSE
  /\ streamType \in StreamTypes
  /\ rtPc = "dial"
  /\ conn = "none"
  /\ reader = "none"
  /\ frame = NoFrame
  /\ sent = [s \in Symbols |-> 0]
  /\ buffer = [s \in Symbols |-> <<>>]
  /\ received = [s \in Symbols |-> <<>>]
  /\ flushed = [s \in Symbols |-> <<>>]
  /\ stored = {}
  /\ handed = [s \in Symbols |-> <<>>]
  /\ tradeRows = {}

\* What the trade reader's steps leave alone, and the kline reader's.
klineVars == <<buffer, received, flushed, stored>>
tradeVars == <<handed, tradeRows>>

Cancel ==
  /\ ~cancelled
  /\ cancelled' = TRUE
  /\ UNCHANGED <<streamType, rtPc, conn, reader, frame, sent, klineVars, tradeVars>>

(* Run, then start*Streams for the configured StreamType: Dial succeeds,   *)
(* the stream's reader goroutine is started.                               *)
Dial ==
  /\ rtPc = "dial"
  /\ rtPc' = "keepalive"
  /\ conn' = "open"
  /\ reader' = "top"
  /\ UNCHANGED <<cancelled, streamType, frame, sent, klineVars, tradeVars>>

(* Dial fails: logged, start*Streams and Run return; no reconnect.         *)
DialFailed ==
  /\ rtPc = "dial"
  /\ rtPc' = "returned"
  /\ UNCHANGED <<cancelled, streamType, conn, reader, frame, sent, klineVars, tradeVars>>

(* Variant with a bug: the connection is not closed on the way out.      *)
KeepaliveExitNoClose ==
  /\ rtPc = "keepalive"
  /\ rtPc' = "returned"
  /\ UNCHANGED <<cancelled, streamType, conn, reader, frame, sent, klineVars, tradeVars>>

(* The keepalive loop leaves: ctx.Done() is seen at the top of an          *)
(* iteration, or WriteMessage(Ping) fails.  The deferred conn.Close()      *)
(* runs.  A ping that succeeds changes no state and is not an action.      *)
KeepaliveExit ==
  /\ rtPc = "keepalive"
  /\ rtPc' = "returned"
  /\ conn' = "closed"
  /\ UNCHANGED <<cancelled, streamType, reader, frame, sent, klineVars, tradeVars>>

(* The reader, top of its loop: return on ctx.Done(), otherwise block in   *)
(* ReadMessage.                                                            *)
ReaderTop ==
  /\ reader = "top"
  /\ reader' = IF cancelled THEN "exited" ELSE "blocked"
  /\ UNCHANGED <<cancelled, streamType, rtPc, conn, frame, sent, klineVars, tradeVars>>

(* handleKlineMessages: ReadMessage returns a final kline for symbol s.    *)
ReadKline(s) ==
  /\ streamType = "kline"
  /\ reader = "blocked"
  /\ conn = "open"
  /\ sent[s] < MaxFrames
  /\ \E k \in KlineSet :
       /\ k.t = sent[s] + 1
       /\ frame' = [sym |-> s, bar |-> k]
  /\ sent' = [sent EXCEPT ![s] = @ + 1]
  /\ reader' = "processing"
  /\ UNCHANGED <<cancelled, streamType, rtPc, conn, klineVars, tradeVars>>

(* handleTradeMessages: ReadMessage returns the next trade of symbol s,    *)
(* no earlier than the one before it.                                      *)
ReadTrade(s) ==
  /\ streamType = "trade"
  /\ reader = "blocked"
  /\ conn = "open"
  /\ sent[s] < MaxFrames
  /\ \E t \in TradeTimes :
       /\ handed[s] # <<>> => Last(handed[s]).trade.time <= t
       /\ frame' = [sym |-> s, trade |-> [id |-> sent[s] + 1, time |-> t]]
  /\ sent' = [sent EXCEPT ![s] = @ + 1]
  /\ reader' = "processing"
  /\ UNCHANGED <<cancelled, streamType, rtPc, conn, klineVars, tradeVars>>

(* handleDepthMessages: ReadMessage returns a snapshot for symbol s, and   *)
(* WriteDepth, a stub, logs its size and returns nil.                      *)
ReadDepth(s) ==
  /\ streamType = "depth"
  /\ reader = "blocked"
  /\ conn = "open"
  /\ sent[s] < MaxFrames
  /\ sent' = [sent EXCEPT ![s] = @ + 1]
  /\ reader' = "top"
  /\ UNCHANGED <<cancelled, streamType, rtPc, conn, frame, klineVars, tradeVars>>

(* ReadMessage returns a frame that is dropped: it does not unmarshal, or  *)
(* it is a kline that is not final (IsFinal false).                        *)
ReadIgnored ==
  /\ reader = "blocked"
  /\ conn = "open"
  /\ reader' = "top"
  /\ UNCHANGED <<cancelled, streamType, rtPc, conn, frame, sent, klineVars, tradeVars>>

(* ReadMessage fails: always once the connection is closed, at any time    *)
(* on a network error.  The reader logs and returns; nobody is told.       *)
ReadFailed ==
  /\ reader = "blocked"
  /\ reader' = "exited"
  /\ UNCHANGED <<cancelled, streamType, rtPc, conn, frame, sent, klineVars, tradeVars>>

(* processKlineData: WriteKlines under the Writer's timeframe (rejected   *)
(* when that does not convert to a valid one), then aggregateData:        *)
(* append to the buffer and, at BufferSize bars, flush():                  *)
(* WriteAggregatedData under UpdateFreq (rejected when that does not       *)
(* convert to a valid timeframe), then clear the buffer whatever the       *)
(* write returned.  Each write to the store may fail.                      *)
ProcessKline ==
  LET s    == frame.sym
      k    == frame.bar
      buf  == Append(buffer[s], k)
      full == FlushDue(buf)
  IN
  /\ reader = "processing"
  /\ "bar" \in DOMAIN frame
  /\ reader' = "top"
  /\ received' = [received EXCEPT ![s] = Append(@, k)]
  /\ buffer' = [buffer EXCEPT ![s] = IF full THEN ClearedBuffer(buf) ELSE buf]
  /\ flushed' = [flushed EXCEPT ![s] = IF full THEN Append(@, buf) ELSE @]
  /\ \E rawOk, aggOk \in BOOLEAN :
       LET st1 == IF rawOk THEN WriteKlines(stored, s, k) ELSE stored
       IN stored' = IF full THEN Flush(st1, s, buf, aggOk) ELSE st1
  /\ UNCHANGED <<cancelled, streamType, rtPc, conn, frame, sent, tradeVars>>

(* processTradeData: the trade alone to WriteTrades; executor.WriteCSM may *)
(* fail, which is logged.                                                  *)
ProcessTrade ==
  LET s  == frame.sym
      tr == frame.trade
  IN
  /\ reader = "processing"
  /\ "trade" \in DOMAIN frame
  /\ reader' = "top"
  /\ \E ok \in BOOLEAN :
       /\ handed' = [handed EXCEPT ![s] = Append(@, [trade |-> tr, ok |-> ok])]
       /\ tradeRows' = IF ok THEN WriteTrades(tradeRows, s, tr) ELSE tradeRows
  /\ UNCHANGED <<cancelled, streamType, rtPc, conn, frame, sent, klineVars>>

(* startKlineStreams and Realtime.Run have returned and the reader has     *)
(* exited: the feed has stopped.                                           *)
Stopped ==
  /\ rtPc = "returned"
  /\ reader \in {"none", "exited"}
  /\ UNCHANGED vars

\* Every step of Run, of start*Streams and of the reader goroutine.
Step ==
  \/ Dial \/ DialFailed \/ KeepaliveExit \/ ReaderTop
  \/ \E s \in Symbols : ReadKline(s) \/ ReadTrade(s) \/ ReadDepth(s)
  \/ ReadIgnored \/ ReadFailed \/ ProcessKline \/ ProcessTrade

Next == Cancel \/ Step \/ Stopped

(* The keepalive loop wakes every 30 s and checks the context, so it       *)
(* leaves eventually once cancelled; while the context is live it leaves   *)
(* only if a ping fails, which nothing forces.  The reader goroutine is    *)
(* scheduled fairly; a blocked read on a closed connection fails.          *)
Fairness ==
  /\ WF_vars(Dial \/ DialFailed)
  /\ WF_vars(cancelled /\ KeepaliveExit)
  /\ WF_vars(ReaderTop)
  /\ WF_vars(ProcessKline \/ ProcessTrade)
  /\ WF_vars(conn = "closed" /\ ReadFailed)

Spec == Init /\ [][Next]_vars /\ Fairness

-----------------------------------------------------------------------------
(* Properties.                                                             *)

TypeOK ==
  /\ cancelled \in BOOLEAN
  /\ rtPc \in {"dial", "keepalive", "returned"}
  /\ conn \in {"none", "open", "closed"}
  /\ reader \in {"none", "top", "blocked", "processing", "exited"}
  /\ frame \in Frames
  /\ streamType \in StreamTypes
  /\ sent \in [Symbols -> 0..MaxFrames]
  /\ buffer \in [Symbols -> Seq(KlineSet)]
  /\ \A s \in Symbols : Len(buffer[s]) < BufferSize \/ buffer[s] = <<>>
  /\ received \in [Symbols -> Seq(KlineSet)]
  /\ flushed \in [Symbols -> Seq(Seq(KlineSet))]
  /\ handed \in [Symbols -> Seq([trade : TradeSet, ok : BOOLEAN])]

\* The reduction spec section 3 prescribes for a flushed buffer.
SeqSum(ks, F(_)) ==
  LET sum[i \in 0..Len(ks)] == IF i = 0 THEN 0 ELSE sum[i - 1] + F(ks[i]) IN sum[Len(ks)]

SpecReduction(ks) ==
  LET idx == DOMAIN ks IN
  [t |-> ks[1].t, ct |-> ks[Len(ks)].ct, o |-> ks[1].o, c |-> ks[Len(ks)].c,
   h |-> CHOOSE x \in {ks[i].h : i \in idx} : \A i \in idx : ks[i].h <= x,
   l |-> CHOOSE x \in {ks[i].l : i \in idx} : \A i \in idx : x <= ks[i].l,
   v |-> SeqSum(ks, LAMBDA k : k.v), n |-> SeqSum(ks, LAMBDA k : k.n)]

\* Concatenation of a sequence of sequences.
RECURSIVE Concat(_)
Concat(ss) == IF ss = <<>> THEN <<>> ELSE Head(ss) \o Concat(Tail(ss))

(* Every final kline handed to aggregateData is, in arrival order, in      *)
(* exactly one flushed buffer or still waiting in the current buffer: the  *)
(* append, the threshold test and the clear in flush() neither lose,       *)
(* repeat nor reorder a bar.                                               *)
EveryBarAggregatedOnce ==
  \A s \in Symbols : Concat(flushed[s]) \o buffer[s] = received[s]

(* A flushed aggregate agrees with the reduction of spec section 3 in its  *)
(* times, open, high, low, close and trade count (aggregateKlines,         *)
(* realtime.go:490-522).                                                   *)
AggregatePricesMatchSpec ==
  \A s \in Symbols : \A i \in DOMAIN flushed[s] :
    LET a == AggregateKlines(flushed[s][i])
        r == SpecReduction(flushed[s][i])
    IN [a EXCEPT !.v = 0] = [r EXCEPT !.v = 0]

(* Spec 3 and 8: the aggregate's volume is the sum of its bars' volumes.   *)
(* aggregateKlines starts the volume at the first bar's and then adds      *)
(* every bar's, the first one again.                                       *)
AggregateVolumeIsSum ==
  \A s \in Symbols : \A i \in DOMAIN flushed[s] :
    AggregateKlines(flushed[s][i]).v = SpecReduction(flushed[s][i]).v

(* Once the context is cancelled, startKlineStreams returns and the        *)
(* reader goroutine ends: the keepalive loop notices the cancellation, its *)
(* deferred Close fails the blocked read.                                  *)
RealtimeShutsDown ==
  cancelled ~> (rtPc = "returned" /\ reader \in {"none", "exited"})

\* A raw kline WriteKlines stored stays the bar stored at its epoch.
RawKlinesKept ==
  \A r \in stored :
    r.tf = ConvertTimeframe(Timeframe) => r.bar.ct = r.bar.t

\* Every trade WriteTrades accepted is a row of the sink.
TradesKept ==
  \A s \in Symbols : \A i \in DOMAIN handed[s] :
    handed[s][i].ok => \E r \in tradeRows : r.sym = s /\ r.id = handed[s][i].trade.id

(* Spec 4.5 forwards every bar and every trade to the sink: nothing the    *)
(* realtime feed has stored is replaced by a later write of the feed.      *)
(* flush() writes an aggregate under the stream's own interval label at    *)
(* its first kline's epoch (realtime.go:481), and WriteTrades writes every *)
(* trade as a row of the fixed-length 1Min bucket (writer.go:97,123).      *)
WritesKept == RawKlinesKept /\ TradesKept

=============================================================================
