------------------------------ MODULE Backfill ------------------------------
(***************************************************************************)
(* The historical backfill of contrib/binancefeeder_v2/feed/backfill.go.   *)
(*                                                                         *)
(* Backfill.Run walks the working symbol list and, for each symbol, takes  *)
(* one permit from the buffered channel workerPool (or returns when the    *)
(* shared context is cancelled) and starts a goroutine running             *)
(* backfillSymbol.  That goroutine walks [StartTime, EndTime) in windows   *)
(* of BatchSize * getIntervalDuration(Interval), calls GetKlines for each  *)
(* window and hands the rows to WriteKlines.  A failed call is logged and  *)
(* the window skipped; a failed write is logged and not retried.           *)
(*                                                                         *)
(* Time is counted in abstract ticks; Dur is the interval duration.  The   *)
(* exchange is the set BarTimes of bar open times it holds for every       *)
(* symbol; GetKlines returns the first `limit' of those whose open time    *)
(* lies in [startTime, endTime] (both ends inclusive, as the exchange      *)
(* filters them).  The sink keeps, per symbol, the set of epochs written   *)
(* to its OHLCV bucket: a write at an epoch already present overwrites.    *)
(***************************************************************************)
EXTENDS Naturals, FiniteSets, Sequences

CONSTANTS
  SymbolList,    \* the slice returned by GetAllSymbols, in order
  Parallelism,   \* config.Parallelism: capacity of workerPool
  BatchSize,     \* config.BatchSize: bars per window and the `limit'
  Dur,           \* getIntervalDuration(config.Interval) in ticks
  StartTime,     \* config.StartTime
  EndTime,       \* config.EndTime
  BarTimes       \* open times of the bars the exchange holds

Symbols == {SymbolList[i] : i \in 1..Len(SymbolList)}

ASSUME /\ \A i, j \in 1..Len(SymbolList) : i # j => SymbolList[i] # SymbolList[j]
       /\ Parallelism \in Nat /\ BatchSize \in Nat /\ Dur \in Nat \ {0}
       /\ StartTime \in Nat \ {0} /\ EndTime \in Nat /\ StartTime <= EndTime
       /\ BarTimes \subseteq Nat \ {0}

\* The epoch of the zero-valued KlineData that GetKlines leaves in place of
\* a row with fewer than 11 fields (OpenTime 0, written as Epoch 0/1000).
PlaceholderEpoch == 0

\* Binance's default `limit' when GetKlines omits the parameter (limit <= 0).
ExchangeDefaultLimit == 500

VARIABLES
  cancelled,   \* the shared context has been cancelled (Shutdown)
  permits,     \* tokens currently in the workerPool channel
  runPc,       \* where Backfill.Run is: "dispatch", "wait" or "returned"
  dispatched,  \* how many entries of SymbolList the Run loop has handled
  task,        \* per symbol: "idle", "running" (backfillSymbol) or "done"
  cur,         \* per symbol: currentTime of backfillSymbol
  written,     \* per symbol: epochs present in the sink's OHLCV bucket
  lost         \* per symbol: bars of a window whose fetch or write failed

vars == <<cancelled, permits, runPc, dispatched, task, cur, written, lost>>

TaskStates == {"idle", "running", "done"}

Running == {s \in Symbols : task[s] = "running"}

-----------------------------------------------------------------------------
(* The exchange and the window arithmetic.                                 *)

\* The first k elements (in increasing order) of a finite set of naturals.
FirstN(S, k) == {t \in S : Cardinality({u \in S : u < t}) < k}

\* The limit GetKlines sends: BatchSize, or none (exchange default) if <= 0.
KlinesLimit == IF BatchSize > 0 THEN BatchSize ELSE ExchangeDefaultLimit

\* Rows the exchange returns for GET /klines with startTime, endTime, limit.
KlinesResponse(start, end) ==
  FirstN({t \in BarTimes : start <= t /\ t <= end}, KlinesLimit)

\* Variant with a bug: the window reaches one interval further.
BatchEndPastWindow(c) ==
  IF c + BatchSize * Dur + Dur > EndTime THEN EndTime ELSE c + BatchSize * Dur + Dur

\* batchEndTime = min(currentTime + BatchSize * Dur, EndTime).
BatchEnd(c) ==
  IF c + BatchSize * Dur > EndTime THEN EndTime ELSE c + BatchSize * Dur

\* The epochs WriteKlines writes for the decoded rows, when the rows in
\* `bad' had fewer than 11 fields and were left as zero-valued placeholders.
DecodedEpochs(rows, bad) ==
  (rows \ bad) \cup (IF bad = {} THEN {} ELSE {PlaceholderEpoch})

-----------------------------------------------------------------------------
(* NewBackfill: the pool holds Parallelism tokens.  Run has fetched the   *)
(* symbol list; an empty list makes it return at once.                     *)
Init ==
  /\ cancelled = FALSE
  /\ permits = Parallelism
  /\ runPc = IF Len(SymbolList) = 0 THEN "returned" ELSE "dispatch"
  /\ dispatched = 0
  /\ task = [s \in Symbols |-> "idle"]
  /\ cur = [s \in Symbols |-> StartTime]
  /\ written = [s \in Symbols |-> {}]
  /\ lost = [s \in Symbols |-> {}]

(* Shutdown: BinanceFeederV2.Shutdown cancels the shared context.          *)
Cancel ==
  /\ ~cancelled
  /\ cancelled' = TRUE
  /\ UNCHANGED <<permits, runPc, dispatched, task, cur, written, lost>>

(* Variant with a bug: a goroutine is started without taking a token.   *)
DispatchNoPermit ==
  LET s == SymbolList[dispatched + 1] IN
  /\ runPc = "dispatch"
  /\ dispatched < Len(SymbolList)
  /\ permits > 0
  /\ dispatched' = dispatched + 1
  /\ task' = [task EXCEPT ![s] = "running"]
  /\ cur' = [cur EXCEPT ![s] = StartTime]
  /\ UNCHANGED <<cancelled, permits, runPc, written, lost>>

(* Run, the `case <-b.workerPool' branch of the select: take a token and   *)
(* start backfillSymbol for the next symbol.                               *)
Dispatch ==
  LET s == SymbolList[dispatched + 1] IN
  /\ runPc = "dispatch"
  /\ dispatched < Len(SymbolList)
  /\ permits > 0
  /\ permits' = permits - 1
  /\ dispatched' = dispatched + 1
  /\ task' = [task EXCEPT ![s] = "running"]
  /\ cur' = [cur EXCEPT ![s] = StartTime]
  /\ UNCHANGED <<cancelled, runPc, written, lost>>

(* Run, the `case <-ctx.Done()' branch of the select: return at once.      *)
(* Go picks either ready branch of a select, so this competes with         *)
(* Dispatch whenever both a token and the cancellation are present.        *)
DispatchCancelled ==
  /\ runPc = "dispatch"
  /\ dispatched < Len(SymbolList)
  /\ cancelled
  /\ runPc' = "returned"
  /\ UNCHANGED <<cancelled, permits, dispatched, task, cur, written, lost>>

(* Run leaves the loop after the last symbol and blocks in wg.Wait().      *)
DispatchFinished ==
  /\ runPc = "dispatch"
  /\ dispatched = Len(SymbolList)
  /\ runPc' = "wait"
  /\ UNCHANGED <<cancelled, permits, dispatched, task, cur, written, lost>>

(* wg.Wait() returns once every started goroutine has called wg.Done.      *)
WaitGroupDone ==
  /\ runPc = "wait"
  /\ \A s \in Symbols : task[s] # "running"
  /\ runPc' = "returned"
  /\ UNCHANGED <<cancelled, permits, dispatched, task, cur, written, lost>>

(* One iteration of the backfillSymbol loop past its two exits: compute    *)
(* the window, call GetKlines, write the rows, advance currentTime.  The   *)
(* context may have been cancelled since the check at the loop top.        *)
(*  - GetKlines fails (HTTP error, non-200, bad JSON; always once the     *)
(*    context is cancelled, the request carrying ctx): window skipped.     *)
(*  - It succeeds, some rows possibly malformed (at most one modelled):    *)
(*    a non-empty result goes to WriteKlines, which may fail.              *)
FetchBatch(s) ==
  LET batchEnd == BatchEnd(cur[s])
      rows     == KlinesResponse(cur[s], batchEnd)
  IN
  /\ task[s] = "running"
  /\ cur[s] < EndTime
  /\ cur' = [cur EXCEPT ![s] = batchEnd]
  /\ \/ /\ lost' = [lost EXCEPT ![s] = @ \cup rows]
        /\ UNCHANGED written
     \/ /\ ~cancelled
        /\ \E bad \in {{}} \cup {{r} : r \in rows} :
             \/ /\ rows # {}
                /\ written' = [written EXCEPT ![s] = @ \cup DecodedEpochs(rows, bad)]
                /\ lost' = [lost EXCEPT ![s] = @ \cup bad]
             \/ /\ lost' = [lost EXCEPT ![s] = @ \cup rows]
                /\ UNCHANGED written
  /\ UNCHANGED <<cancelled, permits, runPc, dispatched, task>>

(* Variant with a bug: the token is put back twice.                      *)
FinishSymbolDoubleRelease(s) ==
  /\ task[s] = "running"
  /\ cur[s] >= EndTime \/ cancelled
  /\ task' = [task EXCEPT ![s] = "done"]
  /\ permits' = permits + 2
  /\ UNCHANGED <<cancelled, runPc, dispatched, cur, written, lost>>

(* Variant with a bug: the token is not put back.                        *)
FinishSymbolNoRelease(s) ==
  /\ task[s] = "running"
  /\ cur[s] >= EndTime \/ cancelled
  /\ task' = [task EXCEPT ![s] = "done"]
  /\ UNCHANGED <<cancelled, permits, runPc, dispatched, cur, written, lost>>

(* backfillSymbol returns, at the loop test (currentTime not before        *)
(* EndTime) or at the ctx.Done() check; the deferred functions put the     *)
(* token back into workerPool and call wg.Done.                            *)
FinishSymbol(s) ==
  /\ task[s] = "running"
  /\ cur[s] >= EndTime \/ cancelled
  /\ task' = [task EXCEPT ![s] = "done"]
  /\ permits' = permits + 1
  /\ UNCHANGED <<cancelled, runPc, dispatched, cur, written, lost>>

(* Run has returned and no goroutine is left: the backfill has stopped.    *)
Stopped ==
  /\ runPc = "returned"
  /\ \A s \in Symbols : task[s] # "running"
  /\ UNCHANGED vars

Next ==
  \/ Cancel
  \/ Dispatch
  \/ DispatchCancelled
  \/ DispatchFinished
  \/ WaitGroupDone
  \/ \E s \in Symbols : FetchBatch(s) \/ FinishSymbol(s)
  \/ Stopped

(* The Go scheduler runs every runnable goroutine eventually; the run      *)
(* goroutine and each backfillSymbol goroutine are weakly fair.  Cancel    *)
(* is the environment and is not required to happen.                      *)
Fairness ==
  /\ WF_vars(Dispatch \/ DispatchCancelled \/ DispatchFinished \/ WaitGroupDone)
  /\ \A s \in Symbols : WF_vars(FetchBatch(s) \/ FinishSymbol(s))

Spec == Init /\ [][Next]_vars /\ Fairness

-----------------------------------------------------------------------------
(* Properties.                                                             *)

TypeOK ==
  /\ cancelled \in BOOLEAN
  /\ permits \in 0..Parallelism
  /\ runPc \in {"dispatch", "wait", "returned"}
  /\ dispatched \in 0..Len(SymbolList)
  /\ task \in [Symbols -> TaskStates]
  /\ cur \in [Symbols -> StartTime..EndTime]
  /\ written \in [Symbols -> SUBSET (BarTimes \cup {PlaceholderEpoch})]
  /\ lost \in [Symbols -> SUBSET BarTimes]

\* The bars of [StartTime, EndTime) the exchange holds.
ExpectedBars == {t \in BarTimes : StartTime <= t /\ t < EndTime}

(* Window tiling (backfillSymbol, backfill.go:89-131): every bar of the    *)
(* range before a symbol's currentTime is in the sink or was lost with a   *)
(* failed window or row -- the windows leave no gap between them, even     *)
(* though each asks for BatchSize+1 bar times and relies on `limit' to    *)
(* drop the one that opens the next window.                                *)
NoSkippedBars ==
  \A s \in Symbols :
    {t \in ExpectedBars : t < cur[s]} \subseteq written[s] \cup lost[s]

(* The worker pool caps the symbols fetched at once (Run, backfill.go:     *)
(* 60-72): at most Parallelism backfillSymbol goroutines run together.     *)
ConcurrencyBounded == Cardinality(Running) <= Parallelism

(* Every symbol that was started runs to its end: the run loop, the       *)
(* pool and wg.Wait never leave Backfill.Run or a goroutine blocked, with  *)
(* or without a cancellation.                                              *)
BackfillTerminates ==
  <>[](runPc = "returned" /\ \A s \in Symbols : task[s] # "running")

(* Only bars of the requested range reach the OHLCV bucket: the           *)
(* placeholder GetKlines leaves for a short row (client.go:187-189) must   *)
(* not be written by backfillSymbol as a bar at epoch 0.                   *)
WritesInRange ==
  \A s \in Symbols :
    \A t \in written[s] : StartTime <= t /\ t <= EndTime
=============================================================================
