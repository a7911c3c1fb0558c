------------------------------- MODULE Feeder -------------------------------
(***************************************************************************)
(* BinanceFeederV2.Run and Shutdown (contrib/binancefeeder_v2/             *)
(* binancefeeder_v2.go) composed with the two feeds it starts.             *)
(*                                                                         *)
(* Run starts backfill.Run and realtime.Run, each in a goroutine counted   *)
(* by bf.wg, when the feed is enabled; it then waits for the context to be *)
(* cancelled and for bf.wg, and logs "plugin stopped".  Shutdown cancels   *)
(* the one context both feeds observe.  The feeds are the Backfill and     *)
(* Realtime modules sharing the variable `cancelled'; the goroutines they  *)
(* start themselves (per-symbol backfills, the stream reader) are not      *)
(* counted by bf.wg.                                                       *)
(***************************************************************************)
EXTENDS Naturals, Sequences

CONSTANTS
  BackfillEnabled, RealtimeEnabled,   \* config.Backfill/Realtime.Enabled
  SymbolList, Parallelism, BatchSize, Dur, StartTime, EndTime, BarTimes,
  Timeframe, UpdateFreq, StreamTypes, BufferSize, MaxFrames, TradeTimes,
  Highs, Lows, Volumes

VARIABLES
  cancelled,
  permits, runPc, dispatched, task, cur, written, lost,
  streamType, rtPc, conn, reader, frame, sent, buffer, received, flushed,
  stored, handed, tradeRows,
  fdPc,    \* BinanceFeederV2.Run: "waiting" (<-ctx.Done()), "joining" (wg.Wait()), "stopped"
  bgo,     \* the goroutine running backfill.Run: "off", "running", "done"
  rgo,     \* the goroutine running realtime.Run: "off", "running", "done"
  wg       \* bf.wg's counter

B == INSTANCE Backfill
R == INSTANCE Realtime WITH Symbols <- {SymbolList[i] : i \in 1..Len(SymbolList)}

bvars == <<permits, runPc, dispatched, task, cur, written, lost>>
rvars == <<streamType, rtPc, conn, reader, frame, sent, buffer, received,
           flushed, stored, handed, tradeRows>>
fvars == <<fdPc, bgo, rgo, wg>>
vars  == <<cancelled, bvars, rvars, fvars>>

\* No goroutine of either feed is left: the per-symbol backfills have
\* returned and the stream reader has exited or never started.
Quiet ==
  /\ \A s \in B!Symbols : task[s] # "running"
  /\ reader \in {"none", "exited"}
  /\ bgo # "running" /\ rgo # "running"

-----------------------------------------------------------------------------
(* Run has added one to bf.wg for each enabled feed and started it.        *)
Init ==
  /\ B!Init /\ R!Init
  /\ fdPc = "waiting"
  /\ bgo = IF BackfillEnabled THEN "running" ELSE "off"
  /\ rgo = IF RealtimeEnabled THEN "running" ELSE "off"
  /\ wg = (IF BackfillEnabled THEN 1 ELSE 0) + (IF RealtimeEnabled THEN 1 ELSE 0)

(* Shutdown: bf.cancel().                                                  *)
Shutdown ==
  /\ B!Cancel
  /\ UNCHANGED <<rvars, fvars>>

(* A step of backfill.Run or of a per-symbol goroutine it started.         *)
BackfillStep ==
  /\ BackfillEnabled
  /\ \/ B!Dispatch \/ B!DispatchCancelled \/ B!DispatchFinished \/ B!WaitGroupDone
     \/ \E s \in B!Symbols : B!FetchBatch(s) \/ B!FinishSymbol(s)
  /\ UNCHANGED <<rvars, fvars>>

(* A step of realtime.Run (start*Streams) or of its stream reader.         *)
RealtimeStep ==
  /\ RealtimeEnabled
  /\ R!Step
  /\ UNCHANGED <<bvars, fvars>>

\* Variant with a bug: the goroutine returns without wg.Done().
BackfillReturnedNoDone ==
  /\ bgo = "running"
  /\ runPc = "returned"
  /\ bgo' = "done"
  /\ UNCHANGED <<cancelled, bvars, rvars, fdPc, rgo, wg>>

(* backfill.Run has returned; the deferred bf.wg.Done() runs.              *)
BackfillReturned ==
  /\ bgo = "running"
  /\ runPc = "returned"
  /\ bgo' = "done"
  /\ wg' = wg - 1
  /\ UNCHANGED <<cancelled, bvars, rvars, fdPc, rgo>>

\* Variant with a bug: wg.Done() can run a second time for the goroutine.
RealtimeReturnedTwice ==
  /\ rgo # "off"
  /\ rtPc = "returned"
  /\ rgo' = "done"
  /\ wg' = wg - 1
  /\ UNCHANGED <<cancelled, bvars, rvars, fdPc, bgo>>

(* realtime.Run has returned; the deferred bf.wg.Done() runs.              *)
RealtimeReturned ==
  /\ rgo = "running"
  /\ rtPc = "returned"
  /\ rgo' = "done"
  /\ wg' = wg - 1
  /\ UNCHANGED <<cancelled, bvars, rvars, fdPc, bgo>>

(* <-bf.ctx.Done() returns.                                                *)
ContextDone ==
  /\ fdPc = "waiting"
  /\ cancelled
  /\ fdPc' = "joining"
  /\ UNCHANGED <<cancelled, bvars, rvars, bgo, rgo, wg>>

(* bf.wg.Wait() returns; Run logs "plugin stopped" and returns.            *)
Joined ==
  /\ fdPc = "joining"
  /\ wg = 0
  /\ fdPc' = "stopped"
  /\ UNCHANGED <<cancelled, bvars, rvars, bgo, rgo, wg>>

(* Run has returned and nothing is left running.                           *)
Stopped ==
  /\ fdPc = "stopped"
  /\ Quiet
  /\ UNCHANGED vars

Next ==
  \/ Shutdown \/ BackfillStep \/ RealtimeStep
  \/ BackfillReturned \/ RealtimeReturned \/ ContextDone \/ Joined
  \/ Stopped

(* Every goroutine is scheduled fairly: each feed under its own fairness,  *)
(* the two wrapper goroutines and Run itself weakly.                       *)
Fairness ==
  /\ BackfillEnabled => B!Fairness
  /\ RealtimeEnabled => R!Fairness
  /\ WF_vars(BackfillReturned) /\ WF_vars(RealtimeReturned)
  /\ WF_vars(ContextDone) /\ WF_vars(Joined)

Spec == Init /\ [][Next]_vars /\ Fairness

-----------------------------------------------------------------------------
(* Properties.                                                             *)

TypeOK ==
  /\ B!TypeOK /\ R!TypeOK
  /\ fdPc \in {"waiting", "joining", "stopped"}
  /\ bgo \in {"off", "running", "done"} /\ rgo \in {"off", "running", "done"}
  /\ wg \in 0..2

(* Spec 8: once Shutdown has cancelled the context, the orchestrator's     *)
(* join completes and every task of both feeds has returned.              *)
FeederStops ==
  cancelled ~> (fdPc = "stopped" /\ Quiet)

(* Spec 5: the orchestrator waits for all spawned tasks before reporting   *)
(* stopped.  bf.wg counts only the two feed goroutines, and neither feed   *)
(* waits for all of its own (backfill.go:62-64, realtime.go:110).          *)
StoppedMeansQuiet ==
  fdPc = "stopped" => Quiet
=============================================================================
