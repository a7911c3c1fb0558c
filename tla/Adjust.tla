------------------------------- MODULE Adjust -------------------------------
(***************************************************************************)
(* The split/dividend adjustment aggregate of uda/adjust/adjust.go.        *)
(*                                                                         *)
(* A query builds an Adjust (New), passes its arguments to Init, hands the *)
(* query's columns to Accum and reads the result with Output.  Accum fetches *)
(* the symbol's rate changes, appends a no-op sentinel and walks the rows   *)
(* backwards with a second cursor over the rate changes, dividing every     *)
(* numeric column by the product of the rates of the changes that come      *)
(* after the row, rounded to four decimals.                                 *)
(*                                                                         *)
(* Column values are held in units of 10^-4, so the rounding is integer    *)
(* arithmetic; rates are whole multipliers.  GetRateChanges is not in the  *)
(* repository: the changes recorded for the symbol are an input, sorted by *)
(* epoch as the scan assumes, and filtered by the two flags.               *)
(***************************************************************************)
EXTENDS Naturals, Integers, Sequences, SequencesExt

CONSTANTS
  EpochTimes,   \* epochs a query returns, ascending
  ChangeTimes,  \* epochs of recorded rate changes
  MaxRows,      \* bound: rows per query
  Values,       \* column values, in whole units
  Rates,        \* RateChange.Rate, as a whole multiplier
  MaxChanges,   \* bound: rate changes recorded for the symbol
  ArgLists,     \* argument lists a query passes to Init
  Lower(_),     \* strings.ToLower over the argument words
  MaxInt64,     \* math.MaxInt64: after every epoch
  Shape         \* the query's columns, Epoch included: name -> io type

ASSUME /\ \A e \in EpochTimes \cup ChangeTimes : e < MaxInt64
       /\ Rates \subseteq Nat \ {0}

Kinds == {"split", "dividend"}               \* calcSplit, calcDividend
RounderNum == 10000                          \* math.Pow(10, roundToDecimals)

VARIABLES
  phase,           \* "new", "ready" (Init done), "accumulated", "failed", "output"
  adjustSplit,     \* adj.AdjustSplit
  adjustDividend,  \* adj.AdjustDividend
  epochs,          \* adj.epochs
  output,          \* adj.output: numeric column name -> values (10^-4 units)
  skipped,         \* adj.skippedColumns: name -> values
  result,          \* the ColumnSeries returned by Output
  args,            \* history: the arguments given to Init
  input,           \* history: the columns given to Accum
  recorded         \* history: the rate changes recorded for the symbol

vars == <<phase, adjustSplit, adjustDividend, epochs, output, skipped,
          result, args, input, recorded>>

\* Strictly ascending epoch columns of at most MaxRows rows.
EpochColumns ==
  {e \in BoundedSeq(EpochTimes, MaxRows) : \A i \in 1..Len(e) - 1 : e[i] < e[i + 1]}

\* The columns of a query returning the rows at epochs e.
Columns(e) ==
  {[n \in DOMAIN Shape |-> IF n = "Epoch" THEN e ELSE f[n]] :
     f \in [DOMAIN Shape \ {"Epoch"} -> [1..Len(e) -> Values]]}

\* What Accum can be handed: with or without an int64 Epoch column.
Inputs ==
  UNION {[hasEpoch : BOOLEAN, epochs : {e}, data : Columns(e)] : e \in EpochColumns}

Change == [epoch : ChangeTimes, rate : Rates, kind : Kinds]

\* The symbol's rate changes, in time order.
Recorded ==
  {r \in BoundedSeq(Change, MaxChanges) :
     \A i \in 1..Len(r) - 1 : r[i].epoch <= r[i + 1].epoch}

\* The changes of the kinds the two flags select.
GetRateChanges(r, split, dividend) ==
  SelectSeq(r, LAMBDA c : (c.kind = "split" /\ split)
                            \/ (c.kind = "dividend" /\ dividend))

\* Variant with a bug: the Epoch column is taken as a value column.
NumericWithEpoch == {n \in DOMAIN Shape : Shape[n] \in {"FLOAT64", "INT64"}}

\* ds.Type == io.FLOAT64 || (ds.Type == io.INT64 && ds.Name != "Epoch")
Numeric ==
  {n \in DOMAIN Shape : Shape[n] = "FLOAT64" \/ (Shape[n] = "INT64" /\ n # "Epoch")}

\* uda.ColumnToFloat64, in units of 10^-4.
ColumnToFloat64(col) == [i \in DOMAIN col |-> col[i] * RounderNum]

\* math.Round((c/rate)*rounderNum)/rounderNum, half away from zero.
RoundDiv(x, rate) == (2 * x + rate) \div (2 * rate)

\* Variant with a bug: a change at the row's own epoch is applied to it.
RECURSIVE CatchUpLe(_, _, _, _)
CatchUpLe(e, rc, ri, rate) ==
  IF ri > 1 /\ e <= rc[ri - 1].epoch
    THEN CatchUpLe(e, rc, ri - 1, rate * rc[ri - 1].rate)
    ELSE <<ri, rate>>

\* The inner loop: for ; ri > 0 && epochs[i] < rateChanges[ri-1].Epoch; ri--
\* { rate *= rateChanges[ri-1].Rate }, with ri one above Go's index.
RECURSIVE CatchUp(_, _, _, _)
CatchUp(e, rc, ri, rate) ==
  IF ri > 1 /\ e < rc[ri - 1].epoch
    THEN CatchUp(e, rc, ri - 1, rate * rc[ri - 1].rate)
    ELSE <<ri, rate>>

\* The outer loop from the last row to the first, rounding every column.
RECURSIVE Scan(_, _, _, _, _, _)
Scan(ep, rc, i, ri, rate, out) ==
  IF i = 0 THEN out
  ELSE LET next == CatchUp(ep[i], rc, ri, rate)
       IN  Scan(ep, rc, i - 1, next[1], next[2],
                [n \in DOMAIN out |-> [out[n] EXCEPT ![i] = RoundDiv(@, next[2])]])

\* Append the sentinel {MaxInt64, Rate 1} and scan from rate 1.
Adjusted(ep, rc, out) ==
  LET withSentinel == Append(rc, [epoch |-> MaxInt64, rate |-> 1, kind |-> "none"])
  IN  Scan(ep, withSentinel, Len(ep), Len(withSentinel), 1, out)

\* Arguments after strings.ToLower that select a kind.
Requests(a, k) == \E i \in 1..Len(a) : Lower(a[i]) = k

-----------------------------------------------------------------------------
(* New(): empty output and skipped maps.                                   *)
Init ==
  /\ phase = "new"
  /\ adjustSplit = FALSE /\ adjustDividend = FALSE
  /\ epochs = <<>>
  /\ output = [n \in {} |-> <<>>] /\ skipped = [n \in {} |-> <<>>]
  /\ result = [n \in {} |-> <<>>]
  /\ args = <<>> /\ input = [hasEpoch |-> FALSE, epochs |-> <<>>, data |-> <<>>]
  /\ recorded = <<>>

(* Init(args...): no argument selects both kinds; otherwise each word,     *)
(* lower-cased, may select one.                                           *)
InitArgs(a) ==
  /\ phase = "new"
  /\ phase' = "ready"
  /\ adjustSplit' = (a = <<>> \/ Requests(a, "split"))
  /\ adjustDividend' = (a = <<>> \/ Requests(a, "dividend"))
  /\ args' = a
  /\ UNCHANGED <<epochs, output, skipped, result, input, recorded>>

(* Accum without an int64 Epoch column returns an error.                   *)
AccumNoEpoch(in) ==
  /\ phase = "ready"
  /\ ~in.hasEpoch
  /\ phase' = "failed"
  /\ input' = in
  /\ UNCHANGED <<adjustSplit, adjustDividend, epochs, output, skipped, result,
                 args, recorded>>

(* Accum: copy the numeric columns, keep the others aside, then adjust by  *)
(* the selected rate changes, unless there are none.                       *)
Accum(in, r) ==
  LET rc == GetRateChanges(r, adjustSplit, adjustDividend)
      converted == [n \in Numeric |-> ColumnToFloat64(in.data[n])]
  IN  /\ phase = "ready"
      /\ in.hasEpoch
      /\ phase' = "accumulated"
      /\ epochs' = in.epochs
      /\ skipped' = [n \in DOMAIN Shape \ (Numeric \cup {"Epoch"}) |-> in.data[n]]
      /\ output' = IF rc = <<>> THEN converted ELSE Adjusted(in.epochs, rc, converted)
      /\ input' = in /\ recorded' = r
      /\ UNCHANGED <<adjustSplit, adjustDividend, result, args>>

\* Variant with a bug: the skipped columns are not reinserted.
OutputNoReinsert ==
  /\ phase = "accumulated"
  /\ phase' = "output"
  /\ result' = [n \in {"Epoch"} \cup DOMAIN output |->
                  IF n = "Epoch" THEN epochs ELSE output[n]]
  /\ UNCHANGED <<adjustSplit, adjustDividend, epochs, output, skipped, args,
                 input, recorded>>

(* Output: Epoch, the adjusted columns and the skipped ones reinserted.    *)
Output ==
  /\ phase = "accumulated"
  /\ phase' = "output"
  /\ result' = [n \in {"Epoch"} \cup DOMAIN output \cup DOMAIN skipped |->
                  IF n = "Epoch" THEN epochs
                  ELSE IF n \in DOMAIN output THEN output[n] ELSE skipped[n]]
  /\ UNCHANGED <<adjustSplit, adjustDividend, epochs, output, skipped, args,
                 input, recorded>>

(* The query is over.                                                      *)
Done ==
  /\ phase \in {"failed", "output"}
  /\ UNCHANGED vars

Next ==
  \/ \E a \in ArgLists : InitArgs(a)
  \/ \E in \in Inputs : AccumNoEpoch(in)
  \/ \E in \in Inputs, r \in Recorded : Accum(in, r)
  \/ Output
  \/ Done

Spec == Init /\ [][Next]_vars

-----------------------------------------------------------------------------
(* Properties.                                                             *)

TypeOK ==
  /\ phase \in {"new", "ready", "accumulated", "failed", "output"}
  /\ adjustSplit \in BOOLEAN /\ adjustDividend \in BOOLEAN
  /\ DOMAIN output \subseteq DOMAIN Shape \ {"Epoch"}
  /\ \A n \in DOMAIN output : output[n] \in Seq(Nat) /\ Len(output[n]) = Len(epochs)

\* The product of the rates of the changes the arguments asked for that
\* take effect after epoch e (a split or dividend at the row's own epoch
\* already shows in that row's price).
LaterRate(e) ==
  LET asked(c) == args = <<>> \/ Requests(args, c.kind)
  IN  FoldSeq(LAMBDA c, p : c.rate * p, 1,
              SelectSeq(recorded, LAMBDA c : asked(c) /\ c.epoch > e))

(* Every numeric value Accum leaves is the input value divided by the     *)
(* product of the requested rate changes strictly after its row, to four  *)
(* decimals: the backward scan's two cursors (rows, rate changes) stay in *)
(* step whatever the epochs, however many changes fall between two rows   *)
(* or share an epoch, and whichever flags the arguments set.              *)
AdjustedByLaterChanges ==
  phase \in {"accumulated", "output"} =>
    \A n \in Numeric, i \in 1..Len(epochs) :
      LET rate == LaterRate(epochs[i])
          exact == input.data[n][i] * RounderNum
      IN  2 * (output[n][i] * rate - exact) \in -rate..rate

(* Output returns the query's columns: Epoch as given, every numeric      *)
(* column adjusted and every other column exactly as it came in.          *)
OutputKeepsColumns ==
  phase = "output" =>
    /\ DOMAIN result = DOMAIN Shape
    /\ result["Epoch"] = input.epochs
    /\ \A n \in DOMAIN Shape \ Numeric : result[n] = input.data[n]
====
