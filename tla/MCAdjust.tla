------------------------------ MODULE MCAdjust ------------------------------
(***************************************************************************)
(* Adjust for TLC: queries of up to two rows at epochs 1..3 over an OHLCV- *)
(* like shape (float64 price, int64 count, a string column), and up to two *)
(* recorded splits or dividends at epochs 1..4, so a change can fall      *)
(* before, between, on or after the rows, and two can share an epoch.     *)
(***************************************************************************)
EXTENDS Adjust

MCShape == [Epoch |-> "INT64", Close |-> "FLOAT64", Trades |-> "INT64",
            Exchange |-> "STRING"]

\* Init's words as a query may spell them.
MCArgLists == {<<>>, <<"split">>, <<"Dividend">>, <<"SPLIT", "dividend">>, <<"other">>}

MCLower(w) == CASE w = "SPLIT" -> "split"
              []   w = "Dividend" -> "dividend"
              []   OTHER -> w
====
