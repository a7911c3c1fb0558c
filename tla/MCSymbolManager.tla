-------------------------- MODULE MCSymbolManager --------------------------
(* SymbolManager for TLC: two goroutines, two calls each, over symbol      *)
(* strings that differ only in case, with a lower-case exclude and an     *)
(* upper-case include of the same market, and a catalog with a symbol     *)
(* that is not trading.                                                   *)
EXTENDS SymbolManager

CONSTANTS g1, g2

MCClients == {g1, g2}
MCNames == {"btcusdt", "BTCUSDT", "ETHUSDT"}
MCUpper(s) == IF s = "btcusdt" THEN "BTCUSDT" ELSE s
MCInitSymbols == <<"BTCUSDT", "ETHUSDT">>
MCInitExcludes == <<"btcusdt">>
MCCatalog == <<[symbol |-> "BTCUSDT", status |-> "TRADING", spot |-> TRUE],
               [symbol |-> "ETHUSDT", status |-> "BREAK", spot |-> TRUE]>>
MCOps == {"GetAllSymbols", "GetSymbols", "GetExcludeSymbols", "IsValidSymbol",
          "AddSymbol", "RemoveSymbol",
          "AddExcludeSymbol", "RemoveExcludeSymbol", "LoadAllSymbols"}
MCNestedOps == MCOps \cup {"GetSymbolCount"}
=============================================================================
