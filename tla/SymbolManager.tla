--------------------------- MODULE SymbolManager ---------------------------
(***************************************************************************)
(* symbols.Manager of contrib/binancefeeder_v2/symbols/manager.go, called  *)
(* by concurrent goroutines (Clients).                                     *)
(*                                                                         *)
(* The manager keeps the configured includes `symbols', the excludes and   *)
(* the exchange catalog `allSymbols' behind one sync.RWMutex.  Readers     *)
(* take RLock and writers Lock; GetSymbolCount, GetSymbolsByPattern and    *)
(* GetSymbolsByQuoteAsset hold RLock and call GetAllSymbols, which takes   *)
(* RLock a second time.  The mutex follows Go's sync.RWMutex: a writer     *)
(* that has announced itself in Lock blocks every new RLock, including a   *)
(* nested one, and waits for the readers already inside.                   *)
(*                                                                         *)
(* Symbols are strings; the constant operator Upper is strings.ToUpper on  *)
(* them, and strings.EqualFold(a, b) is Upper(a) = Upper(b).               *)
(*                                                                         *)
(* `symbols' and `excludeSymbols' are Go slices: a header [arr, len] over  *)
(* a backing array whose length is the capacity.  append writes in place   *)
(* while there is room and moves to a new array when there is not.         *)
(* GetAllSymbols and GetSymbols return m.symbols itself when there are no  *)
(* excludes, and GetExcludeSymbols always returns m.excludeSymbols, so the *)
(* caller shares the array the mutation methods later write under Lock.    *)
(* A caller ranges over the returned slice after the RUnlock, one element  *)
(* per step, as Backfill.Run and Realtime do with GetAllSymbols.           *)
(***************************************************************************)
EXTENDS Naturals, Sequences, SequencesExt

CONSTANTS
  Clients,       \* goroutines calling the manager
  Names,         \* the symbol strings the callers pass
  Upper(_),      \* strings.ToUpper
  InitSymbols,   \* config.Symbols, as NewManager receives it
  InitExcludes,  \* config.ExcludeSymbols
  Catalog,       \* GetExchangeInfo's symbols: [symbol, status, spot] records
  Ops,           \* the methods the callers may call
  MaxOps,        \* bound: calls per client
  NoWriter,      \* no goroutine holds or waits in Lock past rw.w
  NoOp, NoArg    \* an idle client's method and argument

SliceOps  == {"GetAllSymbols", "GetSymbols", "GetExcludeSymbols"}
ReadOps   == SliceOps \cup {"IsValidSymbol"}
NestedOps == {"GetSymbolCount", "GetSymbolsByPattern", "GetSymbolsByQuoteAsset"}
WriteOps  == {"AddSymbol", "RemoveSymbol", "AddExcludeSymbol", "RemoveExcludeSymbol"}
LoadOp    == "LoadAllSymbols"
ArgOps    == (WriteOps \cup {"IsValidSymbol", "GetSymbolsByPattern", "GetSymbolsByQuoteAsset"})

ASSUME /\ Ops \subseteq ReadOps \cup NestedOps \cup WriteOps \cup {LoadOp}
       /\ MaxOps \in Nat
       /\ ToSet(InitSymbols) \cup ToSet(InitExcludes) \subseteq Names

VARIABLES
  symbols,         \* Manager.symbols, a slice header [arr, len]
  excludeSymbols,  \* Manager.excludeSymbols, a slice header
  allSymbols,      \* Manager.allSymbols
  readers,         \* read locks held (rw.readerCount, counting nested ones)
  writer,          \* the goroutine past rw.w in Lock, or NoWriter
  pc,              \* per client: "idle", "rlock", "rlock2", "read", "range",
                   \*   "fetch", "lock", "drain", "write"
  op, arg,         \* per client: the method being run and its argument
  held,            \* per client: read locks it holds
  loaded,          \* per client: the list LoadAllSymbols fetched
  calls,           \* per client: methods called
  got,             \* per client: the slice returned, [src, len, frozen]
  ret,             \* per client: its elements when it was returned
  seen             \* per client: the elements its range loop has read

vars == <<symbols, excludeSymbols, allSymbols, readers, writer, pc, op, arg,
          held, loaded, calls, got, ret, seen>>
callerVars == <<got, ret, seen>>

-----------------------------------------------------------------------------
(* Go slices.                                                              *)

\* The zero string, in the slots of a new array past its length.
ZeroString == ""

\* The elements a slice header sees on its backing array.
View(sl) == SubSeq(sl.arr, 1, sl.len)

\* make([]string, n) filled by ParseConfig: capacity n.
MakeSlice(seq) == [arr |-> seq, len |-> Len(seq)]

\* growslice for a few 16-byte strings: the capacity doubles (from 0 to 1);
\* these sizes are malloc size classes, so no rounding up.
GrownCap(c) == IF c = 0 THEN 1 ELSE 2 * c

\* append(sl, x): in place while len < cap, else a copy into a new array.
GoAppend(sl, x) ==
  IF sl.len < Len(sl.arr)
  THEN [arr |-> [sl.arr EXCEPT ![sl.len + 1] = x], len |-> sl.len + 1]
  ELSE [arr |-> Append(sl.arr, x)
                  \o [j \in 1..(GrownCap(Len(sl.arr)) - sl.len - 1) |-> ZeroString],
        len |-> sl.len + 1]

\* append(s[:i], s[i+1:]...) (Go's i is ours less one): the tail moves down
\* one slot in the same array; the old last slot keeps its value.
GoRemove(sl, i) ==
  [arr |-> [j \in DOMAIN sl.arr |->
              IF i <= j /\ j < sl.len THEN sl.arr[j + 1] ELSE sl.arr[j]],
   len |-> sl.len - 1]

-----------------------------------------------------------------------------
(* The methods' data.                                                      *)

\* strings.EqualFold(x, n) for some x of the list.
HasFold(seq, n) == \E i \in DOMAIN seq : Upper(seq[i]) = Upper(n)

\* filterSymbols: the list without the entries an exclude matches after
\* ToUpper; the list itself when there are no excludes.
FilterSymbols(seq, exc) ==
  IF Len(exc) = 0 THEN seq ELSE SelectSeq(seq, LAMBDA s : ~HasFold(exc, s))

\* GetAllSymbols: the includes when there are any, else the catalog.
GetAllSymbols(inc, exc, all) ==
  IF Len(inc) > 0 THEN FilterSymbols(inc, exc) ELSE FilterSymbols(all, exc)

\* Variant with a bug: the excludes are not consulted.
IsValidSkipsExcludes(n, inc, exc, all) ==
  IF Len(inc) > 0 THEN HasFold(inc, n) ELSE HasFold(all, n)

\* IsValidSymbol.
IsValidSymbol(n, inc, exc, all) ==
  /\ ~HasFold(exc, n)
  /\ IF Len(inc) > 0 THEN HasFold(inc, n) ELSE HasFold(all, n)

\* AddSymbol / AddExcludeSymbol: a no-op when an entry matches with
\* EqualFold, otherwise append ToUpper(symbol).
AddFold(sl, n) == IF HasFold(View(sl), n) THEN sl ELSE GoAppend(sl, Upper(n))

\* RemoveSymbol / RemoveExcludeSymbol: drop the first entry that matches.
RemoveFold(sl, n) ==
  LET i == SelectInSeq(View(sl), LAMBDA s : Upper(s) = Upper(n)) IN
  IF i = 0 THEN sl ELSE GoRemove(sl, i)

\* LoadAllSymbols' filter: TRADING symbols that allow spot trading.
Tradable(cat) ==
  LET sel == SelectSeq(cat, LAMBDA r : r.status = "TRADING" /\ r.spot) IN
  [i \in DOMAIN sel |-> sel[i].symbol]

\* The slice a plain reader returns under RLock: GetExcludeSymbols returns
\* m.excludeSymbols; filterSymbols returns its argument when there are no
\* excludes, and m.symbols is then shared; a filtered list and
\* m.allSymbols (only ever replaced, never written in place) are private.
SliceResult(m) ==
  LET inc == View(symbols)
      exc == View(excludeSymbols)
      priv(seq) == [src |-> "none", len |-> Len(seq), frozen |-> seq]
  IN CASE m = "GetExcludeSymbols" -> [src |-> "excludes", len |-> excludeSymbols.len, frozen |-> <<>>]
       [] Len(exc) = 0 /\ (m = "GetSymbols" \/ Len(inc) > 0) ->
            [src |-> "symbols", len |-> symbols.len, frozen |-> <<>>]
       [] m = "GetSymbols" -> priv(FilterSymbols(inc, exc))
       [] OTHER -> priv(GetAllSymbols(inc, exc, allSymbols))

\* What a caller's slice sees now on the array it shares, or its own copy.
Live(g) ==
  CASE g.src = "symbols"  -> SubSeq(symbols.arr, 1, g.len)
    [] g.src = "excludes" -> SubSeq(excludeSymbols.arr, 1, g.len)
    [] OTHER              -> g.frozen

\* A write that gives the list `src' a new backing array (old -> new) leaves
\* a caller that shared the old one alone with it.
Detach(g, src, old, new) ==
  IF g.src = src /\ Len(new.arr) # Len(old.arr)
  THEN [src |-> "none", len |-> g.len, frozen |-> SubSeq(old.arr, 1, g.len)]
  ELSE g

NoSlice == [src |-> "none", len |-> 0, frozen |-> <<>>]

\* The method returns: its locals are gone.
Return(c) ==
  /\ pc' = [pc EXCEPT ![c] = "idle"]
  /\ op' = [op EXCEPT ![c] = NoOp]
  /\ arg' = [arg EXCEPT ![c] = NoArg]

-----------------------------------------------------------------------------
Init ==
  /\ symbols = MakeSlice(InitSymbols)
  /\ excludeSymbols = MakeSlice(InitExcludes)
  /\ allSymbols = <<>>
  /\ readers = 0
  /\ writer = NoWriter
  /\ pc = [c \in Clients |-> "idle"]
  /\ op = [c \in Clients |-> NoOp]
  /\ arg = [c \in Clients |-> NoArg]
  /\ held = [c \in Clients |-> 0]
  /\ loaded = [c \in Clients |-> <<>>]
  /\ calls = [c \in Clients |-> 0]
  /\ got = [c \in Clients |-> NoSlice]
  /\ ret = [c \in Clients |-> <<>>]
  /\ seen = [c \in Clients |-> <<>>]

(* A client calls method m with argument n (methods without one get      *)
(* NoArg).                                                                 *)
Call(c, m, n) ==
  /\ pc[c] = "idle"
  /\ calls[c] < MaxOps
  /\ (m \in ArgOps) = (n # NoArg)
  /\ op' = [op EXCEPT ![c] = m]
  /\ arg' = [arg EXCEPT ![c] = n]
  /\ calls' = [calls EXCEPT ![c] = @ + 1]
  /\ pc' = [pc EXCEPT ![c] = CASE m \in ReadOps \cup NestedOps -> "rlock"
                               [] m \in WriteOps -> "lock"
                               [] OTHER -> "fetch"]
  /\ got' = [got EXCEPT ![c] = NoSlice]
  /\ ret' = [ret EXCEPT ![c] = <<>>]
  /\ seen' = [seen EXCEPT ![c] = <<>>]
  /\ UNCHANGED <<symbols, excludeSymbols, allSymbols, readers, writer, held, loaded>>

(* m.mutex.RLock(): blocks while a writer has announced itself.  The        *)
(* nested methods come back here from GetAllSymbols for a second RLock.    *)
RLock(c) ==
  /\ pc[c] \in {"rlock", "rlock2"}
  /\ writer = NoWriter
  /\ readers' = readers + 1
  /\ held' = [held EXCEPT ![c] = @ + 1]
  /\ pc' = [pc EXCEPT ![c] = IF pc[c] = "rlock" /\ op[c] \in NestedOps
                             THEN "rlock2" ELSE "read"]
  /\ UNCHANGED <<symbols, excludeSymbols, allSymbols, writer, op, arg, loaded, calls>>
  /\ UNCHANGED callerVars

(* The body of a read method and its deferred RUnlock (two for the nested  *)
(* methods).  A slice result goes to the caller, which ranges over it; the *)
(* other results (a bool, a count, a freshly appended list) change no      *)
(* state.                                                                  *)
Read(c) ==
  /\ pc[c] = "read"
  /\ readers' = readers - held[c]
  /\ held' = [held EXCEPT ![c] = 0]
  /\ IF op[c] \in SliceOps
     THEN LET r == SliceResult(op[c]) IN
          /\ got' = [got EXCEPT ![c] = r]
          /\ ret' = [ret EXCEPT ![c] = Live(r)]
          /\ pc' = [pc EXCEPT ![c] = "range"]
          /\ UNCHANGED <<op, arg, seen>>
     ELSE Return(c) /\ UNCHANGED callerVars
  /\ UNCHANGED <<symbols, excludeSymbols, allSymbols, writer, loaded, calls>>

(* One iteration of the caller's `for _, s := range list': it reads the    *)
(* next element from the array, without the lock.                          *)
RangeNext(c) ==
  /\ pc[c] = "range"
  /\ Len(seen[c]) < got[c].len
  /\ seen' = [seen EXCEPT ![c] = Append(@, Live(got[c])[Len(@) + 1])]
  /\ UNCHANGED <<symbols, excludeSymbols, allSymbols, readers, writer, pc, op, arg,
                 held, loaded, calls, got, ret>>

(* The loop has run over the slice's length, fixed when the range began.   *)
RangeDone(c) ==
  /\ pc[c] = "range"
  /\ Len(seen[c]) = got[c].len
  /\ Return(c)
  /\ UNCHANGED <<symbols, excludeSymbols, allSymbols, readers, writer, held, loaded,
                 calls, got, ret, seen>>

\* GetExchangeInfo: a failed request, a status other than 200 or a body
\* that does not decode is an error; otherwise the decoded catalog.
ExchangeInfoResults ==
  {[ok |-> TRUE, info |-> Catalog], [ok |-> FALSE, info |-> <<>>]}

(* LoadAllSymbols: GetExchangeInfo without the lock; an error is returned  *)
(* and the catalog left as it is.                                           *)
Fetch(c) ==
  /\ pc[c] = "fetch"
  /\ \E res \in ExchangeInfoResults :
       IF res.ok
       THEN /\ loaded' = [loaded EXCEPT ![c] = Tradable(res.info)]
            /\ pc' = [pc EXCEPT ![c] = "lock"]
            /\ UNCHANGED <<op, arg>>
       ELSE /\ Return(c)
            /\ UNCHANGED loaded
  /\ UNCHANGED <<symbols, excludeSymbols, allSymbols, readers, writer, held, calls>>
  /\ UNCHANGED callerVars

(* m.mutex.Lock(), first half: take rw.w and announce the writer, which    *)
(* stops new readers.                                                      *)
Lock(c) ==
  /\ pc[c] = "lock"
  /\ writer = NoWriter
  /\ writer' = c
  /\ pc' = [pc EXCEPT ![c] = "drain"]
  /\ UNCHANGED <<symbols, excludeSymbols, allSymbols, readers, op, arg, held, loaded, calls>>
  /\ UNCHANGED callerVars

\* Variant with a bug: the writer goes on while readers are inside.
DrainEarly(c) ==
  /\ pc[c] = "drain"
  /\ pc' = [pc EXCEPT ![c] = "write"]
  /\ UNCHANGED <<symbols, excludeSymbols, allSymbols, readers, writer, op, arg, held, loaded, calls>>
  /\ UNCHANGED callerVars

(* Lock(), second half: wait for the readers that were inside to leave.     *)
Drain(c) ==
  /\ pc[c] = "drain"
  /\ readers = 0
  /\ pc' = [pc EXCEPT ![c] = "write"]
  /\ UNCHANGED <<symbols, excludeSymbols, allSymbols, readers, writer, op, arg, held, loaded, calls>>
  /\ UNCHANGED callerVars

\* The lists after the write method op runs with argument n.
Written(m, n, l) ==
  CASE m = "AddSymbol"           -> [s |-> AddFold(symbols, n), e |-> excludeSymbols, a |-> allSymbols]
    [] m = "RemoveSymbol"        -> [s |-> RemoveFold(symbols, n), e |-> excludeSymbols, a |-> allSymbols]
    [] m = "AddExcludeSymbol"    -> [s |-> symbols, e |-> AddFold(excludeSymbols, n), a |-> allSymbols]
    [] m = "RemoveExcludeSymbol" -> [s |-> symbols, e |-> RemoveFold(excludeSymbols, n), a |-> allSymbols]
    [] m = LoadOp                -> [s |-> symbols, e |-> excludeSymbols, a |-> l]

\* Variant with a bug: the deferred Unlock is missing.
WriteNoUnlock(c) ==
  LET w == Written(op[c], arg[c], loaded[c]) IN
  /\ pc[c] = "write"
  /\ symbols' = w.s /\ excludeSymbols' = w.e /\ allSymbols' = w.a
  /\ got' = [x \in Clients |-> Detach(Detach(got[x], "symbols", symbols, w.s),
                                      "excludes", excludeSymbols, w.e)]
  /\ Return(c)
  /\ loaded' = [loaded EXCEPT ![c] = <<>>]
  /\ UNCHANGED <<readers, writer, held, calls, ret, seen>>

(* The body of a write method under Lock, and the deferred Unlock.         *)
Write(c) ==
  LET w == Written(op[c], arg[c], loaded[c]) IN
  /\ pc[c] = "write"
  /\ symbols' = w.s /\ excludeSymbols' = w.e /\ allSymbols' = w.a
  /\ got' = [x \in Clients |-> Detach(Detach(got[x], "symbols", symbols, w.s),
                                      "excludes", excludeSymbols, w.e)]
  /\ writer' = NoWriter
  /\ Return(c)
  /\ loaded' = [loaded EXCEPT ![c] = <<>>]
  /\ UNCHANGED <<readers, held, calls, ret, seen>>

(* Every client has made its calls and returned.                           *)
Finished ==
  /\ \A c \in Clients : pc[c] = "idle" /\ calls[c] = MaxOps
  /\ UNCHANGED vars

Next ==
  \/ \E c \in Clients :
       \/ \E m \in Ops, n \in Names \cup {NoArg} : Call(c, m, n)
       \/ RLock(c) \/ Read(c) \/ RangeNext(c) \/ RangeDone(c)
       \/ Fetch(c) \/ Lock(c) \/ Drain(c) \/ Write(c)
  \/ Finished

(* Each goroutine runs when it can; a goroutine waiting for the RWMutex    *)
(* gets it if it is free infinitely often (waiters are woken on every      *)
(* Unlock and RUnlock of the last reader).                                 *)
Fairness ==
  \A c \in Clients :
    /\ SF_vars(RLock(c)) /\ SF_vars(Lock(c)) /\ WF_vars(Drain(c))
    /\ WF_vars(Read(c)) /\ WF_vars(RangeNext(c)) /\ WF_vars(RangeDone(c))
    /\ WF_vars(Fetch(c)) /\ WF_vars(Write(c))

Spec == Init /\ [][Next]_vars /\ Fairness

-----------------------------------------------------------------------------
(* Properties.                                                             *)

Phases == {"idle", "rlock", "rlock2", "read", "range", "fetch", "lock", "drain", "write"}

(* The type, and the RWMutex's own accounting: the read count is the sum   *)
(* of the clients' holds, and a writer runs its body alone.                *)
TypeOK ==
  /\ \A sl \in {symbols, excludeSymbols} :
       /\ sl.arr \in Seq(Names \cup {ZeroString})
       /\ sl.len \in 0..Len(sl.arr)
       /\ View(sl) \in Seq(Names)
  /\ writer \in Clients \cup {NoWriter}
  /\ pc \in [Clients -> Phases]
  /\ held \in [Clients -> 0..2]
  /\ calls \in [Clients -> 0..MaxOps]
  /\ readers = SumFunction(held)
  /\ \A c \in Clients : pc[c] = "write" => writer = c /\ readers = 0
  /\ \A c \in Clients : Len(seen[c]) <= got[c].len

(* IsValidSymbol(n) agrees with the working set: n is valid exactly when   *)
(* it matches (EqualFold) a symbol GetAllSymbols returns in the same state. *)
IsValidAgreesWithWorkingSet ==
  \A n \in Names :
    IsValidSymbol(n, View(symbols), View(excludeSymbols), allSymbols)
      <=> HasFold(GetAllSymbols(View(symbols), View(excludeSymbols), allSymbols), n)

(* A caller that ranges over the list GetAllSymbols, GetSymbols or         *)
(* GetExcludeSymbols returned reads the elements the method returned, in   *)
(* order, whatever the other goroutines' AddSymbol, RemoveSymbol,          *)
(* AddExcludeSymbol and RemoveExcludeSymbol do meanwhile (Backfill.Run     *)
(* would otherwise start one symbol twice and skip another).               *)
RangedAsReturned ==
  \A c \in Clients : seen[c] = SubSeq(ret[c], 1, Len(seen[c]))

(* Every method call returns: no goroutine stays blocked on the RWMutex.   *)
CallsReturn ==
  \A c \in Clients : pc[c] # "idle" ~> pc[c] = "idle"
=============================================================================
