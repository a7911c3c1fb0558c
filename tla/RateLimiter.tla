----------------------------- MODULE RateLimiter -----------------------------
(***************************************************************************)
(* RateLimiter of contrib/binancefeeder_v2/api/client.go, shared by every  *)
(* REST call of the Client (GetKlines, GetRecentTrades, GetDepth,          *)
(* GetExchangeInfo, GetServerTime each start with rateLimiter.Wait()).     *)
(*                                                                         *)
(* Wait() takes the mutex, reads the clock, sleeps for what is left of     *)
(* `interval' since lastCall, sets lastCall to the clock read after the    *)
(* sleep and releases the mutex on return.  The callers are the goroutines *)
(* issuing requests; the clock `now' counts ticks and moves on its own.    *)
(***************************************************************************)
EXTENDS Naturals, Sequences

CONSTANTS
  Callers,    \* goroutines calling the Client
  Interval,   \* requestInterval = time.Minute / requestsPerMinute, in ticks
  MaxCalls,   \* bound: REST calls per caller
  MaxTime,    \* bound: the clock runs freely up to MaxTime
  NoCall,     \* lastCall before any call (the zero time.Time)
  NoHolder    \* the mutex is free

ASSUME Interval \in Nat \ {0} /\ MaxCalls \in Nat /\ MaxTime \in Nat

VARIABLES
  now,       \* the clock
  lastCall,  \* RateLimiter.lastCall
  holder,    \* the goroutine holding RateLimiter.mu
  pc,        \* per caller: "idle", "locking", "sleeping"
  readAt,    \* per caller: the clock read right after locking (`now')
  wake,      \* per caller: when its time.Sleep ends
  calls,     \* per caller: calls that got through Wait()
  granted    \* history: the clock each time Wait() returned, in order

vars == <<now, lastCall, holder, pc, readAt, wake, calls, granted>>

\* now.Sub(r.lastCall) < r.interval: the zero lastCall is far in the past.
TooSoon(t, last) == last # NoCall /\ t - last < Interval

\* The end of time.Sleep(r.interval - now.Sub(r.lastCall)), or now.
SleepUntil(t, last) == IF TooSoon(t, last) THEN last + Interval ELSE t

Init ==
  /\ now = 0
  /\ lastCall = NoCall
  /\ holder = NoHolder
  /\ pc = [c \in Callers |-> "idle"]
  /\ readAt = [c \in Callers |-> 0]
  /\ wake = [c \in Callers |-> 0]
  /\ calls = [c \in Callers |-> 0]
  /\ granted = <<>>

(* A Client method is called and enters Wait().                           *)
Call(c) ==
  /\ pc[c] = "idle"
  /\ calls[c] < MaxCalls
  /\ pc' = [pc EXCEPT ![c] = "locking"]
  /\ UNCHANGED <<now, lastCall, holder, readAt, wake, calls, granted>>

(* Variant with a bug: the mutex is not taken.                             *)
LockUnguarded(c) ==
  /\ pc[c] = "locking"
  /\ holder' = c
  /\ readAt' = [readAt EXCEPT ![c] = now]
  /\ wake' = [wake EXCEPT ![c] = SleepUntil(now, lastCall)]
  /\ pc' = [pc EXCEPT ![c] = "sleeping"]
  /\ UNCHANGED <<now, lastCall, calls, granted>>

(* r.mu.Lock(); now := time.Now(); compute the sleep from r.lastCall.     *)
Lock(c) ==
  /\ pc[c] = "locking"
  /\ holder = NoHolder
  /\ holder' = c
  /\ readAt' = [readAt EXCEPT ![c] = now]
  /\ wake' = [wake EXCEPT ![c] = SleepUntil(now, lastCall)]
  /\ pc' = [pc EXCEPT ![c] = "sleeping"]
  /\ UNCHANGED <<now, lastCall, calls, granted>>

(* Variant with a bug: lastCall is set to the clock read before sleeping. *)
WakeStaleStamp(c) ==
  /\ pc[c] = "sleeping"
  /\ now >= wake[c]
  /\ lastCall' = readAt[c]
  /\ holder' = NoHolder
  /\ granted' = Append(granted, now)
  /\ calls' = [calls EXCEPT ![c] = @ + 1]
  /\ pc' = [pc EXCEPT ![c] = "idle"]
  /\ UNCHANGED <<now, readAt, wake>>

(* Variant with a bug: the mutex is not released.                          *)
WakeNoUnlock(c) ==
  /\ pc[c] = "sleeping"
  /\ now >= wake[c]
  /\ lastCall' = now
  /\ granted' = Append(granted, now)
  /\ calls' = [calls EXCEPT ![c] = @ + 1]
  /\ pc' = [pc EXCEPT ![c] = "idle"]
  /\ UNCHANGED <<now, holder, readAt, wake>>

(* The sleep is over: r.lastCall = time.Now(); the deferred Unlock runs;   *)
(* the caller goes on to send its request.                                 *)
Wake(c) ==
  /\ pc[c] = "sleeping"
  /\ now >= wake[c]
  /\ lastCall' = now
  /\ holder' = NoHolder
  /\ granted' = Append(granted, now)
  /\ calls' = [calls EXCEPT ![c] = @ + 1]
  /\ pc' = [pc EXCEPT ![c] = "idle"]
  /\ UNCHANGED <<now, readAt, wake>>

(* Time passes: freely up to MaxTime, and beyond while a caller sleeps.    *)
SleepPending == \E c \in Callers : pc[c] = "sleeping" /\ wake[c] > now

Tick ==
  /\ now < MaxTime \/ SleepPending
  /\ now' = now + 1
  /\ UNCHANGED <<lastCall, holder, pc, readAt, wake, calls, granted>>

(* Every caller has made its MaxCalls calls and the clock is at its bound. *)
Finished ==
  /\ \A c \in Callers : pc[c] = "idle" /\ calls[c] = MaxCalls
  /\ now >= MaxTime
  /\ UNCHANGED vars

Next ==
  \/ \E c \in Callers : Call(c) \/ Lock(c) \/ Wake(c)
  \/ Tick
  \/ Finished

(* sync.Mutex hands the lock to a waiter starved for over 1 ms, so a       *)
(* waiter that keeps finding the lock free gets it: strong fairness.  A    *)
(* sleeping goroutine is woken, and time does not stop while one sleeps.   *)
Fairness ==
  /\ \A c \in Callers : SF_vars(Lock(c)) /\ WF_vars(Wake(c))
  /\ WF_vars(SleepPending /\ Tick)

Spec == Init /\ [][Next]_vars /\ Fairness

-----------------------------------------------------------------------------
TypeOK ==
  /\ now \in Nat
  /\ lastCall \in {NoCall} \cup 0..now
  /\ holder \in {NoHolder} \cup Callers
  /\ pc \in [Callers -> {"idle", "locking", "sleeping"}]
  /\ \A c \in Callers : pc[c] = "sleeping" => holder = c
  /\ calls \in [Callers -> 0..MaxCalls]

\* The refinement mapping: a goroutine is waiting from the call of Wait()
\* until it returns, and lastCall is when the last one went through.
Limit == INSTANCE RateLimit WITH waiting <- {c \in Callers : pc[c] # "idle"},
                                 last <- lastCall

(* Spec 4.1: RateLimiter implements RateLimit.  Every return of Wait() is *)
(* a step in which no one went through in the last interval, however the  *)
(* mutex, the clock read before the sleep and the stamp after it          *)
(* interleave between goroutines; and a caller the abstract limiter would *)
(* let through infinitely often is let through.                           *)
ImplementsRateLimit == Limit!Spec

(* Every goroutine that enters Wait() gets through it: none is left        *)
(* waiting for the mutex or sleeping forever.                              *)
WaitReturns ==
  \A c \in Callers : pc[c] = "locking" ~> pc[c] = "idle"
=============================================================================
