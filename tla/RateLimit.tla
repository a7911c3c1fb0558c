------------------------------ MODULE RateLimit ------------------------------
(***************************************************************************)
(* What the Client's rate limiter promises (spec 4.1), without a mutex, a  *)
(* sleep or a clock read: a goroutine that has asked to go may be let      *)
(* through only when no one went through in the last `Interval' ticks, and *)
(* one that keeps finding the way clear is let through.                    *)
(***************************************************************************)
EXTENDS Naturals, Sequences

CONSTANTS Callers, Interval, NoCall

VARIABLES
  now,      \* the clock
  last,     \* when the last goroutine went through, or NoCall
  waiting,  \* goroutines that have asked and not yet gone through
  granted   \* the times goroutines went through, in order

vars == <<now, last, waiting, granted>>

\* The way is clear at time t.
Clear(t, l) == l = NoCall \/ t - l >= Interval

Init ==
  /\ now = 0 /\ last = NoCall /\ waiting = {} /\ granted = <<>>

Ask(c) ==
  /\ c \notin waiting
  /\ waiting' = waiting \cup {c}
  /\ UNCHANGED <<now, last, granted>>

Go(c) ==
  /\ c \in waiting
  /\ Clear(now, last)
  /\ last' = now
  /\ waiting' = waiting \ {c}
  /\ granted' = Append(granted, now)
  /\ UNCHANGED now

Tick ==
  /\ now' = now + 1
  /\ UNCHANGED <<last, waiting, granted>>

Next == Tick \/ \E c \in Callers : Ask(c) \/ Go(c)

Spec == Init /\ [][Next]_vars /\ \A c \in Callers : SF_vars(Go(c))
====
