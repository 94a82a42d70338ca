---------------------------- MODULE TokenBucket ----------------------------
(***************************************************************************)
(* The token bucket of conn/ratelimit.rs, which paces what the client      *)
(* sends and what it accepts.  Tokens are counted in parts: Unit parts are *)
(* one token and Rate parts accrue in one tick of the clock, so that the   *)
(* fractions the code keeps in floating point are exact here.              *)
(*                                                                         *)
(* A window opens at any moment and counts what is let through from there. *)
(***************************************************************************)
EXTENDS Integers

CONSTANTS
    Capacity,    \* parts in a full bucket
    Rate,        \* parts accrued in a tick
    Unit,        \* parts in one token
    MaxNow       \* ticks explored

ASSUME BucketAssumption ==
    /\ Capacity \in Nat /\ Rate \in Nat \ {0} /\ Unit \in Nat \ {0} /\ Unit <= Capacity
    /\ MaxNow \in Nat

VARIABLES
    tokens,      \* TokenBucket.tokens
    last,        \* TokenBucket.last_refill
    now,         \* the clock
    open,        \* when the window was opened
    passed,      \* tokens consumed in the window
    wake         \* when the sleeper armed by wait_time wakes; -1 when none is armed

bucket == <<tokens, last>>
window == <<open, passed>>
vars == <<bucket, now, window, wake>>

Least(a, b) == IF a <= b THEN a ELSE b

\* TokenBucket::new
Init ==
    /\ tokens = Capacity /\ last = 0 /\ now = 0
    /\ open = 0 /\ passed = 0 /\ wake = -1

\* Mutant of Refilled: a long silence earns a longer burst.
RefilledUncapped == tokens + Rate * (now - last)

\* What refill leaves in the bucket.
Refilled == Least(Capacity, tokens + Rate * (now - last))

\* Mutant of Refill: the time of the refill is not kept.
RefillUndated(left) ==
    /\ tokens' = left
    /\ UNCHANGED last

Refill(left) ==
    /\ tokens' = left
    /\ last' = now

\* try_consume, when there is a token
Consume ==
    /\ Refilled >= Unit
    /\ Refill(Refilled - Unit)
    /\ passed' = passed + 1
    /\ wake' = -1
    /\ UNCHANGED <<now, open>>

\* try_consume, when there is none
Refuse ==
    /\ Refilled < Unit
    /\ Refill(Refilled)
    /\ UNCHANGED <<now, window, wake>>

\* Mutant of WaitTime: the wait is rounded down.
WaitTimeShort ==
    /\ Refill(Refilled)
    /\ wake' = IF Refilled >= Unit THEN now ELSE now + ((Unit - Refilled) \div Rate)
    /\ UNCHANGED <<now, window>>

\* time_until_available, and the timer connect_once arms with it
WaitTime ==
    /\ Refill(Refilled)
    /\ wake' = IF Refilled >= Unit THEN now ELSE now + ((Unit - Refilled + Rate - 1) \div Rate)
    /\ UNCHANGED <<now, window>>

Tick ==
    /\ now < MaxNow
    /\ now' = now + 1
    /\ UNCHANGED <<bucket, window, wake>>

OpenWindow ==
    /\ open' = now /\ passed' = 0
    /\ UNCHANGED <<bucket, now, wake>>

Next == Consume \/ Refuse \/ WaitTime \/ Tick \/ OpenWindow

Spec == Init /\ [][Next]_vars

-----------------------------------------------------------------------------
TypeOK ==
    /\ tokens \in 0..Capacity
    /\ now \in Nat /\ last \in 0..now /\ open \in 0..now
    /\ passed \in Nat /\ wake \in Int

(* Over every window, however it is placed among bursts, silences and refused   *)
(* requests, no more is let through than one full bucket and what accrued in    *)
(* the window: the promise that bounds a flood (TokenBucket, "`capacity` tokens *)
(* available in a burst, refilling at `refill_per_sec` sustained").             *)
WindowBounded == passed * Unit <= Capacity + Rate * (now - open)

(* What makes it inductive: what is still in the bucket counts too.             *)
WindowAccount == passed * Unit + Refilled <= Capacity + Rate * (now - open)

(* What makes the next one inductive: the wait is counted from the last refill. *)
WaitAccount == wake >= 0 => tokens + Rate * (wake - last) >= Unit

(* Waiting as long as wait_time says is enough: the sleeper finds a token when  *)
(* it wakes, so that the event loop neither spins nor oversleeps a refusal.     *)
WaitIsEnough == wake >= 0 /\ now >= wake => Refilled >= Unit
=============================================================================
