------------------------------- MODULE SrmTime -------------------------------
(***************************************************************************)
(* time_utils.h: sums and comparisons of struct timespec.  A sum carries   *)
(* only above a second, so a sum of exactly one second keeps a nanosecond  *)
(* field of NANOS, and compares as earlier than the same time carried.     *)
(***************************************************************************)
EXTENDS Integers

CONSTANT NANOS   \* nanoseconds, or ticks, in a second

ASSUME TimeAssumption == NANOS \in Nat \ {0}

\* What timespec_add makes of sums; the clock's readings are Carried.
Timespecs == [ sec : Nat, nsec : 0 .. NANOS ]
Carried   == [ sec : Nat, nsec : 0 .. NANOS - 1 ]

\* The time a timespec stands for, and the reading of a clock at time t.
Value(a)   == a.sec * NANOS + a.nsec
Reading(t) == [ sec |-> t \div NANOS, nsec |-> t % NANOS ]

Zero == [ sec |-> 0, nsec |-> 0 ]

\* timespec_cmp with the operator <.
timespec_lt(a, b) == IF a.sec = b.sec THEN a.nsec < b.nsec ELSE a.sec < b.sec

\* Mutant: no carry.
AddWithoutCarry(a, b) == [ sec |-> a.sec + b.sec, nsec |-> a.nsec + b.nsec ]

timespec_add(a, b) ==
  LET n == a.nsec + b.nsec
  IN  IF n > NANOS THEN [ sec |-> a.sec + b.sec + 1, nsec |-> n - NANOS ]
                   ELSE [ sec |-> a.sec + b.sec,     nsec |-> n ]
=============================================================================
