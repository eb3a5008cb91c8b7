------------------------------- MODULE SrmWait -------------------------------
(***************************************************************************)
(* The waiting rules of the polling loops (srm_util.c), as pure operators  *)
(* on the internal context of one call.  Time is counted in ticks; `now'   *)
(* and the deadline are measured from the start of the call.               *)
(*                                                                         *)
(* A wait may have several outcomes (the OLD logic draws its length), so   *)
(* each rule is a SET of records                                           *)
(*     ok  : the sleep took place (FALSE: the caller reports a timeout)    *)
(*     now : the clock when the function returns                           *)
(*     ic  : the internal context it leaves behind                         *)
(***************************************************************************)
EXTENDS Integers

CONSTANTS
  MIN_WAIT,      \* ext->min_waittime
  MAX_WAIT,      \* ext->max_waittime
  SLICE,         \* length of one usleep() of the MIN_MAX_EXP logic
  LAST_CHANCE,   \* last_chance_sec_before_end of the OLD logic
  MAX_ATTEMPTS   \* number of random waits the OLD logic allows (10)

\* srm_context_extension_new sets the two waits to 0.2 s and 5 s.
ASSUME WaitAssumption ==
  /\ MIN_WAIT \in Nat \ {0}
  /\ MAX_WAIT \in Nat \ {0}
  /\ MIN_WAIT <= MAX_WAIT
  /\ SLICE \in Nat \ {0}
  /\ LAST_CHANCE \in Nat \ {0}
  /\ MAX_ATTEMPTS \in Nat

PollingLogics == { "OLD", "MIN_MAX_EXP" }

\* struct srm_internal_context without current_status and the random seed.
InternalContexts ==
  [ end : Nat \ {0}, wait : Nat \ {0}, attempt : Nat \ {0},
    est : Nat \cup {-1} ]

\* Mutant: the attempt counter keeps the 0 of memset.
InitWithoutAttempt(timeout) ==
  [ end |-> timeout, wait |-> MIN_WAIT, attempt |-> 0, est |-> -1 ]

\* timeout <= 0 selects the default of 180 s, written DefaultTimeout by callers.
back_off_logic_init(timeout) ==
  [ end |-> timeout, wait |-> MIN_WAIT, attempt |-> 1, est |-> -1 ]

set_estimated_wait_time(ic, t) ==
  [ ic EXCEPT !.est = IF t > 0 /\ t < ic.end THEN t ELSE -1 ]

Lesser(a, b) == IF a < b THEN a ELSE b

\* Mutant: the current time is not added before comparing with the deadline.
WaitClockForgotten(ic, now) ==
  LET next == [ ic EXCEPT !.wait = Lesser(ic.wait + ic.wait, MAX_WAIT) ]
  IN  IF ic.wait < ic.end
      THEN { [ ok |-> TRUE, now |-> now + ic.wait, ic |-> next ] }
      ELSE { [ ok |-> FALSE, now |-> now, ic |-> next ] }

\* Mutant: the doubled wait never reaches current_waittime_spec.
WaitCleared(ic, now) ==
  LET next == [ ic EXCEPT !.wait = 0 ]
  IN  IF now + ic.wait < ic.end
      THEN { [ ok |-> TRUE, now |-> now + ic.wait, ic |-> next ] }
      ELSE { [ ok |-> FALSE, now |-> now, ic |-> next ] }

(***************************************************************************)
(* wait_for_new_attempt_min_max_ng: sleep only if the wait ends before the *)
(* deadline, in whole slices (so it wakes up to a slice late); double the  *)
(* next wait, capped, whether it slept or not.                             *)
(***************************************************************************)
wait_for_new_attempt_min_max_ng(ic, now) ==
  LET next == [ ic EXCEPT !.wait = Lesser(ic.wait + ic.wait, MAX_WAIT) ]
      wake == now + ic.wait
  IN  IF wake < ic.end
      THEN { [ ok |-> TRUE, now |-> w, ic |-> next ] :
               w \in { v \in wake .. wake + SLICE - 1 : (v - now) % SLICE = 0 } }
      ELSE { [ ok |-> FALSE, now |-> now, ic |-> next ] }

\* Mutant: no last attempt before the deadline.
SleepWithoutLastChance(ic, now, w) ==
  IF now + w < ic.end THEN [ ok |-> TRUE,  now |-> now + w, ic |-> ic ]
                      ELSE [ ok |-> FALSE, now |-> now,     ic |-> ic ]

\* Mutant: the sleep may end on the deadline.
SleepToDeadline(ic, now, w) ==
  IF now + w <= ic.end THEN [ ok |-> TRUE,  now |-> now + w, ic |-> ic ]
                       ELSE [ ok |-> FALSE, now |-> now,     ic |-> ic ]

\* Sleep for w, or, when that passes the deadline, until LAST_CHANCE before it.
SleepOrLastChance(ic, now, w) ==
  LET rest == ic.end - now - LAST_CHANCE
  IN  CASE now + w < ic.end -> [ ok |-> TRUE,  now |-> now + w,    ic |-> ic ]
        [] now + w >= ic.end /\ rest > 0
                            -> [ ok |-> TRUE,  now |-> now + rest, ic |-> ic ]
        [] OTHER            -> [ ok |-> FALSE, now |-> now,        ic |-> ic ]

(***************************************************************************)
(* wait_for_new_attempt: without a server estimate a random wait of at     *)
(* most 2^attempt, ten times at most; with an estimate exactly that, and   *)
(* without counting the attempt.                                           *)
(***************************************************************************)
wait_for_new_attempt(ic, now) ==
  IF ic.est <= 0 /\ ic.est < ic.end - now
  THEN IF ic.attempt <= MAX_ATTEMPTS
       THEN LET next == [ ic EXCEPT !.attempt = @ + 1 ]
            IN  { SleepOrLastChance(next, now, w) : w \in 1 .. 2 ^ ic.attempt }
       ELSE { [ ok |-> FALSE, now |-> now, ic |-> ic ] }
  ELSE { SleepOrLastChance(ic, now, ic.est) }

wait_switch_auto(logic, ic, now) ==
  IF logic = "OLD" THEN wait_for_new_attempt(ic, now)
                   ELSE wait_for_new_attempt_min_max_ng(ic, now)
=============================================================================
