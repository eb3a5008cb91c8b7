------------------------------- MODULE SrmSleep -------------------------------
(***************************************************************************)
(* wait_for_new_attempt_min_max_ng step by step: the thread reads the      *)
(* clock, compares the end of its sleep with the deadline, naps in slices  *)
(* while re-reading the clock, and doubles the next wait at the end.       *)
(* Implements SrmBackoff, whose Wait does all of this in one step.         *)
(***************************************************************************)
EXTENDS SrmWait, SrmStatus, SrmTime

CONSTANTS TIMEOUT, MAX_RPC, ESTIMATES

ASSUME SleepAssumption ==
  /\ TIMEOUT \in Nat \ {0}
  /\ TIMEOUT % NANOS = 0
  /\ MAX_RPC \in Nat
  /\ ESTIMATES \subseteq Int

VARIABLES
  pc,          \* as in SrmBackoff, and "nap" inside the sliced sleep
  clock,       \* CLOCK_MONOTONIC
  ic,
  tries,
  start,       \* when the function read the clock first
  wakeUp,      \* end_sleep_time
  waitSpec     \* current_waittime_spec as the code keeps it; ic.wait in ticks

vars == << pc, clock, ic, tries, start, wakeUp, waitSpec >>

TypeOK ==
  /\ pc \in { "call", "wait", "nap", "timeout" }
  /\ clock \in Nat /\ start \in Nat /\ wakeUp \in Nat
  /\ ic \in InternalContexts
  /\ tries \in Nat
  /\ waitSpec \in Timespecs

Init ==
  /\ pc = "call" /\ clock = 0 /\ start = 0 /\ wakeUp = 0 /\ tries = 0
  /\ ic = back_off_logic_init(TIMEOUT)
  /\ waitSpec = timespec_add(Zero, Reading(MIN_WAIT))

Call ==
  /\ pc = "call"
  /\ \E d \in 0 .. MAX_RPC, t \in ESTIMATES :
       /\ clock' = clock + d
       /\ ic' = set_estimated_wait_time(ic, t)
  /\ tries' = Lesser(tries + 1, TIMEOUT + 2)
  /\ pc' = "wait"
  /\ UNCHANGED << start, wakeUp, waitSpec >>

\* The next wait: twice the current one if that is below the maximum.
NextWait(w) == IF w + w < MAX_WAIT THEN w + w ELSE MAX_WAIT

NextWaitSpec(w) ==
  LET twice == timespec_add(w, w)
  IN  IF timespec_lt(twice, Reading(MAX_WAIT)) THEN twice ELSE Reading(MAX_WAIT)

\* Mutant: the start of the sleep, not its end, is compared with the deadline.
EnterBeforeDeadline ==
  /\ pc = "wait"
  /\ clock < ic.end
  /\ start' = clock
  /\ wakeUp' = clock + ic.wait
  /\ pc' = "nap"
  /\ UNCHANGED << clock, ic, tries, waitSpec >>

\* The sleep would end before the deadline.
Enter ==
  /\ pc = "wait"
  /\ clock + ic.wait < ic.end
  /\ start' = clock
  /\ wakeUp' = clock + ic.wait
  /\ pc' = "nap"
  /\ UNCHANGED << clock, ic, tries, waitSpec >>

\* One call_usleep(500000).
Nap ==
  /\ pc = "nap"
  /\ clock < wakeUp
  /\ clock' = clock + SLICE
  /\ UNCHANGED << pc, ic, tries, start, wakeUp, waitSpec >>

Leave ==
  /\ pc = "nap"
  /\ clock >= wakeUp
  /\ ic' = [ ic EXCEPT !.wait = NextWait(@) ]
  /\ waitSpec' = NextWaitSpec(waitSpec)
  /\ pc' = "call"
  /\ start' = 0 /\ wakeUp' = 0
  /\ UNCHANGED << clock, tries >>

\* The sleep would not: timeout, without sleeping.
Refuse ==
  /\ pc = "wait"
  /\ clock + ic.wait >= ic.end
  /\ ic' = [ ic EXCEPT !.wait = NextWait(@) ]
  /\ waitSpec' = NextWaitSpec(waitSpec)
  /\ pc' = "timeout"
  /\ UNCHANGED << clock, tries, start, wakeUp >>

Again ==
  /\ pc = "timeout"
  /\ pc' = "call" /\ clock' = 0 /\ tries' = 0
  /\ ic' = back_off_logic_init(TIMEOUT)
  /\ waitSpec' = timespec_add(Zero, Reading(MIN_WAIT))
  /\ UNCHANGED << start, wakeUp >>

Next == Call \/ Enter \/ Nap \/ Leave \/ Refuse \/ Again

Fairness == WF_vars(Call \/ Enter \/ Nap \/ Leave \/ Refuse)

Spec == Init /\ [][Next]_vars /\ Fairness

-----------------------------------------------------------------------------
\* While the thread naps, SrmBackoff is still before its Wait step.
Coarse == INSTANCE SrmBackoff WITH
  logic <- "MIN_MAX_EXP",
  pc    <- IF pc = "nap" THEN "wait" ELSE pc,
  now   <- IF pc = "nap" THEN start ELSE clock

\* The sliced sleep, with its clock readings, does what the one-step Wait of
\* SrmBackoff (and of SrmRequest) says, and always finishes.
ImplementsBackoff == Coarse!Spec

\* The model counts ticks where wait_for_new_attempt_min_max_ng adds and compares
\* timespecs.  Whatever the fraction f of a second the call began at, both decide
\* alike to sleep, and to nap again, although sums of exactly a second are left
\* without a carry: only a sleep that ends on the very deadline may be granted by
\* the one and refused by the other.
TimespecsDecide ==
  /\ Value(waitSpec) = ic.wait
  /\ \A f \in 0 .. NANOS - 1 :
       LET deadline  == [ sec |-> TIMEOUT \div NANOS, nsec |-> f ]
           sleep(from) == timespec_add(waitSpec, Reading(f + from))
       IN  /\ pc = "wait" /\ clock + ic.wait # ic.end =>
                (timespec_lt(sleep(clock), deadline) <=> clock + ic.wait < ic.end)
           /\ pc = "nap" =>
                (timespec_lt(Reading(f + clock), sleep(start)) <=> clock < wakeUp)

\* "go to sleep for the exact required time" (srm_util.c, at the loop of naps):
\* the thread sleeps no longer than the wait asks for.
SleepsExactly == pc = "nap" => clock <= wakeUp
=============================================================================
