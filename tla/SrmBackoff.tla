------------------------------ MODULE SrmBackoff ------------------------------
(***************************************************************************)
(* The do-while loop every SRM operation runs against a server that keeps  *)
(* answering "internal error" or "queued": call, read the estimate, wait,  *)
(* call again, until the waiting rules give the call up.  The server's     *)
(* other answers end the loop at once and are the subject of SrmRequest;   *)
(* here the clock is what is studied.                                      *)
(***************************************************************************)
EXTENDS SrmWait, SrmStatus

CONSTANTS
  TIMEOUT,     \* context->timeout, in ticks
  MAX_RPC,     \* longest duration of one SOAP call (send/receive timeout)
  ESTIMATES    \* estimated waiting times a server may announce (-1: none)

TRIES_CAP == TIMEOUT + 2

ASSUME BackoffAssumption ==
  /\ TIMEOUT \in Nat \ {0}
  /\ MAX_RPC \in Nat
  /\ ESTIMATES \subseteq Int

VARIABLES
  logic,   \* ext->polling_logic (OLD also when the context has no extension)
  pc,      \* "call": about to call; "wait": in back_off_logic; "timeout": given up
  now,     \* clock, from the start of the operation
  ic,      \* the operation's internal context
  tries    \* SOAP calls issued so far, counted up to TRIES_CAP

vars == << logic, pc, now, ic, tries >>

TypeOK ==
  /\ logic \in PollingLogics
  /\ pc \in { "call", "wait", "timeout" }
  /\ now \in Nat
  /\ ic \in InternalContexts
  /\ tries \in Nat

Init ==
  /\ logic \in PollingLogics
  /\ pc = "call"
  /\ now = 0
  /\ ic = back_off_logic_init(TIMEOUT)
  /\ tries = 0

\* The SOAP call takes its time and brings an estimate back.
Call ==
  /\ pc = "call"
  /\ \E d \in 0 .. MAX_RPC, t \in ESTIMATES :
       /\ now' = now + d
       /\ ic' = set_estimated_wait_time(ic, t)
  /\ tries' = Lesser(tries + 1, TRIES_CAP)
  /\ pc' = "wait"
  /\ UNCHANGED logic

\* back_off_logic on INTERNAL_ERROR, REQUEST_QUEUED or REQUEST_INPROGRESS.
Wait ==
  /\ pc = "wait"
  /\ \E o \in wait_switch_auto(logic, ic, now) :
       /\ now' = o.now
       /\ ic' = o.ic
       /\ pc' = IF o.ok THEN "call" ELSE "timeout"
  /\ UNCHANGED << logic, tries >>

\* The application starts its next operation on the same context.
Again ==
  /\ pc = "timeout"
  /\ pc' = "call"
  /\ now' = 0
  /\ ic' = back_off_logic_init(TIMEOUT)
  /\ tries' = 0
  /\ UNCHANGED logic

Next == Call \/ Wait \/ Again

\* The thread is in the loop: it is scheduled, its sleeps and SOAP calls end.
Fairness == WF_vars(Call) /\ WF_vars(Wait)

Spec == Init /\ [][Next]_vars /\ Fairness

-----------------------------------------------------------------------------
(* Properties *)

\* No SOAP call is started later than the one slice the sliced sleep of the
\* MIN_MAX_EXP logic may overshoot; the OLD logic starts none past the deadline.
NoLateCall ==
  pc = "call" => now < ic.end + (IF logic = "OLD" THEN 0 ELSE SLICE - 1)

\* A call is not given up early: MIN_MAX_EXP stops at most one maximal wait
\* before the deadline, OLD within its "last chance" margin of it unless its
\* random waits are used up.
NoEarlyTimeout ==
  pc = "timeout" =>
    IF logic = "OLD"
    THEN ic.attempt > MAX_ATTEMPTS \/ now >= ic.end - LAST_CHANCE
    ELSE now + MAX_WAIT >= ic.end

\* Every wait costs at least a tick (a slice for MIN_MAX_EXP), so a server that
\* never finishes is asked a bounded number of times per operation.
BoundedTries ==
  IF logic = "OLD" THEN tries <= TIMEOUT
                   ELSE tries <= (TIMEOUT \div SLICE) + 2

\* The loop ends: the operation is given up although the server never answers.
GivesUp == (pc = "call") ~> (pc = "timeout")
=============================================================================
