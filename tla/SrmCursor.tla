------------------------------ MODULE SrmCursor ------------------------------
(***************************************************************************)
(* What paging with an offset promises to an application that lists one    *)
(* directory of entries 1 .. N: every call comes back; one that fails      *)
(* leaves the position; one that succeeds accounts for the entries from    *)
(* the position to the next one, or for all that are left and ends the     *)
(* walk.  A server that cuts a listing short, or an application that asks  *)
(* for the status of a served listing again, voids the promise.            *)
(***************************************************************************)
EXTENDS Integers

CONSTANT N

VARIABLES
  busy,      \* a call is running
  position,  \* where the next page begins, after this many entries
  seen,      \* entries the application got, or was told that it did not get
  done,      \* the walk is over
  void       \* the promise is void

vars == << busy, position, seen, done, void >>

Init == busy = FALSE /\ position = 0 /\ seen = { } /\ done = FALSE /\ void = FALSE

\* A walk begins, at the top or where an earlier one was left.
Walk ==
  /\ ~busy
  /\ position' \in Int
  /\ seen' = 1 .. position'
  /\ done' = FALSE /\ void' = FALSE
  /\ UNCHANGED busy

Call == ~busy /\ busy' = TRUE /\ UNCHANGED << position, seen, done, void >>

\* A call about a listing that was served already.
Repeat == ~busy /\ busy' = TRUE /\ void' = TRUE /\ UNCHANGED << position, seen, done >>

\* An error, or "not yet".
Empty == busy /\ busy' = FALSE /\ UNCHANGED << position, seen, done, void >>

Page ==
  /\ busy /\ busy' = FALSE
  /\ ~void /\ ~done
  /\ position' \in position .. N
  /\ seen' = seen \cup position + 1 .. position'
  /\ UNCHANGED << done, void >>

LastPage ==
  /\ busy /\ busy' = FALSE
  /\ ~void /\ ~done
  /\ seen' = seen \cup position + 1 .. N
  /\ position' = 0
  /\ done' = TRUE
  /\ UNCHANGED void

Void ==
  /\ busy /\ busy' = FALSE
  /\ void' = TRUE
  /\ position' \in Int
  /\ seen' \in SUBSET (1 .. N)
  /\ done' \in BOOLEAN

Next == Walk \/ Call \/ Repeat \/ Empty \/ Page \/ LastPage \/ Void

Spec == Init /\ [][Next]_vars /\ WF_vars(Empty \/ Page \/ LastPage \/ Void)
=============================================================================
