------------------------------- MODULE SrmMkdir -------------------------------
(***************************************************************************)
(* srmv2_mkdir, the "mkdir -p" of the library: climb from the wanted       *)
(* directory until one can be made or is there, then make the missing ones *)
(* below it.  Several clients work on the same server at once.             *)
(*                                                                         *)
(* All work on one chain of directories, srm://h/1/2/...; level k is the   *)
(* path with k components.  Cutting the SURL at its last slash leads from  *)
(* level k to k-1, below the first component to                            *)
(*   0: "srm://h"     -1: "srm:/"     -2: "srm:", without any slash.       *)
(***************************************************************************)
EXTENDS Integers, SrmStatus

CONSTANTS
  Clients,
  DEPTH      \* the longest path a client asks for (bound)

ASSUME MkdirAssumption == DEPTH \in Nat

Bottom == -2

VARIABLES
  tree,      \* server: levels 1 .. tree exist
  exported,  \* server: FALSE if it knows nothing of this namespace
  pc, target, level, errno, ret,   \* per client; level: where the SURL is cut
  raced,     \* history: another client made a directory during the call
  removed    \* history: a directory was removed during the call

server == << tree, exported >>
local  == << pc, target, level, errno, ret >>
vars   == << server, local, raced, removed >>

TypeOK ==
  /\ tree \in 0 .. DEPTH
  /\ exported \in BOOLEAN
  /\ pc \in [ Clients -> { "idle", "ascend", "descend" } ]
  /\ target \in [ Clients -> 0 .. DEPTH ]
  /\ level \in [ Clients -> Bottom .. DEPTH ]
  /\ errno \in [ Clients -> Errnos ]
  /\ ret \in [ Clients -> { -1, 0 } ]
  /\ raced \in [ Clients -> BOOLEAN ]
  /\ removed \in [ Clients -> BOOLEAN ]

-----------------------------------------------------------------------------
(* The server (external) *)

\* srmMkdir at a level: the code answered and whether a directory was made.
Made(k) == [ code |-> "SUCCESS", tree |-> k ]
Kept(c) == [ code |-> c, tree |-> tree ]

Honest(k) ==
  CASE ~exported                 -> Kept("INVALID_PATH")
    [] exported /\ k <= tree     -> Kept("DUPLICATION_ERROR")
    [] exported /\ k = tree + 1  -> Made(k)
    [] exported /\ k > tree + 1  -> Kept("INVALID_PATH")

\* It may refuse; and an answer may get lost, before or after the deed.
MkdirAnswers(k) ==
  { Honest(k), Kept("AUTHORIZATION_FAILURE"), Kept(NoStatus),
    [ Honest(k) EXCEPT !.code = NoStatus ] }

-----------------------------------------------------------------------------
(* The client *)

\* The rest of the call goes on at level k.
Go(c, step, k) ==
  /\ pc' = [ pc EXCEPT ![c] = step ]
  /\ level' = [ level EXCEPT ![c] = k ]
  /\ UNCHANGED << target, errno, ret >>

Return(c, r, e) ==
  /\ pc' = [ pc EXCEPT ![c] = "idle" ]
  /\ ret' = [ ret EXCEPT ![c] = r ]
  /\ errno' = [ errno EXCEPT ![c] = e ]
  /\ UNCHANGED << target, level >>

\* The root check of the ascending loop only ever matches before the first cut,
\* when the trailing slash is still there: the call succeeds without a request.
Mkdir(c) ==
  /\ pc[c] = "idle"
  /\ \E d \in 0 .. DEPTH :
       /\ target' = [ target EXCEPT ![c] = d ]
       /\ level' = [ level EXCEPT ![c] = d ]
       /\ pc' = [ pc EXCEPT ![c] = IF d = 0 THEN "idle" ELSE "ascend" ]
  /\ errno' = [ errno EXCEPT ![c] = "OK" ]
  /\ ret' = [ ret EXCEPT ![c] = 0 ]
  /\ raced' = [ raced EXCEPT ![c] = FALSE ]
  /\ removed' = [ removed EXCEPT ![c] = FALSE ]
  /\ UNCHANGED server

\* One srmMkdir request; the others see a directory appear.
Request(c, a) ==
  /\ tree' = a.tree
  /\ raced' = [ d \in Clients |-> raced[d] \/ (a.tree # tree /\ d # c) ]
  /\ UNCHANGED << exported, removed >>

\* Mutant: one directory too many is made.
BelowOneMore(c, k) ==
  IF k <= target[c] THEN Go(c, "descend", k + 1) ELSE Return(c, 0, "OK")

\* Mutant: the level that is there is tried again.
BelowSame(c, k) ==
  IF k < target[c] THEN Go(c, "descend", k) ELSE Return(c, 0, "OK")

\* Mutant: the last level is not made.
BelowButLast(c, k) ==
  IF k < target[c] - 1 THEN Go(c, "descend", k + 1) ELSE Return(c, 0, "OK")

\* Level k is there: done, or make the one below.
Below(c, k) ==
  IF k < target[c] THEN Go(c, "descend", k + 1) ELSE Return(c, 0, "OK")

\* Mutant: a directory that exists already is climbed past.
AscendPastExisting(c) ==
  /\ pc[c] = "ascend"
  /\ \E a \in MkdirAnswers(level[c]) :
       /\ Request(c, a)
       /\ CASE a.code = NoStatus            -> Return(c, -1, "ECOMM")
            [] a.code = "SUCCESS"           -> Below(c, level[c])
            [] a.code \in { "INVALID_PATH", "DUPLICATION_ERROR" } /\ level[c] > Bottom
                                            -> Go(c, "ascend", level[c] - 1)
            [] OTHER                        -> Return(c, -1, "EINVAL")

\* The ascending loop: a missing parent (ENOENT) sends it one level up, until
\* there is no slash left.  A missing response structure counts as EINVAL.
Ascend(c) ==
  /\ pc[c] = "ascend"
  /\ \E a \in MkdirAnswers(level[c]) :
       LET e == statuscode2errno(a.code)
       IN  /\ Request(c, a)
           /\ \/ a.code = NoStatus /\ \E n \in { "ECOMM", "EINVAL" } : Return(c, -1, n)
              \/ a.code # NoStatus /\ e \in { "OK", "EEXIST" } /\ Below(c, level[c])
              \/ /\ a.code # NoStatus /\ e = "ENOENT"
                 /\ IF level[c] > Bottom THEN Go(c, "ascend", level[c] - 1)
                                         ELSE Return(c, -1, "EINVAL")
              \/ /\ a.code # NoStatus /\ e \notin { "OK", "EEXIST", "ENOENT" }
                 /\ Return(c, -1, e)

\* Mutant: a parent that has gone sends the client back to climbing.
DescendClimbsAgain(c) ==
  /\ pc[c] = "descend"
  /\ \E a \in MkdirAnswers(level[c]) :
       /\ Request(c, a)
       /\ CASE a.code = "SUCCESS"      -> Below(c, level[c])
            [] a.code = "INVALID_PATH" -> Go(c, "ascend", level[c] - 1)
            [] OTHER                   -> Return(c, -1, srm_call_err(a.code, "none"))

\* The descending loop: here a directory that exists is a failure.
Descend(c) ==
  /\ pc[c] = "descend"
  /\ \E a \in MkdirAnswers(level[c]) :
       /\ Request(c, a)
       /\ IF a.code # NoStatus /\ statuscode2errno(a.code) = "OK"
          THEN Below(c, level[c])
          ELSE Return(c, -1, srm_call_err(a.code, "none"))

\* Someone removes the last directory of the chain.
Rmdir ==
  /\ tree > 0
  /\ tree' = tree - 1
  /\ removed' = [ c \in Clients |-> TRUE ]
  /\ UNCHANGED << exported, local, raced >>

-----------------------------------------------------------------------------
Init ==
  /\ tree \in 0 .. DEPTH
  /\ exported \in BOOLEAN
  /\ pc = [ c \in Clients |-> "idle" ]
  /\ target = [ c \in Clients |-> 0 ]
  /\ level = [ c \in Clients |-> 0 ]
  /\ errno = [ c \in Clients |-> "OK" ]
  /\ ret = [ c \in Clients |-> 0 ]
  /\ raced = [ c \in Clients |-> FALSE ]
  /\ removed = [ c \in Clients |-> FALSE ]

Working(c) == Ascend(c) \/ Descend(c)

Next == (\E c \in Clients : Mkdir(c) \/ Working(c)) \/ Rmdir

\* Every client runs on its own, and its requests are answered or time out.
Spec == Init /\ [][Next]_vars /\ \A c \in Clients : WF_vars(Working(c))

-----------------------------------------------------------------------------
(* Properties *)

\* A call that says it succeeded made the whole path, its last level included,
\* or found it, unless somebody removed some of it since.
WholePath ==
  \A c \in Clients :
    pc[c] = "idle" /\ ret[c] = 0 /\ ~removed[c] => tree >= target[c]

\* Working alone, a call is never told that a level it comes to is there already
\* or has no parent: such failures only come from a race.
FailsOnlyByRace ==
  \A c \in Clients :
    /\ pc[c] = "idle" /\ errno[c] = "EEXIST" => raced[c]
    /\ pc[c] = "idle" /\ errno[c] = "ENOENT" => removed[c]

\* Where the namespace is served, the climb stops above the root.
ClimbStops ==
  \A c \in Clients : exported /\ pc[c] # "idle" => level[c] >= 1

\* The climb and the descent come to an end.
Finishes == \A c \in Clients : (pc[c] # "idle") ~> (pc[c] = "idle")

\* "Do not try to create the root directory..." (srmv2_directory_functions.c),
\* "srm2_mkdir does not attempt to create the root directory" (RELEASE-NOTES).
NoRootMkdir == \A c \in Clients : pc[c] = "ascend" => level[c] >= 1
=============================================================================
