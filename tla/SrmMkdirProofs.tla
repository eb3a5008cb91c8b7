---------------------------- MODULE SrmMkdirProofs ----------------------------
(***************************************************************************)
(* Proofs about SrmMkdir, for any set of clients and any depth: types, the *)
(* three safety properties of "mkdir -p" among other clients, and a bound  *)
(* on its requests.                                                        *)
(***************************************************************************)
EXTENDS SrmMkdir, TLAPS

USE MkdirAssumption

-----------------------------------------------------------------------------
(* The server's answers *)

AnswerCodes ==
  { "SUCCESS", "DUPLICATION_ERROR", "INVALID_PATH", "AUTHORIZATION_FAILURE", NoStatus }

\* What an answer tells: a directory was made, was there, or had no parent.  No
\* request removes anything.
LEMMA AnswerMeaning ==
  ASSUME TypeOK, NEW k \in Bottom .. DEPTH, NEW a \in MkdirAnswers(k)
  PROVE  /\ a.code \in AnswerCodes
         /\ a.tree \in 0 .. DEPTH /\ a.tree >= tree
         /\ a.code = "SUCCESS" => exported /\ a.tree = k
         /\ a.code = "DUPLICATION_ERROR" => exported /\ a.tree = tree /\ k <= tree
         /\ a.code = "INVALID_PATH" => a.tree = tree /\ (exported => k > tree + 1)
<1> USE DEF Bottom, AnswerCodes, NoStatus
<1>1. tree \in 0 .. DEPTH /\ exported \in BOOLEAN
  BY DEF TypeOK
<1>2. \/ /\ Honest(k) = Kept("INVALID_PATH") /\ (exported => k > tree + 1)
      \/ /\ Honest(k) = Kept("DUPLICATION_ERROR") /\ exported /\ k <= tree
      \/ /\ Honest(k) = Made(k) /\ exported /\ k = tree + 1
  <2>1. CASE ~exported
    BY <2>1 DEF Honest
  <2>2. CASE exported /\ k <= tree
    <3>1. ~(k = tree + 1) /\ ~(k > tree + 1)
      BY <1>1, <2>2
    <3> QED
      BY <2>2, <3>1, Zenon DEF Honest
  <2>3. CASE exported /\ k = tree + 1
    <3>1. ~(k <= tree) /\ ~(k > tree + 1)
      BY <1>1, <2>3
    <3> QED
      BY <2>3, <3>1, Zenon DEF Honest
  <2>4. CASE exported /\ k > tree + 1
    <3>1. ~(k <= tree) /\ ~(k = tree + 1)
      BY <1>1, <2>4
    <3> QED
      BY <2>4, <3>1, Zenon DEF Honest
  <2> QED
    BY <1>1, <2>1, <2>2, <2>3, <2>4
<1>3. /\ Honest(k).tree \in 0 .. DEPTH /\ Honest(k).tree >= tree
      /\ Honest(k).code \in { "SUCCESS", "DUPLICATION_ERROR", "INVALID_PATH" }
      /\ Honest(k).code = "SUCCESS" => exported /\ Honest(k).tree = k
      /\ Honest(k).code = "DUPLICATION_ERROR" => exported /\ Honest(k).tree = tree /\ k <= tree
      /\ Honest(k).code = "INVALID_PATH" => Honest(k).tree = tree /\ (exported => k > tree + 1)
  BY <1>1, <1>2 DEF Kept, Made
<1>4. \/ a = Honest(k) \/ a = Kept("AUTHORIZATION_FAILURE") \/ a = Kept(NoStatus)
      \/ a.code = NoStatus /\ a.tree = Honest(k).tree
  <2>1. [ Honest(k) EXCEPT !.code = NoStatus ].tree = Honest(k).tree
        /\ [ Honest(k) EXCEPT !.code = NoStatus ].code = NoStatus
    BY <1>2 DEF Kept, Made
  <2> QED
    BY <2>1 DEF MkdirAnswers
<1>5. CASE a = Honest(k)
  BY <1>3, <1>5
<1>6. CASE a = Kept("AUTHORIZATION_FAILURE") \/ a = Kept(NoStatus)
  BY <1>1, <1>6 DEF Kept
<1>7. CASE a.code = NoStatus /\ a.tree = Honest(k).tree
  BY <1>3, <1>7
<1> QED
  BY <1>4, <1>5, <1>6, <1>7

\* The errnos of those codes, climbing and descending.
LEMMA AnswerErrnos ==
  /\ statuscode2errno("SUCCESS") = "OK"
  /\ statuscode2errno("DUPLICATION_ERROR") = "EEXIST"
  /\ statuscode2errno("INVALID_PATH") = "ENOENT"
  /\ statuscode2errno("AUTHORIZATION_FAILURE") = "EACCES"
  /\ srm_call_err("SUCCESS", "none") = "ECOMM"
  /\ srm_call_err(NoStatus, "none") = "ECOMM"
  /\ srm_call_err("DUPLICATION_ERROR", "none") = "EEXIST"
  /\ srm_call_err("INVALID_PATH", "none") = "ENOENT"
  /\ srm_call_err("AUTHORIZATION_FAILURE", "none") = "EACCES"
<1>1. /\ statuscode2errno("SUCCESS") = "OK"
      /\ statuscode2errno("DUPLICATION_ERROR") = "EEXIST"
      /\ statuscode2errno("INVALID_PATH") = "ENOENT"
      /\ statuscode2errno("AUTHORIZATION_FAILURE") = "EACCES"
  BY DEF statuscode2errno
<1> QED
  BY <1>1 DEF srm_call_err, statuscode_and_msg_to_errno, NoStatus

-----------------------------------------------------------------------------
(* The inductive invariant *)

\* A client that climbs, once it has left its target, knows the level it came from
\* to have no parent: what it asks for next is not there, unless another made it.
Climbing(c) ==
  pc[c] = "ascend" =>
    /\ exported => level[c] >= 1
    /\ exported /\ level[c] < target[c] /\ ~raced[c] => tree < level[c]

\* A client that descends made or saw the level above the one it asks for.
Descending(c) ==
  pc[c] = "descend" =>
    /\ exported /\ level[c] >= 1
    /\ ~removed[c] => tree >= level[c] - 1
    /\ ~raced[c] => tree < level[c]

Returned(c) ==
  pc[c] = "idle" =>
    /\ ret[c] = 0 /\ ~removed[c] => tree >= target[c]
    /\ errno[c] = "EEXIST" => raced[c]
    /\ errno[c] = "ENOENT" => removed[c]

ClientInv(c) == Climbing(c) /\ Descending(c) /\ Returned(c)

IInv == TypeOK /\ \A c \in Clients : ClientInv(c)

\* What the invariant says is what the properties ask for.
LEMMA InvImplies == IInv => TypeOK /\ WholePath /\ FailsOnlyByRace /\ ClimbStops
<1> SUFFICES ASSUME IInv, NEW c \in Clients
             PROVE  /\ pc[c] = "idle" /\ ret[c] = 0 /\ ~removed[c] => tree >= target[c]
                    /\ pc[c] = "idle" /\ errno[c] = "EEXIST" => raced[c]
                    /\ pc[c] = "idle" /\ errno[c] = "ENOENT" => removed[c]
                    /\ exported /\ pc[c] # "idle" => level[c] >= 1
  BY Zenon DEF IInv, WholePath, FailsOnlyByRace, ClimbStops
<1>1. ClientInv(c) /\ pc[c] \in { "idle", "ascend", "descend" }
  BY DEF IInv, TypeOK
<1> QED
  BY <1>1, Zenon DEF ClientInv, Climbing, Descending, Returned

-----------------------------------------------------------------------------
(* What a step of a client comes down to *)

\* The call goes on below level k, which is there now.
Reached(c, k) ==
  /\ exported
  /\ Below(c, k)
  /\ tree' = k \/ (tree' = tree /\ k <= tree)

LEMMA AscendOutcome ==
  ASSUME TypeOK, NEW c \in Clients, Ascend(c)
  PROVE  /\ tree' \in 0 .. DEPTH /\ tree' >= tree
         /\ raced' = [ d \in Clients |-> raced[d] \/ (tree' # tree /\ d # c) ]
         /\ UNCHANGED << exported, removed >>
         /\ \/ \E e \in Errnos \ { "EEXIST", "ENOENT" } : Return(c, -1, e)
            \/ Reached(c, level[c])
            \/ /\ exported => level[c] > tree + 1
               /\ tree' = tree /\ level[c] > Bottom
               /\ Go(c, "ascend", level[c] - 1)
<1>1. level[c] \in Bottom .. DEPTH
  BY DEF TypeOK
<1>2. PICK a \in MkdirAnswers(level[c]) :
        /\ Request(c, a)
        /\ \/ a.code = NoStatus /\ \E n \in { "ECOMM", "EINVAL" } : Return(c, -1, n)
           \/ a.code # NoStatus /\ statuscode2errno(a.code) \in { "OK", "EEXIST" }
                                /\ Below(c, level[c])
           \/ /\ a.code # NoStatus /\ statuscode2errno(a.code) = "ENOENT"
              /\ IF level[c] > Bottom THEN Go(c, "ascend", level[c] - 1)
                                      ELSE Return(c, -1, "EINVAL")
           \/ /\ a.code # NoStatus /\ statuscode2errno(a.code) \notin { "OK", "EEXIST", "ENOENT" }
              /\ Return(c, -1, statuscode2errno(a.code))
  BY Zenon DEF Ascend
<1>3. /\ a.code \in AnswerCodes
      /\ a.tree \in 0 .. DEPTH /\ a.tree >= tree
      /\ a.code = "SUCCESS" => exported /\ a.tree = level[c]
      /\ a.code = "DUPLICATION_ERROR" => exported /\ a.tree = tree /\ level[c] <= tree
      /\ a.code = "INVALID_PATH" => a.tree = tree /\ (exported => level[c] > tree + 1)
  BY <1>1, AnswerMeaning
<1>4. /\ tree' = a.tree
      /\ raced' = [ d \in Clients |-> raced[d] \/ (tree' # tree /\ d # c) ]
      /\ UNCHANGED << exported, removed >>
  BY <1>2, Zenon DEF Request
<1>5. { "ECOMM", "EINVAL", "EACCES" } \subseteq Errnos \ { "EEXIST", "ENOENT" }
  BY DEF Errnos
<1>6. CASE a.code = NoStatus
  BY <1>2, <1>3, <1>4, <1>5, <1>6, Zenon
<1>7. CASE a.code = "SUCCESS" \/ a.code = "DUPLICATION_ERROR"
  <2>1. Below(c, level[c])
    BY <1>2, <1>7, AnswerErrnos DEF NoStatus
  <2>2. Reached(c, level[c])
    BY <1>3, <1>4, <1>7, <2>1, Zenon DEF Reached
  <2> QED
    BY <1>3, <1>4, <2>2, Zenon
<1>8. CASE a.code = "INVALID_PATH"
  <2>1. IF level[c] > Bottom THEN Go(c, "ascend", level[c] - 1) ELSE Return(c, -1, "EINVAL")
    BY <1>2, <1>8, AnswerErrnos DEF NoStatus
  <2> QED
    BY <1>3, <1>4, <1>5, <1>8, <2>1, Zenon
<1>9. CASE a.code = "AUTHORIZATION_FAILURE"
  <2>1. Return(c, -1, "EACCES")
    BY <1>2, <1>9, AnswerErrnos DEF NoStatus
  <2> QED
    BY <1>3, <1>4, <1>5, <2>1, Zenon
<1> QED
  BY <1>3, <1>6, <1>7, <1>8, <1>9, Zenon DEF AnswerCodes

LEMMA DescendOutcome ==
  ASSUME TypeOK, NEW c \in Clients, Descend(c)
  PROVE  /\ tree' \in 0 .. DEPTH /\ tree' >= tree
         /\ raced' = [ d \in Clients |-> raced[d] \/ (tree' # tree /\ d # c) ]
         /\ UNCHANGED << exported, removed >>
         /\ \/ \E e \in Errnos :
                 /\ Return(c, -1, e)
                 /\ e = "EEXIST" => level[c] <= tree
                 /\ e = "ENOENT" => (exported => level[c] > tree + 1)
            \/ Reached(c, level[c])
<1>1. level[c] \in Bottom .. DEPTH
  BY DEF TypeOK
<1>2. PICK a \in MkdirAnswers(level[c]) :
        /\ Request(c, a)
        /\ IF a.code # NoStatus /\ statuscode2errno(a.code) = "OK"
           THEN Below(c, level[c])
           ELSE Return(c, -1, srm_call_err(a.code, "none"))
  BY Zenon DEF Descend
<1>3. /\ a.code \in AnswerCodes
      /\ a.tree \in 0 .. DEPTH /\ a.tree >= tree
      /\ a.code = "SUCCESS" => exported /\ a.tree = level[c]
      /\ a.code = "DUPLICATION_ERROR" => exported /\ a.tree = tree /\ level[c] <= tree
      /\ a.code = "INVALID_PATH" => a.tree = tree /\ (exported => level[c] > tree + 1)
  BY <1>1, AnswerMeaning
<1>4. /\ tree' = a.tree
      /\ raced' = [ d \in Clients |-> raced[d] \/ (tree' # tree /\ d # c) ]
      /\ UNCHANGED << exported, removed >>
  BY <1>2, Zenon DEF Request
<1>5. CASE a.code = "SUCCESS"
  <2>1. Below(c, level[c])
    BY <1>2, <1>5, AnswerErrnos DEF NoStatus
  <2>2. Reached(c, level[c])
    BY <1>3, <1>4, <1>5, <2>1, Zenon DEF Reached
  <2> QED
    BY <1>3, <1>4, <2>2, Zenon
<1>6. CASE a.code # "SUCCESS"
  <2> DEFINE e == srm_call_err(a.code, "none")
  <2>1. Return(c, -1, e)
    BY <1>2, <1>3, <1>6, AnswerErrnos DEF AnswerCodes, NoStatus
  <2>2. /\ e \in { "ECOMM", "EEXIST", "ENOENT", "EACCES" }
        /\ e = "EEXIST" => a.code = "DUPLICATION_ERROR"
        /\ e = "ENOENT" => a.code = "INVALID_PATH"
    BY <1>3, <1>6, AnswerErrnos DEF AnswerCodes, NoStatus
  <2>3. e \in Errnos
    BY <2>2 DEF Errnos
  <2> HIDE DEF e
  <2> QED
    BY <1>3, <1>4, <2>1, <2>2, <2>3, Zenon
<1> QED
  BY <1>5, <1>6

-----------------------------------------------------------------------------
(* Each step keeps the invariant *)

\* What another client does to this one: it may make a directory, and is then
\* remembered for it.
LEMMA OthersKeep ==
  ASSUME IInv, NEW c \in Clients, NEW d \in Clients,
         pc'[d] = pc[d], target'[d] = target[d], level'[d] = level[d],
         errno'[d] = errno[d], ret'[d] = ret[d], removed'[d] = removed[d],
         exported' = exported, tree' \in 0 .. DEPTH, tree' >= tree,
         raced'[d] <=> (raced[d] \/ tree' # tree)
  PROVE  ClientInv(d)'
<1>1. ClientInv(d)
  BY DEF IInv
<1>2. PICK n \in 0 .. DEPTH : tree' = n /\ n >= tree
  OBVIOUS
<1>3. tree \in Int /\ level[d] \in Int /\ target[d] \in Int
  BY DEF IInv, TypeOK, Bottom
<1>4. Climbing(d)'
  <2>1. CASE raced'[d]
    BY <1>1, <2>1, Zenon DEF ClientInv, Climbing
  <2>2. CASE ~raced'[d]
    <3>1. tree' = tree /\ (~raced[d])
      BY <2>2, Zenon
    <3> QED
      BY <1>1, <3>1, Zenon DEF ClientInv, Climbing
  <2> QED
    BY <2>1, <2>2
<1>5. tree >= level[d] - 1 => tree' >= level[d] - 1
  BY <1>2, <1>3
<1>6. tree >= target[d] => tree' >= target[d]
  BY <1>2, <1>3
<1>7. Descending(d)'
  <2>1. CASE raced'[d]
    BY <1>1, <1>5, <2>1, Zenon DEF ClientInv, Descending
  <2>2. CASE ~raced'[d]
    <3>1. tree' = tree /\ (~raced[d])
      BY <2>2, Zenon
    <3> QED
      BY <1>1, <3>1, Zenon DEF ClientInv, Descending
  <2> QED
    BY <2>1, <2>2
<1>8. Returned(d)'
  BY <1>1, <1>6, Zenon DEF ClientInv, Returned
<1> QED
  BY <1>4, <1>7, <1>8 DEF ClientInv

\* A client that goes on below a level, or returns because there is none.
LEMMA ReachedKeeps ==
  ASSUME IInv, NEW c \in Clients, Reached(c, level[c]), tree' \in 0 .. DEPTH,
         UNCHANGED << exported, removed >>, raced'[c] <=> raced[c],
         exported => level[c] >= 1,
         level[c] < target[c] /\ ~raced[c] => tree' <= level[c]
  PROVE  /\ pc' \in [ Clients -> { "idle", "ascend", "descend" } ]
         /\ level' \in [ Clients -> Bottom .. DEPTH ]
         /\ errno' \in [ Clients -> Errnos ] /\ ret' \in [ Clients -> { -1, 0 } ]
         /\ target' = target
         /\ ClientInv(c)'
<1>1. /\ pc \in [ Clients -> { "idle", "ascend", "descend" } ]
      /\ level \in [ Clients -> Bottom .. DEPTH ] /\ level[c] \in Bottom .. DEPTH
      /\ target \in [ Clients -> 0 .. DEPTH ] /\ target[c] \in 0 .. DEPTH
      /\ errno \in [ Clients -> Errnos ] /\ ret \in [ Clients -> { -1, 0 } ]
      /\ tree \in 0 .. DEPTH
  BY DEF IInv, TypeOK
<1>2. PICK n \in 0 .. DEPTH : tree' = n
  OBVIOUS
<1>3. /\ exported /\ level[c] >= 1 /\ n >= level[c]
      /\ Below(c, level[c])
  BY <1>1, <1>2 DEF Reached
<1>4. CASE level[c] < target[c]
  <2>1. Go(c, "descend", level[c] + 1)
    BY <1>3, <1>4 DEF Below
  <2>2. /\ pc' = [ pc EXCEPT ![c] = "descend" ]
        /\ level' = [ level EXCEPT ![c] = level[c] + 1 ]
        /\ target' = target /\ errno' = errno /\ ret' = ret
    BY <2>1 DEF Go
  <2>3. level[c] + 1 \in Bottom .. DEPTH
    BY <1>1, <1>4 DEF Bottom
  <2>4. PICK k \in Bottom .. DEPTH : level'[c] = k /\ k = level[c] + 1
    BY <1>1, <2>2, <2>3
  <2>5. /\ k >= 1 /\ n >= k - 1
        /\ ~raced[c] => n < k
    BY <1>1, <1>2, <1>3, <1>4, <2>4 DEF Bottom
  <2>6. pc'[c] = "descend"
    BY <1>1, <2>2
  <2>7. Descending(c)'
    <3>1. level'[c] >= 1 /\ tree' >= level'[c] - 1
      BY <1>2, <2>4, <2>5 DEF Bottom
    <3>2. ~raced[c] => tree' < level'[c]
      BY <1>2, <2>4, <2>5 DEF Bottom
    <3>3. exported'
      BY <1>3
    <3> QED
      BY <3>1, <3>2, <3>3, Zenon DEF Descending
  <2>8. Climbing(c)' /\ Returned(c)'
    BY <2>6, Zenon DEF Climbing, Returned
  <2> QED
    BY <1>1, <2>2, <2>3, <2>7, <2>8 DEF ClientInv
<1>5. CASE ~(level[c] < target[c])
  <2>1. Return(c, 0, "OK")
    BY <1>3, <1>5 DEF Below
  <2>2. /\ pc' = [ pc EXCEPT ![c] = "idle" ]
        /\ ret' = [ ret EXCEPT ![c] = 0 ]
        /\ errno' = [ errno EXCEPT ![c] = "OK" ]
        /\ target' = target /\ level' = level
    BY <2>1 DEF Return
  <2>3. tree' >= target'[c]
    BY <1>1, <1>2, <1>3, <1>5, <2>2
  <2>4. pc'[c] = "idle" /\ errno'[c] = "OK"
    BY <1>1, <2>2
  <2>5. Climbing(c)' /\ Descending(c)' /\ Returned(c)'
    BY <2>3, <2>4, Zenon DEF Climbing, Descending, Returned
  <2> QED
    BY <1>1, <2>2, <2>5 DEF ClientInv, Errnos
<1> QED
  BY <1>4, <1>5

\* A failure is remembered with its errno.
LEMMA FailureKeeps ==
  ASSUME IInv, NEW c \in Clients, NEW e \in Errnos, Return(c, -1, e),
         e = "EEXIST" => raced'[c], e = "ENOENT" => removed'[c]
  PROVE  /\ pc' \in [ Clients -> { "idle", "ascend", "descend" } ]
         /\ level' \in [ Clients -> Bottom .. DEPTH ]
         /\ errno' \in [ Clients -> Errnos ] /\ ret' \in [ Clients -> { -1, 0 } ]
         /\ target' = target
         /\ ClientInv(c)'
<1>1. /\ pc \in [ Clients -> { "idle", "ascend", "descend" } ]
      /\ level \in [ Clients -> Bottom .. DEPTH ]
      /\ errno \in [ Clients -> Errnos ] /\ ret \in [ Clients -> { -1, 0 } ]
  BY DEF IInv, TypeOK
<1>2. /\ pc' = [ pc EXCEPT ![c] = "idle" ]
      /\ ret' = [ ret EXCEPT ![c] = -1 ]
      /\ errno' = [ errno EXCEPT ![c] = e ]
      /\ target' = target /\ level' = level
  BY DEF Return
<1>3. pc'[c] = "idle" /\ ret'[c] = -1 /\ errno'[c] = e
  BY <1>1, <1>2
<1>4. ret'[c] # 0 /\ pc'[c] # "ascend" /\ pc'[c] # "descend"
  BY <1>3
<1>5. Climbing(c)' /\ Descending(c)' /\ Returned(c)'
  BY <1>3, <1>4, Zenon DEF Climbing, Descending, Returned
<1> QED
  BY <1>1, <1>2, <1>5 DEF ClientInv

\* Returning and going on concern one client.
OnlyOf(c) ==
  /\ target' = target
  /\ \A d \in Clients \ { c } :
       pc'[d] = pc[d] /\ level'[d] = level[d] /\ errno'[d] = errno[d] /\ ret'[d] = ret[d]

LEMMA StepOfOne ==
  ASSUME TypeOK, NEW c \in Clients,
         \/ \E r \in { -1, 0 }, e \in Errnos : Return(c, r, e)
         \/ \E step \in { "ascend", "descend" } : Go(c, step, level[c] + 1)
         \/ Go(c, "ascend", level[c] - 1)
  PROVE  OnlyOf(c)
<1>1. /\ pc \in [ Clients -> { "idle", "ascend", "descend" } ]
      /\ level \in [ Clients -> Bottom .. DEPTH ]
      /\ errno \in [ Clients -> Errnos ] /\ ret \in [ Clients -> { -1, 0 } ]
  BY DEF TypeOK
<1>2. ASSUME NEW r, NEW e, Return(c, r, e) PROVE OnlyOf(c)
  BY <1>1, <1>2 DEF Return, OnlyOf
<1>3. ASSUME NEW step, NEW k, Go(c, step, k) PROVE OnlyOf(c)
  BY <1>1, <1>3 DEF Go, OnlyOf
<1> QED
  BY <1>2, <1>3

LEMMA ReachedIsStep ==
  ASSUME NEW c \in Clients, Reached(c, level[c])
  PROVE  Return(c, 0, "OK") \/ Go(c, "descend", level[c] + 1)
BY DEF Reached, Below

\* The rest of the types, and the other clients, after a step of client c.
LEMMA Together ==
  ASSUME IInv, NEW c \in Clients, OnlyOf(c), ClientInv(c)',
         pc' \in [ Clients -> { "idle", "ascend", "descend" } ],
         level' \in [ Clients -> Bottom .. DEPTH ],
         errno' \in [ Clients -> Errnos ], ret' \in [ Clients -> { -1, 0 } ],
         tree' \in 0 .. DEPTH, tree' >= tree,
         raced' = [ d \in Clients |-> raced[d] \/ (tree' # tree /\ d # c) ],
         UNCHANGED << exported, removed >>
  PROVE  IInv'
<1>1. target' = target
  BY DEF OnlyOf
<1>2. \A d \in Clients : raced'[d] \in BOOLEAN
  BY Zenon
<1>3. raced' \in [ Clients -> BOOLEAN ]
  BY <1>2, Zenon
<1>4. TypeOK'
  BY <1>1, <1>3, Zenon DEF IInv, TypeOK
<1>5. ASSUME NEW d \in Clients, d # c PROVE ClientInv(d)'
  <2>1. /\ pc'[d] = pc[d] /\ level'[d] = level[d] /\ errno'[d] = errno[d]
        /\ ret'[d] = ret[d] /\ target'[d] = target[d] /\ removed'[d] = removed[d]
    BY <1>1, <1>5 DEF OnlyOf
  <2>2. raced'[d] <=> (raced[d] \/ tree' # tree)
    BY <1>5, Zenon
  <2> QED
    BY <2>1, <2>2, OthersKeep
<1> QED
  BY <1>4, <1>5, Zenon DEF IInv

LEMMA AscendKeeps ==
  ASSUME IInv, NEW c \in Clients, Ascend(c)
  PROVE  IInv'
<1>1. TypeOK
  BY DEF IInv
<1>2. /\ tree' \in 0 .. DEPTH /\ tree' >= tree
      /\ raced' = [ d \in Clients |-> raced[d] \/ (tree' # tree /\ d # c) ]
      /\ UNCHANGED << exported, removed >>
      /\ \/ \E e \in Errnos \ { "EEXIST", "ENOENT" } : Return(c, -1, e)
         \/ Reached(c, level[c])
         \/ /\ exported => level[c] > tree + 1
            /\ tree' = tree /\ level[c] > Bottom
            /\ Go(c, "ascend", level[c] - 1)
  BY <1>1, AscendOutcome
<1>3. raced'[c] <=> raced[c]
  BY <1>2, Zenon
<1>4. pc[c] = "ascend" /\ Climbing(c)
  BY Zenon DEF Ascend, IInv, ClientInv
<1>5. CASE \E e \in Errnos \ { "EEXIST", "ENOENT" } : Return(c, -1, e)
  <2>1. PICK e \in Errnos \ { "EEXIST", "ENOENT" } : Return(c, -1, e)
    BY <1>5
  <2>2. /\ pc' \in [ Clients -> { "idle", "ascend", "descend" } ]
        /\ level' \in [ Clients -> Bottom .. DEPTH ]
        /\ errno' \in [ Clients -> Errnos ] /\ ret' \in [ Clients -> { -1, 0 } ]
        /\ ClientInv(c)'
    BY <2>1, FailureKeeps
  <2>3. OnlyOf(c)
    BY <1>1, <2>1, StepOfOne
  <2> QED
    BY <1>2, <2>2, <2>3, Together
<1>6. CASE Reached(c, level[c])
  <2>1. exported => level[c] >= 1
    BY <1>4, Zenon DEF Climbing
  <2>2. level[c] < target[c] /\ ~raced[c] => tree' <= level[c]
    <3>1. level[c] < target[c] /\ ~raced[c] => tree < level[c]
      BY <1>4, <1>6, Zenon DEF Climbing, Reached
    <3>2. tree' = level[c] \/ tree' = tree
      BY <1>6 DEF Reached
    <3>3. tree \in Int /\ level[c] \in Int
      BY <1>1 DEF TypeOK, Bottom
    <3>4. tree < level[c] => tree' <= level[c]
      BY <3>2, <3>3
    <3> QED
      BY <3>1, <3>4, Zenon
  <2>3. /\ pc' \in [ Clients -> { "idle", "ascend", "descend" } ]
        /\ level' \in [ Clients -> Bottom .. DEPTH ]
        /\ errno' \in [ Clients -> Errnos ] /\ ret' \in [ Clients -> { -1, 0 } ]
        /\ ClientInv(c)'
    BY <1>2, <1>3, <1>6, <2>1, <2>2, ReachedKeeps
  <2>4. OnlyOf(c)
    BY <1>1, <1>6, ReachedIsStep, StepOfOne DEF Errnos
  <2> QED
    BY <1>2, <2>3, <2>4, Together
<1>7. CASE /\ exported => level[c] > tree + 1
           /\ tree' = tree /\ level[c] > Bottom
           /\ Go(c, "ascend", level[c] - 1)
  <2>1. /\ pc' = [ pc EXCEPT ![c] = "ascend" ]
        /\ level' = [ level EXCEPT ![c] = level[c] - 1 ]
        /\ target' = target /\ errno' = errno /\ ret' = ret
    BY <1>7 DEF Go
  <2>2. level[c] \in Bottom .. DEPTH /\ tree \in 0 .. DEPTH
    BY <1>1 DEF TypeOK
  <2>3. level[c] - 1 \in Bottom .. DEPTH
    BY <1>7, <2>2 DEF Bottom
  <2>4. /\ pc' \in [ Clients -> { "idle", "ascend", "descend" } ]
        /\ level' \in [ Clients -> Bottom .. DEPTH ]
        /\ errno' \in [ Clients -> Errnos ] /\ ret' \in [ Clients -> { -1, 0 } ]
        /\ level'[c] = level[c] - 1 /\ pc'[c] = "ascend"
    BY <1>1, <2>1, <2>3 DEF TypeOK
  <2>5. level[c] > tree + 1 => level'[c] >= 1 /\ tree' < level'[c]
    <3>1. PICK k \in Int : level'[c] = k /\ k = level[c] - 1
      BY <2>2, <2>4 DEF Bottom
    <3>2. PICK n \in Nat : tree' = n /\ n = tree
      BY <1>7, <2>2
    <3> QED
      BY <2>2, <3>1, <3>2 DEF Bottom
  <2>6. Climbing(c)'
    BY <1>2, <1>7, <2>5, Zenon DEF Climbing
  <2>7. Descending(c)' /\ Returned(c)'
    BY <2>4, Zenon DEF Descending, Returned
  <2>8. OnlyOf(c)
    BY <1>1, <1>7, StepOfOne
  <2> QED
    BY <1>2, <2>4, <2>6, <2>7, <2>8, Together DEF ClientInv
<1> QED
  BY <1>2, <1>5, <1>6, <1>7

LEMMA DescendKeeps ==
  ASSUME IInv, NEW c \in Clients, Descend(c)
  PROVE  IInv'
<1>1. TypeOK
  BY DEF IInv
<1>2. /\ tree' \in 0 .. DEPTH /\ tree' >= tree
      /\ raced' = [ d \in Clients |-> raced[d] \/ (tree' # tree /\ d # c) ]
      /\ UNCHANGED << exported, removed >>
      /\ \/ \E e \in Errnos :
              /\ Return(c, -1, e)
              /\ e = "EEXIST" => level[c] <= tree
              /\ e = "ENOENT" => (exported => level[c] > tree + 1)
         \/ Reached(c, level[c])
  BY <1>1, DescendOutcome
<1>3. raced'[c] <=> raced[c]
  BY <1>2, Zenon
<1>4. pc[c] = "descend" /\ Descending(c)
  BY Zenon DEF Descend, IInv, ClientInv
<1>5. /\ exported /\ level[c] >= 1
      /\ ~removed[c] => tree >= level[c] - 1
      /\ ~raced[c] => tree < level[c]
  BY <1>4, Zenon DEF Descending
<1>6. tree \in Int /\ level[c] \in Int
  BY <1>1 DEF TypeOK, Bottom
<1>7. CASE \E e \in Errnos :
             /\ Return(c, -1, e)
             /\ e = "EEXIST" => level[c] <= tree
             /\ e = "ENOENT" => (exported => level[c] > tree + 1)
  <2>1. PICK e \in Errnos :
             /\ Return(c, -1, e)
             /\ e = "EEXIST" => level[c] <= tree
             /\ e = "ENOENT" => (exported => level[c] > tree + 1)
    BY <1>7
  <2>2. /\ ~(tree < level[c] /\ level[c] <= tree)
        /\ ~(tree >= level[c] - 1 /\ level[c] > tree + 1)
    BY <1>6
  <2>3. (e = "EEXIST" => raced'[c]) /\ (e = "ENOENT" => removed'[c])
    BY <1>2, <1>3, <1>5, <2>1, <2>2, Zenon
  <2>4. /\ pc' \in [ Clients -> { "idle", "ascend", "descend" } ]
        /\ level' \in [ Clients -> Bottom .. DEPTH ]
        /\ errno' \in [ Clients -> Errnos ] /\ ret' \in [ Clients -> { -1, 0 } ]
        /\ ClientInv(c)'
    BY <2>1, <2>3, FailureKeeps
  <2>5. OnlyOf(c)
    BY <1>1, <2>1, StepOfOne
  <2> QED
    BY <1>2, <2>4, <2>5, Together
<1>8. CASE Reached(c, level[c])
  <2>1. tree' = level[c] \/ tree' = tree
    BY <1>8 DEF Reached
  <2>2. tree < level[c] => tree' <= level[c]
    BY <1>6, <2>1
  <2>3. level[c] < target[c] /\ ~raced[c] => tree' <= level[c]
    BY <1>5, <2>2, Zenon
  <2>4. exported => level[c] >= 1
    BY <1>5
  <2>5. /\ pc' \in [ Clients -> { "idle", "ascend", "descend" } ]
        /\ level' \in [ Clients -> Bottom .. DEPTH ]
        /\ errno' \in [ Clients -> Errnos ] /\ ret' \in [ Clients -> { -1, 0 } ]
        /\ ClientInv(c)'
    BY <1>2, <1>3, <1>8, <2>3, <2>4, ReachedKeeps
  <2>6. OnlyOf(c)
    BY <1>1, <1>8, ReachedIsStep, StepOfOne DEF Errnos
  <2> QED
    BY <1>2, <2>5, <2>6, Together
<1> QED
  BY <1>2, <1>7, <1>8

\* A call begins with nothing remembered.
LEMMA MkdirKeeps ==
  ASSUME IInv, NEW c \in Clients, Mkdir(c)
  PROVE  IInv'
<1>1. TypeOK
  BY DEF IInv
<1>2. PICK k \in 0 .. DEPTH :
        /\ target' = [ target EXCEPT ![c] = k ]
        /\ level' = [ level EXCEPT ![c] = k ]
        /\ pc' = [ pc EXCEPT ![c] = IF k = 0 THEN "idle" ELSE "ascend" ]
  BY DEF Mkdir
<1>3. /\ errno' = [ errno EXCEPT ![c] = "OK" ]
      /\ ret' = [ ret EXCEPT ![c] = 0 ]
      /\ raced' = [ raced EXCEPT ![c] = FALSE ]
      /\ removed' = [ removed EXCEPT ![c] = FALSE ]
      /\ tree' = tree /\ exported' = exported
  BY DEF Mkdir, server
<1>4. k \in Bottom .. DEPTH /\ tree \in 0 .. DEPTH
  BY <1>1 DEF Bottom, TypeOK
<1>5. TypeOK'
  <2>1. /\ pc' \in [ Clients -> { "idle", "ascend", "descend" } ]
        /\ target' \in [ Clients -> 0 .. DEPTH ]
        /\ level' \in [ Clients -> Bottom .. DEPTH ]
        /\ errno' \in [ Clients -> Errnos ] /\ ret' \in [ Clients -> { -1, 0 } ]
    BY <1>1, <1>2, <1>3, <1>4 DEF TypeOK, Errnos
  <2>2. raced' \in [ Clients -> BOOLEAN ] /\ removed' \in [ Clients -> BOOLEAN ]
    BY <1>1, <1>3 DEF TypeOK
  <2> QED
    BY <1>1, <1>3, <2>1, <2>2, Zenon DEF TypeOK
<1>6. ClientInv(c)'
  <2>1. /\ level'[c] = k /\ target'[c] = k /\ tree' = tree
        /\ pc'[c] = (IF k = 0 THEN "idle" ELSE "ascend")
        /\ errno'[c] = "OK"
    BY <1>1, <1>2, <1>3 DEF TypeOK
  <2>2. ~(level'[c] < target'[c])
    BY <2>1
  <2>3. pc'[c] = "ascend" => level'[c] >= 1
    BY <2>1
  <2>4. pc'[c] = "idle" => tree' >= target'[c]
    BY <1>4, <2>1
  <2> QED
    BY <2>1, <2>2, <2>3, <2>4, Zenon DEF ClientInv, Climbing, Descending, Returned
<1>7. ASSUME NEW d \in Clients, d # c PROVE ClientInv(d)'
  <2>1. /\ pc'[d] = pc[d] /\ level'[d] = level[d] /\ errno'[d] = errno[d]
        /\ ret'[d] = ret[d] /\ target'[d] = target[d]
    BY <1>1, <1>2, <1>3, <1>7 DEF TypeOK
  <2>2. removed'[d] = removed[d] /\ raced'[d] = raced[d]
    BY <1>1, <1>3, <1>7, Zenon DEF TypeOK
  <2>3. tree' \in 0 .. DEPTH /\ tree' >= tree
    BY <1>3, <1>4
  <2>4. raced'[d] <=> (raced[d] \/ tree' # tree)
    BY <1>3, <2>2, Zenon
  <2> QED
    BY <1>3, <2>1, <2>2, <2>3, <2>4, OthersKeep
<1> QED
  BY <1>5, <1>6, <1>7, Zenon DEF IInv

\* A removal is remembered by every client.
LEMMA RmdirKeeps == IInv /\ Rmdir => IInv'
<1> SUFFICES ASSUME IInv, Rmdir PROVE IInv'
  OBVIOUS
<1>1. /\ tree \in 0 .. DEPTH /\ tree > 0
      /\ removed' = [ c \in Clients |-> TRUE ]
      /\ exported' = exported /\ raced' = raced
      /\ pc' = pc /\ target' = target /\ level' = level /\ errno' = errno /\ ret' = ret
  BY DEF Rmdir, local, IInv, TypeOK
<1>2. PICK n \in 0 .. DEPTH : tree' = n /\ n < tree
  BY <1>1 DEF Rmdir
<1>3. removed' \in [ Clients -> BOOLEAN ]
  BY <1>1
<1>4. TypeOK'
  BY <1>1, <1>2, <1>3, Zenon DEF IInv, TypeOK
<1>5. ASSUME NEW d \in Clients PROVE ClientInv(d)'
  <2>1. ClientInv(d) /\ level[d] \in Int
    BY DEF IInv, TypeOK, Bottom
  <2>2. removed'[d]
    BY <1>1, Zenon
  <2>3. tree < level[d] => tree' < level[d]
    BY <1>1, <1>2, <2>1
  <2>4. Climbing(d)'
    BY <1>1, <2>1, <2>3, Zenon DEF ClientInv, Climbing
  <2>5. Descending(d)' /\ Returned(d)'
    BY <1>1, <2>1, <2>2, <2>3, Zenon DEF ClientInv, Descending, Returned
  <2> QED
    BY <2>4, <2>5, Zenon DEF ClientInv
<1> QED
  BY <1>4, <1>5, Zenon DEF IInv

LEMMA InitInv == Init => IInv
<1> SUFFICES ASSUME Init PROVE IInv
  OBVIOUS
<1>1. TypeOK
  <2>1. raced \in [ Clients -> BOOLEAN ] /\ removed \in [ Clients -> BOOLEAN ]
    BY DEF Init
  <2>2. /\ pc \in [ Clients -> { "idle", "ascend", "descend" } ]
        /\ target \in [ Clients -> 0 .. DEPTH ] /\ level \in [ Clients -> Bottom .. DEPTH ]
        /\ errno \in [ Clients -> Errnos ] /\ ret \in [ Clients -> { -1, 0 } ]
    BY DEF Init, Bottom, Errnos
  <2> QED
    BY <2>1, <2>2, Zenon DEF Init, TypeOK
<1>2. ASSUME NEW c \in Clients PROVE ClientInv(c)
  <2>1. pc[c] = "idle" /\ errno[c] = "OK" /\ tree >= target[c]
    BY DEF Init
  <2> QED
    BY <2>1, Zenon DEF ClientInv, Climbing, Descending, Returned
<1> QED
  BY <1>1, <1>2, Zenon DEF IInv

LEMMA NextInv == IInv /\ [Next]_vars => IInv'
<1> SUFFICES ASSUME IInv, [Next]_vars PROVE IInv'
  OBVIOUS
<1>1. CASE UNCHANGED vars
  BY <1>1 DEF vars, server, local, IInv, TypeOK, ClientInv, Climbing, Descending, Returned
<1>2. CASE Next
  BY <1>2, AscendKeeps, DescendKeeps, MkdirKeeps, RmdirKeeps DEF Next, Working
<1> QED
  BY <1>1, <1>2

LEMMA Inductive == Spec => []IInv
BY InitInv, NextInv, PTL DEF Spec

\* Server, clients and history keep their types.
THEOREM TypeCorrect == Spec => []TypeOK
BY Inductive, InvImplies, PTL

\* Whatever the other clients do meanwhile: a call that succeeds leaves the whole
\* path there, unless somebody removed some of it.
THEOREM PathWhole == Spec => []WholePath
BY Inductive, InvImplies, PTL

\* A call that fails because a directory is there lost a race against another
\* client; one that fails for a missing parent, against a removal.
THEOREM OnlyRacesFail == Spec => []FailsOnlyByRace
BY Inductive, InvImplies, PTL

\* In a namespace the server knows, the climb never leaves the path.
THEOREM ClimbStaysBelowRoot == Spec => []ClimbStops
BY Inductive, InvImplies, PTL

-----------------------------------------------------------------------------
(* The climb and the descent come to an end: the part that is not temporal *)

\* More than the requests a call can still make: the levels up to the bottom and
\* those down to the target.
WorkLeft(c) ==
  CASE pc[c] = "idle"    -> 0
    [] pc[c] = "ascend"  -> DEPTH + 5 + level[c]
    [] pc[c] = "descend" -> DEPTH + 1 - level[c]

Progress(c) ==
  pc[c] # "idle" => IF Working(c) THEN WorkLeft(c)' < WorkLeft(c)
                                  ELSE WorkLeft(c)' = WorkLeft(c)

LEMMA WorkBounded ==
  ASSUME TypeOK, NEW c \in Clients
  PROVE  /\ WorkLeft(c) \in 0 .. 2 * DEPTH + 5
         /\ pc[c] # "idle" => WorkLeft(c) > 0
<1>1. pc[c] \in { "idle", "ascend", "descend" } /\ level[c] \in Bottom .. DEPTH
  BY DEF TypeOK
<1>2. CASE pc[c] = "idle"
  BY <1>2 DEF WorkLeft
<1>3. CASE pc[c] = "ascend"
  BY <1>1, <1>3 DEF WorkLeft, Bottom
<1>4. CASE pc[c] = "descend"
  BY <1>1, <1>4 DEF WorkLeft, Bottom
<1> QED
  BY <1>1, <1>2, <1>3, <1>4

\* A request ends the call, goes one level up, or turns to the level below.
LEMMA WorkShrinks ==
  ASSUME TypeOK, NEW c \in Clients, Working(c)
  PROVE  pc[c] # "idle" /\ WorkLeft(c)' < WorkLeft(c)
<1>1. /\ pc \in [ Clients -> { "idle", "ascend", "descend" } ]
      /\ level \in [ Clients -> Bottom .. DEPTH ]
  BY DEF TypeOK
<1>2. level[c] \in Int /\ level[c] >= -2 /\ level[c] <= DEPTH
  BY <1>1 DEF Bottom
<1>3. pc[c] = "ascend" \/ pc[c] = "descend"
  BY DEF Working, Ascend, Descend
<1>4. WorkLeft(c) \in Int /\ WorkLeft(c) > 0
  BY <1>3, WorkBounded
<1>5. \/ \E r, e : Return(c, r, e)
      \/ Go(c, "descend", level[c] + 1)
      \/ pc[c] = "ascend" /\ Go(c, "ascend", level[c] - 1)
  <2>1. CASE Ascend(c)
    <3>1. pc[c] = "ascend"
      BY <2>1 DEF Ascend
    <3> QED
      BY <2>1, <3>1, AscendOutcome, ReachedIsStep, Zenon
  <2>2. CASE Descend(c)
    BY <2>2, DescendOutcome, ReachedIsStep, Zenon
  <2> QED
    BY <2>1, <2>2 DEF Working
<1>6. ASSUME NEW r, NEW e, Return(c, r, e) PROVE WorkLeft(c)' < WorkLeft(c)
  <2>1. pc'[c] = "idle"
    BY <1>1, <1>6 DEF Return
  <2>2. WorkLeft(c)' = 0
    BY <2>1 DEF WorkLeft
  <2> QED
    BY <1>4, <2>2
<1>7. CASE Go(c, "descend", level[c] + 1)
  <2>1. pc'[c] = "descend" /\ level'[c] = level[c] + 1
    BY <1>1, <1>7 DEF Go
  <2>2. WorkLeft(c)' = DEPTH + 1 - (level[c] + 1)
    BY <2>1 DEF WorkLeft
  <2>3. WorkLeft(c) = DEPTH + 5 + level[c] \/ WorkLeft(c) = DEPTH + 1 - level[c]
    BY <1>3 DEF WorkLeft
  <2> QED
    BY <1>2, <1>3, <2>2, <2>3
<1>8. CASE pc[c] = "ascend" /\ Go(c, "ascend", level[c] - 1)
  <2>1. pc'[c] = "ascend" /\ level'[c] = level[c] - 1
    BY <1>1, <1>8 DEF Go
  <2>2. WorkLeft(c)' = DEPTH + 5 + (level[c] - 1)
    BY <2>1 DEF WorkLeft
  <2>3. WorkLeft(c) = DEPTH + 5 + level[c]
    BY <1>8 DEF WorkLeft
  <2> QED
    BY <1>2, <1>3, <2>2, <2>3
<1> QED
  BY <1>3, <1>5, <1>6, <1>7, <1>8

\* Nobody else adds to it.
LEMMA WorkUntouched ==
  ASSUME TypeOK, Next, NEW c \in Clients, pc[c] # "idle", ~Working(c)
  PROVE  WorkLeft(c)' = WorkLeft(c)
<1>1. pc'[c] = pc[c] /\ level'[c] = level[c]
  <2>1. CASE Rmdir
    BY <2>1 DEF Rmdir, local
  <2>2. ASSUME NEW d \in Clients, Mkdir(d) PROVE pc'[c] = pc[c] /\ level'[c] = level[c]
    <3>1. d # c
      BY <2>2 DEF Mkdir
    <3> QED
      BY <2>2, <3>1 DEF Mkdir, TypeOK
  <2>3. ASSUME NEW d \in Clients, Working(d) PROVE pc'[c] = pc[c] /\ level'[c] = level[c]
    <3>1. \/ \E r \in { -1, 0 }, e \in Errnos : Return(d, r, e)
          \/ \E step \in { "ascend", "descend" } : Go(d, step, level[d] + 1)
          \/ Go(d, "ascend", level[d] - 1)
      <4>1. "OK" \in Errnos
        BY DEF Errnos
      <4>2. CASE Ascend(d)
        BY <4>1, <4>2, AscendOutcome, ReachedIsStep, Zenon
      <4>3. CASE Descend(d)
        BY <4>1, <4>3, DescendOutcome, ReachedIsStep, Zenon
      <4> QED
        BY <2>3, <4>2, <4>3 DEF Working
    <3>2. OnlyOf(d)
      BY <3>1, StepOfOne
    <3> QED
      BY <2>3, <3>2 DEF OnlyOf
  <2> QED
    BY <2>1, <2>2, <2>3 DEF Next
<1> QED
  BY <1>1 DEF WorkLeft

\* Every request of a mkdir brings it nearer to its end, and nothing that other
\* clients do puts it back: however they make and remove its directories, a call
\* comes back after a number of requests its depth bounds.
THEOREM RequestsBounded ==
  Spec => /\ [](\A c \in Clients : WorkLeft(c) \in 0 .. 2 * DEPTH + 5)
          /\ [][\A c \in Clients : Progress(c)]_vars
<1>1. TypeOK => \A c \in Clients : WorkLeft(c) \in 0 .. 2 * DEPTH + 5
  BY WorkBounded
<1>2. TypeOK /\ [Next]_vars => [\A c \in Clients : Progress(c)]_vars
  BY WorkShrinks, WorkUntouched DEF Progress
<1> QED
  BY <1>1, <1>2, TypeCorrect, PTL DEF Spec
=============================================================================
