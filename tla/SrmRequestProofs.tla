--------------------------- MODULE SrmRequestProofs ---------------------------
(***************************************************************************)
(* Proofs about SrmRequest, for every set of tokens, timeout, waiting      *)
(* times, estimates and polling logic: its types and tokens, its deadlines *)
(* and verdicts, each from an inductive invariant of its own on top of     *)
(* TypeCorrect, the safety half of the refinement of SrmCall, and a bound  *)
(* on the steps of a call.                                                 *)
(***************************************************************************)
EXTENDS SrmRequest, TLAPS

USE WaitAssumption, RequestAssumption

-----------------------------------------------------------------------------
(* Errnos *)

\* Every status code becomes an errno.
LEMMA StatusErrno ==
  ASSUME NEW c \in StatusCodes
  PROVE  statuscode2errno(c) \in Errnos
BY DEF StatusCodes, statuscode2errno, Errnos

\* An error reply, or a reply without a file list, gives the call an errno; it
\* is zero only for the three codes statuscode2errno calls a success.
LEMMA CallErrno ==
  ASSUME NEW c \in StatusCodes
  PROVE  /\ srm_call_err(c, "none") \in Errnos
         /\ c \notin { "FILE_PINNED", "SPACE_AVAILABLE", "RELEASED" }
              => srm_call_err(c, "none") # "OK"
<1>1. statuscode2errno(c) \in Errnos
  BY StatusErrno
<1>2. statuscode_and_msg_to_errno(c, "none") = statuscode2errno(c)
  BY DEF statuscode_and_msg_to_errno
<1>3. statuscode2errno(c) = "OK"
        => c \in { "SUCCESS", "FILE_PINNED", "SPACE_AVAILABLE", "RELEASED" }
  BY DEF StatusCodes, statuscode2errno
<1> QED BY <1>1, <1>2, <1>3 DEF srm_call_err, Errnos

-----------------------------------------------------------------------------
(* Waiting *)

\* The waiting rules never move the clock back or touch the deadline, and leave
\* a well-formed context.
LEMMA WaitOutcome ==
  ASSUME NEW c \in InternalContexts, NEW t \in Nat,
         NEW o \in wait_switch_auto(LOGIC, c, t)
  PROVE  /\ o.ok \in BOOLEAN
         /\ o.now \in Nat /\ o.now >= t
         /\ o.ic \in InternalContexts
         /\ o.ic.end = c.end
<1>1. CASE LOGIC = "OLD"
  <2> DEFINE next == [ c EXCEPT !.attempt = @ + 1 ]
  <2>1. next \in InternalContexts /\ next.end = c.end
    BY DEF InternalContexts
  <2>2. \/ \E w \in Int : w >= 1 /\ o = SleepOrLastChance(next, t, w)
        \/ o = [ ok |-> FALSE, now |-> t, ic |-> c ]
        \/ o = SleepOrLastChance(c, t, c.est) /\ (c.est >= 1 \/ c.est >= c.end - t)
    BY <1>1 DEF wait_switch_auto, wait_for_new_attempt, InternalContexts
  <2>3. ASSUME NEW d \in InternalContexts, d.end = c.end, NEW w \in Int,
               w >= 1 \/ t + w >= d.end,
               o = SleepOrLastChance(d, t, w)
        PROVE  /\ o.ok \in BOOLEAN /\ o.now \in Nat /\ o.now >= t
               /\ o.ic \in InternalContexts /\ o.ic.end = c.end
    BY <2>3 DEF SleepOrLastChance, InternalContexts
  <2>4. c.est \in Int /\ c.end \in Int
    BY DEF InternalContexts
  <2> HIDE DEF next
  <2>5. CASE \E w \in Int : w >= 1 /\ o = SleepOrLastChance(next, t, w)
    BY <2>1, <2>3, <2>5
  <2>6. CASE o = [ ok |-> FALSE, now |-> t, ic |-> c ]
    BY <2>6, <2>4
  <2>7. CASE o = SleepOrLastChance(c, t, c.est) /\ (c.est >= 1 \/ c.est >= c.end - t)
    <3>1. c.est >= 1 \/ t + c.est >= c.end
      BY <2>4, <2>7
    <3> QED BY <2>3, <2>4, <2>7, <3>1
  <2> QED BY <2>2, <2>5, <2>6, <2>7
<1>2. CASE LOGIC # "OLD"
  <2> DEFINE next == [ c EXCEPT !.wait = Lesser(c.wait + c.wait, MAX_WAIT) ]
  <2>1. next \in InternalContexts /\ next.end = c.end
    BY DEF InternalContexts, Lesser
  <2>2. \/ \E w \in Int : w >= t /\ o = [ ok |-> TRUE, now |-> w, ic |-> next ]
        \/ o = [ ok |-> FALSE, now |-> t, ic |-> next ]
    BY <1>2 DEF wait_switch_auto, wait_for_new_attempt_min_max_ng, InternalContexts
  <2> HIDE DEF next
  <2>3. CASE o = [ ok |-> FALSE, now |-> t, ic |-> next ]
    BY <2>1, <2>3
  <2>4. CASE \E w \in Int : w >= t /\ o = [ ok |-> TRUE, now |-> w, ic |-> next ]
    BY <2>1, <2>4
  <2> QED BY <2>2, <2>3, <2>4
<1> QED BY <1>1, <1>2

-----------------------------------------------------------------------------
(* The steps of the internal functions *)

\* back_off_logic reports one of the five call statuses, a timeout only for a
\* reply that asked to wait, and does not touch the deadline.
LEMMA BackOffOutcome ==
  ASSUME TypeOK, rep.code # NoStatus, NEW b \in BackOff
  PROVE  /\ \/ b.st = ReplyClass(rep.code)
            \/ b.st = "TIMEOUT" /\ ReplyClass(rep.code) \in WaitingClasses
         /\ b.st \in CallStatuses
         /\ b.now \in Nat /\ b.now >= now
         /\ b.ic \in InternalContexts /\ b.ic.end = ic.end
<1>1. Estimated \in InternalContexts /\ Estimated.end = ic.end
  BY DEF TypeOK, Estimated, set_estimated_wait_time, InternalContexts, Replies
<1>2. now \in Nat
  BY DEF TypeOK
<1>3. ReplyClass(rep.code) \in CallStatuses
  BY DEF ReplyClass, CallStatuses
<1>4. CASE ReplyClass(rep.code) \in WaitingClasses
  <2>1. PICK o \in wait_switch_auto(LOGIC, Estimated, now) :
          b = [ st |-> IF o.ok THEN ReplyClass(rep.code) ELSE "TIMEOUT",
                now |-> o.now, ic |-> o.ic ]
    BY <1>4 DEF BackOff
  <2>2. o.ok \in BOOLEAN /\ o.now \in Nat /\ o.now >= now
        /\ o.ic \in InternalContexts /\ o.ic.end = ic.end
    BY <1>1, <1>2, WaitOutcome
  <2>3. b.st = IF o.ok THEN ReplyClass(rep.code) ELSE "TIMEOUT"
    BY <2>1
  <2>4. b.now = o.now /\ b.ic = o.ic
    BY <2>1
  <2>5. "TIMEOUT" \in CallStatuses
    BY DEF CallStatuses
  <2> QED BY <1>3, <1>4, <2>2, <2>3, <2>4, <2>5
<1>5. CASE ReplyClass(rep.code) \notin WaitingClasses
  <2>1. b = [ st |-> ReplyClass(rep.code), now |-> now, ic |-> Estimated ]
    BY <1>5 DEF BackOff
  <2> QED BY <1>1, <1>2, <1>3, <2>1
<1> QED BY <1>4, <1>5

Results == [ status : CallStatuses, ret : { -1, 0, 1 }, errno : Errnos,
             token : Tokens \cup { NoToken }, files : BOOLEAN ]

\* Whatever function the thread is in, the switch on current_status has a branch.
LEMMA OutcomeTyped ==
  ASSUME TypeOK, rep.code # NoStatus,
         NEW st \in { "SUCCESS", "FAILURE", "QUEUED", "TIMEOUT" }
  PROVE  Outcome(st) \in Results
<1>1. /\ rep.code \in StatusCodes /\ rep.token \in Tokens \cup { NoToken }
      /\ rep.files \in BOOLEAN /\ out.token \in Tokens \cup { NoToken }
      /\ errno \in Errnos /\ kind \in AllKinds /\ stage \in { "submit", "poll" }
  BY DEF TypeOK, Replies
<1>2. /\ CallErr \in Errnos /\ statuscode2errno(rep.code) \in Errnos
      /\ "EINVAL" \in Errnos
  BY <1>1, CallErrno, StatusErrno DEF CallErr, Errnos
<1>3. \A e \in Errnos : Fail(e) \in Results
  BY <1>1 DEF Fail, Results, CallStatuses
<1>4. TimedOut \in Results
  BY <1>1 DEF TimedOut, Results, CallStatuses, Errnos
<1>5. \A t \in Tokens \cup { NoToken } : Deliver(t) \in Results
  BY DEF Deliver, Results, CallStatuses, Errnos
<1>6. \A t \in Tokens \cup { NoToken }, f \in BOOLEAN : KeepQueued(t, f) \in Results
  BY <1>1 DEF KeepQueued, Results, CallStatuses, Errnos
<1>7. CASE stage = "submit"
  <2>1. /\ srmv2_ls_async_internal(st) \in Results
        /\ srmv2_prepare_to_put_async_internal(st) \in Results
        /\ srmv2_prepare_to_get_async_internal(st) \in Results
        /\ srmv2_bring_online_async_internal(st) \in Results
    BY <1>1, <1>2, <1>3, <1>4, <1>5, <1>6
    DEF srmv2_ls_async_internal, srmv2_prepare_to_put_async_internal,
        srmv2_prepare_to_get_async_internal, srmv2_bring_online_async_internal
  <2> QED BY <1>1, <1>7, <2>1 DEF Outcome, AllKinds
<1>8. CASE stage = "poll"
  <2>1. /\ srmv2_status_of_ls_request_async_internal(st) \in Results
        /\ srmv2_status_of_put_request_async_internal(st) \in Results
        /\ srmv2_status_of_get_request_async_internal(st) \in Results
        /\ srmv2_status_of_bring_online_async_internal(st) \in Results
    BY <1>1, <1>2, <1>3, <1>4, <1>5, <1>6
    DEF srmv2_status_of_ls_request_async_internal,
        srmv2_status_of_put_request_async_internal,
        srmv2_status_of_get_request_async_internal,
        srmv2_status_of_bring_online_async_internal
  <2> QED BY <1>1, <1>8, <2>1 DEF Outcome, AllKinds
<1> QED BY <1>1, <1>7, <1>8

-----------------------------------------------------------------------------
(* The inductive invariant *)

\* Every token the client holds, or was just told, is one the server gave this
\* call; a thread that is polling, or about to, holds one.  Type correctness
\* rests on it: the server's table is only defined for tokens, not for NULL.
TokenInv ==
  /\ out.token \in mine \cup { NoToken }
  /\ rep.token \in mine \cup { NoToken }
  /\ pc = "submit" => stage = "submit"
  /\ pc = "status" => stage = "poll"
  /\ stage = "poll" /\ pc # "idle" => out.token # NoToken
  /\ pc = "wrapper" /\ status = "QUEUED" => out.token # NoToken

-----------------------------------------------------------------------------
(* Types *)

LEMMA FreshContext == back_off_logic_init(TIMEOUT) \in InternalContexts
BY DEF back_off_logic_init, InternalContexts

\* The absent reply of a failed SOAP call is a reply.
LEMMA NoReplyTyped == NoReply \in Replies
BY DEF NoReply, Replies

\* So is the output structure after memset well typed.
LEMMA EmptyOutputTyped ==
  EmptyOutput \in [ token : Tokens \cup { NoToken },
                    code : StatusCodes \cup { NoStatus }, files : BOOLEAN ]
BY DEF EmptyOutput

\* The replies of the server and network model are well formed.
LEMMA RefusalTyped == RefusalReplies \subseteq Replies
BY DEF RefusalReplies, Plain, Replies

\* A reply that carries a bare code is a reply.
LEMMA PlainTyped ==
  ASSUME NEW c \in { "INTERNAL_ERROR", "ABORTED", "INVALID_REQUEST" }, NEW f \in BOOLEAN
  PROVE  Plain(c, f) \in Replies
BY DEF Plain, Replies, StatusCodes

\* A "still queued" reply is a reply.
LEMMA QueuedTyped ==
  ASSUME NEW t \in Tokens
  PROVE  QueuedReplies(t) \subseteq Replies
BY DEF QueuedReplies, Replies, StatusCodes

\* A reply that settles a request is a reply.
LEMMA FinalTyped ==
  ASSUME NEW t \in Tokens
  PROVE  FinalReplies(t) \subseteq Replies
BY DEF FinalReplies, Replies, StatusCodes

\* How a submission can be answered, case by case.
LEMMA SubmitAnswerCases ==
  ASSUME NEW a \in SubmitAnswers
  PROVE  \/ \E r \in { NoReply, Plain("INTERNAL_ERROR", FALSE) } \cup RefusalReplies :
              a = Ignored(r)
         \/ \E t \in Tokens :
              \E r \in { NoReply, Plain("INTERNAL_ERROR", FALSE) } \cup QueuedReplies(t) :
                a = Accepted(t, "queued", r)
         \/ \E t \in Tokens : \E r \in FinalReplies(t) : a = Accepted(t, "ready", r)
<1> DEFINE silent == { NoReply, Plain("INTERNAL_ERROR", FALSE) }
           free == { t \in Tokens : srv[t] = "free" }
           answers(t) == { Accepted(t, "queued", r) : r \in silent \cup QueuedReplies(t) }
                         \cup { Accepted(t, "ready", r) : r \in FinalReplies(t) }
<1>1. a \in { Ignored(r) : r \in silent \cup RefusalReplies }
           \cup UNION { answers(t) : t \in free }
  BY DEF SubmitAnswers
<1>2. CASE a \in { Ignored(r) : r \in silent \cup RefusalReplies }
  BY <1>2
<1>3. CASE a \in UNION { answers(t) : t \in free }
  <2>1. PICK t \in free : a \in answers(t)
    BY <1>3
  <2>2. t \in Tokens
    OBVIOUS
  <2> QED BY <2>1, <2>2
<1> QED BY <1>1, <1>2, <1>3

\* Whatever the server makes of a new request, its table and its reply keep
\* their types.
LEMMA SubmitAnswersTyped ==
  ASSUME TypeOK, NEW a \in SubmitAnswers
  PROVE  /\ a.srv \in [ Tokens -> RequestStates ]
         /\ a.new \in Tokens \cup { NoToken }
         /\ a.rep \in Replies
<1> DEFINE silent == { NoReply, Plain("INTERNAL_ERROR", FALSE) }
<1>1. silent \subseteq Replies
  BY NoReplyTyped, PlainTyped
<1>2. CASE \E r \in silent \cup RefusalReplies : a = Ignored(r)
  <2>1. PICK r \in silent \cup RefusalReplies : a = Ignored(r)
    BY <1>2
  <2>2. r \in Replies
    BY <1>1, RefusalTyped
  <2>3. srv \in [ Tokens -> RequestStates ]
    BY DEF TypeOK
  <2> QED BY <2>1, <2>2, <2>3 DEF Ignored
<1>3. ASSUME NEW t \in Tokens, NEW s \in { "queued", "ready" }, NEW r \in Replies,
             a = Accepted(t, s, r)
      PROVE  /\ a.srv \in [ Tokens -> RequestStates ]
             /\ a.new \in Tokens \cup { NoToken }
             /\ a.rep \in Replies
  BY <1>3 DEF Accepted, TypeOK, RequestStates
<1>4. \A t \in Tokens : silent \cup QueuedReplies(t) \cup FinalReplies(t) \subseteq Replies
  BY <1>1, QueuedTyped, FinalTyped
<1> QED BY <1>2, <1>3, <1>4, SubmitAnswerCases

\* Whatever it says of a request it was asked about is a reply.
LEMMA StatusAnswersTyped ==
  ASSUME TypeOK, NEW t \in Tokens, NEW r \in StatusAnswers(t)
  PROVE  r \in Replies
<1>1. srv[t] \in RequestStates
  BY DEF TypeOK
<1>2. \/ r \in { NoReply, Plain("INTERNAL_ERROR", FALSE), Plain("INVALID_REQUEST", FALSE) }
      \/ r \in QueuedReplies(t) \cup FinalReplies(t) \cup RefusalReplies
      \/ \E f \in BOOLEAN : r = Plain("ABORTED", f)
  <2>1. CASE srv[t] = "queued"
    BY <2>1 DEF StatusAnswers
  <2>2. CASE srv[t] = "ready"
    BY <2>2 DEF StatusAnswers
  <2>3. CASE srv[t] = "failed"
    BY <2>3 DEF StatusAnswers
  <2>4. CASE srv[t] = "aborted"
    BY <2>4 DEF StatusAnswers
  <2>5. CASE srv[t] = "free"
    BY <2>5 DEF StatusAnswers
  <2> QED BY <1>1, <2>1, <2>2, <2>3, <2>4, <2>5 DEF RequestStates
<1> QED BY <1>2, NoReplyTyped, PlainTyped, QueuedTyped, FinalTyped, RefusalTyped

\* Whatever becomes of an abort, the server's table and errno keep their types.
LEMMA AbortAnswersTyped ==
  ASSUME TypeOK, NEW t \in Tokens, NEW a \in AbortAnswers(t)
  PROVE  a.srv \in [ Tokens -> RequestStates ] /\ a.errno \in Errnos /\ a.obeyed \in BOOLEAN
<1> DEFINE gone == [ srv EXCEPT ![t] = IF @ = "queued" THEN "aborted" ELSE @ ]
<1>1. srv \in [ Tokens -> RequestStates ] /\ errno \in Errnos
  BY DEF TypeOK
<1>2. gone \in [ Tokens -> RequestStates ]
  BY <1>1 DEF RequestStates
<1>3. \/ a \in [ srv : { srv, gone }, errno : { "ECOMM", "EINVAL" }, obeyed : { FALSE } ]
      \/ a = [ srv |-> gone, errno |-> errno, obeyed |-> TRUE ]
  BY DEF AbortAnswers
<1> HIDE DEF gone
<1>4. CASE a \in [ srv : { srv, gone }, errno : { "ECOMM", "EINVAL" }, obeyed : { FALSE } ]
  <2>1. a.srv \in { srv, gone } /\ a.errno \in { "ECOMM", "EINVAL" } /\ a.obeyed = FALSE
    BY <1>4
  <2> QED BY <1>1, <1>2, <2>1 DEF Errnos
<1>5. CASE a = [ srv |-> gone, errno |-> errno, obeyed |-> TRUE ]
  BY <1>1, <1>2, <1>5
<1> QED BY <1>3, <1>4, <1>5

\* A context starts well typed.
LEMMA TypeInit == Init => TypeOK
<1> SUFFICES ASSUME Init PROVE TypeOK
  OBVIOUS
<1>1. kind \in AllKinds
  BY DEF Init
<1> QED BY <1>1, FreshContext, NoReplyTyped, EmptyOutputTyped
        DEF Init, TypeOK, Modes, CallStatuses, Errnos, RequestStates

\* No step of the library, the application or the server breaks the types; the
\* token of a polling call is needed, since the server is asked about it.
LEMMA TypeStep == TypeOK /\ TokenInv /\ [Next]_vars => TypeOK'
<1> SUFFICES ASSUME TypeOK, TokenInv, [Next]_vars PROVE TypeOK'
  OBVIOUS
<1>1. ASSUME NEW k \in Kinds, NEW m \in Modes, Begin(k, m),
             pc' \in { "submit", "wrapper" }, ret' \in { -1, 0 }, errno' \in Errnos
      PROVE  TypeOK'
  <2>1. kind' \in AllKinds /\ mode' \in Modes
    BY <1>1 DEF Begin
  <2> QED BY <1>1, <2>1, FreshContext, NoReplyTyped, EmptyOutputTyped
          DEF Begin, TypeOK, CallStatuses
<1>2. CASE Call
  <2>1. PICK k \in Kinds, m \in Modes :
          Begin(k, m) /\ pc' = "submit" /\ ret' = 0 /\ errno' \in { errno, "OK" }
    BY <1>2 DEF Call
  <2>2. errno' \in Errnos
    BY <2>1 DEF TypeOK, Errnos
  <2> QED BY <1>1, <2>1, <2>2
<1>3. CASE CallRejected
  <2>1. PICK k \in Kinds, m \in Modes :
          /\ Begin(k, m) /\ pc' = "wrapper" /\ ret' = -1
          /\ errno' \in { "ENOMEM" } \cup IF k \in { "ls", "put" } THEN { "EINVAL" } ELSE {}
    BY <1>3 DEF CallRejected
  <2>2. errno' \in Errnos
    BY <2>1 DEF Errnos
  <2> QED BY <1>1, <2>1, <2>2
<1>4. CASE CallStatus
  BY <1>4, FreshContext
  DEF CallStatus, TypeOK, EmptyOutput, CallStatuses, Errnos
<1>5. CASE CallAbort
  <2>1. PICK a \in AbortAnswers(out.token) : srv' = a.srv /\ errno' = a.errno
    BY <1>5 DEF CallAbort
  <2>2. a.srv \in [ Tokens -> RequestStates ] /\ a.errno \in Errnos
    BY <1>5, <2>1, AbortAnswersTyped DEF CallAbort, TypeOK
  <2> QED BY <1>5, <2>1, <2>2 DEF CallAbort, TypeOK, callVars, ghostVars
<1>6. CASE Submit
  <2>1. PICK a \in SubmitAnswers, d \in 0 .. MAX_RPC :
          /\ SoapCall(a, d)
          /\ mine' = IF a.new = NoToken THEN mine ELSE mine \cup { a.new }
          /\ clean' = (clean /\ a.new = a.rep.token)
    BY <1>6 DEF Submit
  <2>2. /\ a.srv \in [ Tokens -> RequestStates ]
        /\ a.new \in Tokens \cup { NoToken }
        /\ a.rep \in Replies
    BY SubmitAnswersTyped
  <2>3. mine' \subseteq Tokens /\ clean' \in BOOLEAN
    BY <2>1, <2>2 DEF TypeOK
  <2>4. now' \in Nat /\ late' \in Nat
    BY <2>1 DEF SoapCall, TypeOK
  <2> QED BY <2>1, <2>2, <2>3, <2>4 DEF SoapCall, callVars, TypeOK
<1>7. CASE AskStatus
  <2>1. PICK r \in StatusAnswers(out.token), d \in 0 .. MAX_RPC :
          SoapCall([ srv |-> srv, rep |-> r ], d)
    BY <1>7 DEF AskStatus
  <2>2. r \in Replies
    BY <1>7, <2>1, StatusAnswersTyped DEF AskStatus, TypeOK, TokenInv
  <2>3. now' \in Nat /\ late' \in Nat
    BY <2>1 DEF SoapCall, TypeOK
  <2> QED BY <1>7, <2>1, <2>2, <2>3 DEF AskStatus, SoapCall, callVars, TypeOK
<1>8. CASE NoResponse
  BY <1>8 DEF NoResponse, TypeOK, callVars, ghostVars, CallStatuses, Errnos
<1>9. CASE Retry
  <2>1. PICK b \in BackOff : now' = b.now /\ ic' = b.ic
    BY <1>9 DEF Retry
  <2>2. now' \in Nat /\ ic' \in InternalContexts
    BY <1>9, <2>1, BackOffOutcome DEF Retry
  <2> QED BY <1>9, <2>2 DEF Retry, TypeOK, Replies, callVars, ghostVars, CallStatuses
<1>10. CASE Conclude
  <2>1. PICK b \in BackOff :
          /\ b.st # "INTERNAL_ERROR" /\ now' = b.now /\ ic' = b.ic
          /\ status' = Outcome(b.st).status /\ ret' = Outcome(b.st).ret
          /\ errno' = Outcome(b.st).errno
          /\ out' = [ token |-> Outcome(b.st).token, code |-> rep.code,
                      files |-> Outcome(b.st).files ]
    BY <1>10 DEF Conclude
  <2>2. b.st \in CallStatuses /\ now' \in Nat /\ ic' \in InternalContexts
    BY <1>10, <2>1, BackOffOutcome DEF Conclude
  <2>3. Outcome(b.st) \in Results
    BY <1>10, <2>1, <2>2, OutcomeTyped DEF Conclude, CallStatuses
  <2> QED BY <1>10, <2>1, <2>2, <2>3
          DEF Conclude, TypeOK, Results, Replies, callVars, ghostVars
<1>11. ASSUME NEW r \in { -1, 0, 1 }, Return(r), errno' \in Errnos,
              srv' \in [ Tokens -> RequestStates ], clean' \in BOOLEAN
       PROVE  TypeOK'
  BY <1>11, FreshContext, NoReplyTyped DEF Return, TypeOK, callVars
<1>12. CASE ReturnAsync
  BY <1>11, <1>12 DEF ReturnAsync, TypeOK
<1>13. CASE PollAgain
  <2>1. ic' \in InternalContexts
    BY <1>13 DEF PollAgain, TypeOK, InternalContexts
  <2>2. out' \in [ token : Tokens \cup { NoToken },
                   code : StatusCodes \cup { NoStatus }, files : BOOLEAN ]
    BY <1>13, EmptyOutputTyped DEF PollAgain, TypeOK
  <2> QED BY <1>13, <2>1, <2>2 DEF PollAgain, TypeOK, ghostVars
<1>14. CASE AbortAndReturn
  <2>1. PICK a \in AbortAnswers(out.token) :
          /\ srv' = a.srv
          /\ clean' = (clean /\ a.obeyed)
          /\ errno' = IF kind \in { "put", "get" } THEN "ETIMEDOUT" ELSE a.errno
    BY <1>14 DEF AbortAndReturn
  <2>2. /\ a.srv \in [ Tokens -> RequestStates ] /\ a.errno \in Errnos
        /\ a.obeyed \in BOOLEAN
    BY <1>14, <2>1, AbortAnswersTyped DEF AbortAndReturn, GiveUp, TypeOK, TokenInv
  <2>3. errno' \in Errnos /\ clean' \in BOOLEAN
    BY <2>1, <2>2 DEF Errnos, TypeOK
  <2> QED BY <1>11, <1>14, <2>1, <2>2, <2>3 DEF AbortAndReturn
<1>15. CASE ReturnSync
  <2>1. (IF status = "SUCCESS" THEN ret ELSE -1) \in { -1, 0, 1 }
    BY DEF TypeOK
  <2> QED BY <1>11, <1>15, <2>1 DEF ReturnSync, TypeOK
<1>16. CASE ServerStep
  BY <1>16 DEF ServerStep, TypeOK, RequestStates, callVars, clientVars, ghostVars
<1>17. CASE UNCHANGED vars
  BY <1>17 DEF vars, callVars, clientVars, ghostVars, TypeOK
<1> QED BY <1>2, <1>3, <1>4, <1>5, <1>6, <1>7, <1>8, <1>9, <1>10, <1>12, <1>13,
           <1>14, <1>15, <1>16, <1>17 DEF Next, Application, Library

-----------------------------------------------------------------------------
(* Tokens *)

LEMMA TokenInit == Init => TokenInv
BY DEF Init, TokenInv, NoReply, EmptyOutput

\* The server names, in its answer to a submission, no token but the new one.
LEMMA SubmitToken ==
  ASSUME NEW a \in SubmitAnswers
  PROVE  /\ a.rep.token \in { a.new, NoToken }
         /\ a.new \in Tokens \cup { NoToken }
<1>1. \A r \in { NoReply, Plain("INTERNAL_ERROR", FALSE) } \cup RefusalReplies :
        r.token = NoToken
  BY DEF NoReply, Plain, RefusalReplies
<1>2. \A t \in Tokens :
        \A r \in { NoReply, Plain("INTERNAL_ERROR", FALSE) }
                  \cup QueuedReplies(t) \cup FinalReplies(t) :
          r.token \in { t, NoToken }
  BY DEF NoReply, Plain, QueuedReplies, FinalReplies
<1>3. ASSUME NEW r, r.token = NoToken, a = Ignored(r)
      PROVE  a.rep.token \in { a.new, NoToken } /\ a.new \in Tokens \cup { NoToken }
  BY <1>3 DEF Ignored
<1>4. ASSUME NEW t \in Tokens, NEW s \in { "queued", "ready" }, NEW r,
             r.token \in { t, NoToken }, a = Accepted(t, s, r)
      PROVE  a.rep.token \in { a.new, NoToken } /\ a.new \in Tokens \cup { NoToken }
  BY <1>4 DEF Accepted
<1> DEFINE silent == { NoReply, Plain("INTERNAL_ERROR", FALSE) }
<1>5. CASE \E r \in silent \cup RefusalReplies : a = Ignored(r)
  BY <1>1, <1>3, <1>5
<1>6. CASE \E t \in Tokens : \E r \in silent \cup QueuedReplies(t) : a = Accepted(t, "queued", r)
  <2>1. PICK t \in Tokens : \E r \in silent \cup QueuedReplies(t) : a = Accepted(t, "queued", r)
    BY <1>6
  <2>2. PICK r \in silent \cup QueuedReplies(t) : a = Accepted(t, "queued", r)
    BY <2>1
  <2>3. r.token \in { t, NoToken }
    BY <1>2
  <2> QED BY <1>4, <2>2, <2>3
<1>7. CASE \E t \in Tokens : \E r \in FinalReplies(t) : a = Accepted(t, "ready", r)
  <2>1. PICK t \in Tokens : \E r \in FinalReplies(t) : a = Accepted(t, "ready", r)
    BY <1>7
  <2>2. PICK r \in FinalReplies(t) : a = Accepted(t, "ready", r)
    BY <2>1
  <2>3. r.token \in { t, NoToken }
    BY <1>2
  <2> QED BY <1>4, <2>2, <2>3
<1> QED BY <1>5, <1>6, <1>7, SubmitAnswerCases

\* The answer to a status call names no token.
LEMMA StatusToken ==
  ASSUME TypeOK, NEW t \in Tokens, NEW r \in StatusAnswers(t)
  PROVE  r.token = NoToken
<1>1. srv[t] \in RequestStates
  BY DEF TypeOK
<1>2. \/ r = NoReply \/ r = Plain("INTERNAL_ERROR", FALSE)
      \/ r = Plain("INVALID_REQUEST", FALSE)
      \/ r = Plain("ABORTED", FALSE) \/ r = Plain("ABORTED", TRUE)
      \/ r \in RefusalReplies
      \/ r \in { q \in QueuedReplies(t) : q.token = NoToken }
      \/ r \in { q \in FinalReplies(t) : q.token = NoToken }
  <2>1. CASE srv[t] = "queued"
    BY <2>1 DEF StatusAnswers
  <2>2. CASE srv[t] = "ready"
    BY <2>2 DEF StatusAnswers
  <2>3. CASE srv[t] = "failed"
    BY <2>3 DEF StatusAnswers
  <2>4. CASE srv[t] = "aborted"
    BY <2>4 DEF StatusAnswers
  <2>5. CASE srv[t] = "free"
    BY <2>5 DEF StatusAnswers
  <2> QED BY <1>1, <2>1, <2>2, <2>3, <2>4, <2>5 DEF RequestStates
<1> QED BY <1>2 DEF NoReply, Plain, RefusalReplies

\* No function invents a token: the output keeps the one it has or takes the
\* reply's; a status call keeps it, and what is reported queued has one.
LEMMA OutcomeToken ==
  ASSUME TypeOK, NEW st \in { "SUCCESS", "FAILURE", "QUEUED", "TIMEOUT" }
  PROVE  /\ Outcome(st).token \in { out.token, rep.token }
         /\ stage = "poll" => Outcome(st).token = out.token
         /\ Outcome(st).status = "QUEUED" /\ stage = "submit"
              => Outcome(st).token = rep.token /\ rep.token # NoToken
<1>1. kind \in AllKinds /\ stage \in { "submit", "poll" }
  BY DEF TypeOK
<1>2. \A e : Fail(e).token = out.token /\ Fail(e).status = "FAILURE"
  BY DEF Fail
<1>3. TimedOut.token = out.token /\ TimedOut.status = "TIMEOUT"
  BY DEF TimedOut
<1>4. \A t : Deliver(t).token = t /\ Deliver(t).status = "SUCCESS"
  BY DEF Deliver
<1>5. /\ KeepQueued(rep.token, FALSE).token = rep.token
      /\ KeepQueued(rep.token, rep.files).token = rep.token
      /\ KeepQueued(out.token, FALSE).token = out.token
      /\ KeepQueued(out.token, rep.files).token = out.token
  BY DEF KeepQueued
<1>6. CASE stage = "submit"
  <2>1. CASE kind = "ls"
    <3>1. Outcome(st) = srmv2_ls_async_internal(st)
      BY <1>6, <2>1 DEF Outcome
    <3> QED BY <1>2, <1>3, <1>4, <1>5, <1>6, <3>1 DEF srmv2_ls_async_internal
  <2>2. CASE kind = "put"
    <3>1. Outcome(st) = srmv2_prepare_to_put_async_internal(st)
      BY <1>6, <2>2 DEF Outcome
    <3> QED BY <1>2, <1>3, <1>4, <1>5, <1>6, <3>1
            DEF srmv2_prepare_to_put_async_internal
  <2>3. CASE kind = "get"
    <3>1. Outcome(st) = srmv2_prepare_to_get_async_internal(st)
      BY <1>6, <2>3 DEF Outcome
    <3> QED BY <1>2, <1>3, <1>4, <1>5, <1>6, <3>1
            DEF srmv2_prepare_to_get_async_internal
  <2>4. CASE kind = "bringonline"
    <3>1. Outcome(st) = srmv2_bring_online_async_internal(st)
      BY <1>6, <2>4 DEF Outcome
    <3> QED BY <1>2, <1>3, <1>4, <1>5, <1>6, <3>1
            DEF srmv2_bring_online_async_internal
  <2> QED BY <1>1, <2>1, <2>2, <2>3, <2>4 DEF AllKinds
<1>7. CASE stage = "poll"
  <2>1. \/ Outcome(st) = srmv2_status_of_ls_request_async_internal(st)
        \/ Outcome(st) = srmv2_status_of_put_request_async_internal(st)
        \/ Outcome(st) = srmv2_status_of_get_request_async_internal(st)
        \/ Outcome(st) = srmv2_status_of_bring_online_async_internal(st)
    BY <1>1, <1>7 DEF Outcome, AllKinds
  <2> QED BY <1>2, <1>3, <1>4, <1>5, <1>7, <2>1
          DEF srmv2_status_of_ls_request_async_internal,
              srmv2_status_of_put_request_async_internal,
              srmv2_status_of_get_request_async_internal,
              srmv2_status_of_bring_online_async_internal
<1> QED BY <1>1, <1>6, <1>7

\* No step makes a call poll with a token it was not given.
LEMMA TokenStep == TypeOK /\ TokenInv /\ [Next]_vars => TokenInv'
<1> SUFFICES ASSUME TypeOK, TokenInv, [Next]_vars PROVE TokenInv'
  OBVIOUS
<1>1. ASSUME NEW k \in Kinds, NEW m \in Modes, Begin(k, m),
             pc' = "submit" \/ pc' = "wrapper"
      PROVE  TokenInv'
  BY <1>1 DEF Begin, TokenInv, NoReply, EmptyOutput
<1>2. CASE Call
  BY <1>1, <1>2 DEF Call
<1>3. CASE CallRejected
  BY <1>1, <1>3 DEF CallRejected
<1>4. CASE CallStatus
  BY <1>4 DEF CallStatus, TokenInv, EmptyOutput
<1>5. CASE CallAbort
  BY <1>5 DEF CallAbort, TokenInv, callVars, ghostVars
<1>6. CASE Submit
  <2>1. PICK a \in SubmitAnswers, d \in 0 .. MAX_RPC :
          /\ SoapCall(a, d)
          /\ mine' = IF a.new = NoToken THEN mine ELSE mine \cup { a.new }
    BY <1>6 DEF Submit
  <2>2. a.rep.token \in { a.new, NoToken }
    BY <2>1, SubmitToken
  <2>3. rep'.token \in mine' \cup { NoToken } /\ mine \subseteq mine'
    BY <2>1, <2>2 DEF SoapCall
  <2> QED BY <1>6, <2>1, <2>3 DEF Submit, SoapCall, TokenInv, callVars
<1>7. CASE AskStatus
  <2>1. PICK r \in StatusAnswers(out.token), d \in 0 .. MAX_RPC :
          SoapCall([ srv |-> srv, rep |-> r ], d)
    BY <1>7 DEF AskStatus
  <2>2. r.token = NoToken
    BY <1>7, <2>1, StatusToken DEF AskStatus, TypeOK, TokenInv
  <2>3. rep'.token = NoToken
    BY <2>1, <2>2 DEF SoapCall
  <2> QED BY <1>7, <2>1, <2>3 DEF AskStatus, SoapCall, TokenInv, callVars
<1>8. CASE NoResponse
  BY <1>8 DEF NoResponse, TokenInv, callVars, ghostVars
<1>9. CASE Retry
  <2>1. out'.token = out.token
    BY <1>9 DEF Retry, TypeOK
  <2> QED BY <1>9, <2>1 DEF Retry, TokenInv, TypeOK, callVars, ghostVars
<1>10. CASE Conclude
  <2>1. PICK b \in BackOff :
          /\ b.st # "INTERNAL_ERROR"
          /\ status' = Outcome(b.st).status
          /\ out' = [ token |-> Outcome(b.st).token, code |-> rep.code,
                      files |-> Outcome(b.st).files ]
    BY <1>10 DEF Conclude
  <2>2. b.st \in { "SUCCESS", "FAILURE", "QUEUED", "TIMEOUT" }
    BY <1>10, <2>1, BackOffOutcome DEF Conclude, CallStatuses
  <2>3. /\ out'.token \in { out.token, rep.token }
        /\ stage = "poll" => out'.token = out.token
        /\ status' = "QUEUED" /\ stage = "submit" => out'.token # NoToken
    BY <2>1, <2>2, OutcomeToken
  <2> QED BY <1>10, <2>3 DEF Conclude, TokenInv, TypeOK, callVars, ghostVars
<1>11. ASSUME NEW r, Return(r)
       PROVE  TokenInv'
  BY <1>11 DEF Return, TokenInv, callVars, NoReply
<1>12. CASE ReturnAsync
  BY <1>11, <1>12 DEF ReturnAsync
<1>13. CASE PollAgain
  <2>1. out'.token = out.token
    BY <1>13 DEF PollAgain, EmptyOutput
  <2> QED BY <1>13, <2>1 DEF PollAgain, StillQueued, TokenInv, ghostVars
<1>14. CASE AbortAndReturn
  BY <1>11, <1>14 DEF AbortAndReturn
<1>15. CASE ReturnSync
  BY <1>11, <1>15 DEF ReturnSync
<1>16. CASE ServerStep
  BY <1>16 DEF ServerStep, TokenInv, callVars, clientVars, ghostVars
<1>17. CASE UNCHANGED vars
  BY <1>17 DEF vars, callVars, clientVars, ghostVars, TokenInv
<1> QED BY <1>2, <1>3, <1>4, <1>5, <1>6, <1>7, <1>8, <1>9, <1>10, <1>12, <1>13,
           <1>14, <1>15, <1>16, <1>17 DEF Next, Application, Library

\* The variables keep their types, the server's table being read at real tokens
\* only: TypeOK and TokenInv are inductive together.
THEOREM TypeCorrect == Spec => [](TypeOK /\ TokenInv)
<1>1. Init => TypeOK /\ TokenInv
  BY TypeInit, TokenInit
<1>2. TypeOK /\ TokenInv /\ [Next]_vars => (TypeOK /\ TokenInv)'
  BY TypeStep, TokenStep
<1> QED BY <1>1, <1>2, PTL DEF Spec

\* Polling and aborting always use a token the server gave this very call.
THEOREM TokenSafety == Spec => []TokenWhilePolling
<1>1. TypeOK /\ TokenInv => TokenWhilePolling
  BY DEF TypeOK, TokenInv, TokenWhilePolling
<1> QED BY <1>1, TypeCorrect, PTL

-----------------------------------------------------------------------------
(* Deadlines *)

\* A wait is only granted before the deadline, and the OLD logic wakes before it.
LEMMA WaitInTime ==
  ASSUME NEW c \in InternalContexts, NEW t \in Nat,
         NEW o \in wait_switch_auto(LOGIC, c, t), o.ok
  PROVE  /\ t < c.end
         /\ LOGIC = "OLD" => o.now < c.end
<1> USE DEF InternalContexts
<1>0. c.end \in Nat /\ c.wait \in Nat /\ c.est \in Int /\ c.est >= -1
  OBVIOUS
<1>1. CASE LOGIC = "OLD"
  <2> DEFINE next == [ c EXCEPT !.attempt = @ + 1 ]
  <2>1. next \in InternalContexts /\ next.end = c.end
    OBVIOUS
  <2>2. \/ \E w \in Int : w >= 1 /\ o = SleepOrLastChance(next, t, w)
        \/ o = [ ok |-> FALSE, now |-> t, ic |-> c ]
        \/ o = SleepOrLastChance(c, t, c.est) /\ (c.est >= 1 \/ c.est >= c.end - t)
    BY <1>1 DEF wait_switch_auto, wait_for_new_attempt
  <2>3. ASSUME NEW d \in InternalContexts, d.end = c.end, NEW w \in Int,
               w >= 1 \/ w >= c.end - t, o = SleepOrLastChance(d, t, w)
        PROVE  t < c.end /\ o.now < c.end
    BY <1>0, <2>3 DEF SleepOrLastChance
  <2> HIDE DEF next
  <2>4. CASE \E w \in Int : w >= 1 /\ o = SleepOrLastChance(next, t, w)
    BY <2>1, <2>3, <2>4
  <2>5. CASE o = [ ok |-> FALSE, now |-> t, ic |-> c ]
    BY <2>5
  <2>6. CASE o = SleepOrLastChance(c, t, c.est) /\ (c.est >= 1 \/ c.est >= c.end - t)
    BY <1>0, <2>3, <2>6
  <2> QED BY <2>2, <2>4, <2>5, <2>6
<1>2. CASE LOGIC # "OLD"
  BY <1>0, <1>2 DEF wait_switch_auto, wait_for_new_attempt_min_max_ng
<1> QED BY <1>1, <1>2

\* A reply that sends the thread back to the server arrived before the deadline.
LEMMA BackOffInTime ==
  ASSUME TypeOK, rep.code # NoStatus, NEW b \in BackOff,
         b.st \in { "QUEUED", "INTERNAL_ERROR" }
  PROVE  /\ now < ic.end
         /\ LOGIC = "OLD" => b.now < b.ic.end
<1>1. Estimated \in InternalContexts /\ Estimated.end = ic.end
  BY DEF TypeOK, Estimated, set_estimated_wait_time, InternalContexts, Replies
<1>2. now \in Nat
  BY DEF TypeOK
<1>3. CASE ReplyClass(rep.code) \in WaitingClasses
  <2>1. PICK o \in wait_switch_auto(LOGIC, Estimated, now) :
          b = [ st |-> IF o.ok THEN ReplyClass(rep.code) ELSE "TIMEOUT",
                now |-> o.now, ic |-> o.ic ]
    BY <1>3 DEF BackOff
  <2>2. b.st = (IF o.ok THEN ReplyClass(rep.code) ELSE "TIMEOUT")
        /\ b.now = o.now /\ b.ic = o.ic
    BY <2>1
  <2>3. o.ok
    BY <2>2
  <2>4. now < ic.end /\ (LOGIC = "OLD" => o.now < ic.end)
    BY <1>1, <1>2, <2>3, WaitInTime
  <2>5. o.ic.end = ic.end
    BY <1>1, <1>2, WaitOutcome
  <2> QED BY <2>2, <2>4, <2>5
<1>4. CASE ReplyClass(rep.code) \notin WaitingClasses
  <2>1. b.st = ReplyClass(rep.code)
    BY <1>4 DEF BackOff
  <2> QED BY <1>4, <2>1 DEF WaitingClasses
<1> QED BY <1>3, <1>4

\* A result says what back_off_logic said: queued for queued, timeout for
\* timeout; a delivery succeeds; whatever is not a success or queued returns -1.
LEMMA OutcomeKind ==
  ASSUME TypeOK, NEW st \in { "SUCCESS", "FAILURE", "QUEUED", "TIMEOUT" }
  PROVE  \/ Outcome(st) = TimedOut /\ st = "TIMEOUT"
         \/ Outcome(st) = Fail("EINVAL")
         \/ Outcome(st) = Fail(CallErr)
         \/ st \in { "SUCCESS", "FAILURE" } /\ rep.files /\ Outcome(st) = Deliver(out.token)
         \/ st \in { "SUCCESS", "FAILURE" } /\ rep.files /\ Outcome(st) = Deliver(rep.token)
         \/ st = "QUEUED" /\ Outcome(st) = KeepQueued(out.token, FALSE)
         \/ st = "QUEUED" /\ Outcome(st) = KeepQueued(out.token, rep.files)
         \/ st = "QUEUED" /\ Outcome(st) = KeepQueued(rep.token, FALSE)
         \/ st = "QUEUED" /\ Outcome(st) = KeepQueued(rep.token, rep.files)
<1>1. kind \in AllKinds /\ stage \in { "submit", "poll" }
  BY DEF TypeOK
<1>2. statuscode2errno("SPACE_LIFETIME_EXPIRED") = "EINVAL"
  BY DEF statuscode2errno
<1>3. CASE stage = "submit"
  <2>1. \/ Outcome(st) = srmv2_ls_async_internal(st)
        \/ Outcome(st) = srmv2_prepare_to_put_async_internal(st)
        \/ Outcome(st) = srmv2_prepare_to_get_async_internal(st)
        \/ Outcome(st) = srmv2_bring_online_async_internal(st)
    BY <1>1, <1>3 DEF Outcome, AllKinds
  <2> QED BY <2>1 DEF srmv2_ls_async_internal, srmv2_prepare_to_put_async_internal,
        srmv2_prepare_to_get_async_internal, srmv2_bring_online_async_internal
<1>4. CASE stage = "poll"
  <2>1. \/ Outcome(st) = srmv2_status_of_ls_request_async_internal(st)
        \/ Outcome(st) = srmv2_status_of_put_request_async_internal(st)
        \/ Outcome(st) = srmv2_status_of_get_request_async_internal(st)
        \/ Outcome(st) = srmv2_status_of_bring_online_async_internal(st)
    BY <1>1, <1>4 DEF Outcome, AllKinds
  <2> QED BY <1>2, <2>1
          DEF srmv2_status_of_ls_request_async_internal,
              srmv2_status_of_put_request_async_internal,
              srmv2_status_of_get_request_async_internal,
              srmv2_status_of_bring_online_async_internal
<1> QED BY <1>1, <1>3, <1>4

\* Only a granted wait on a queued reply leaves the request queued.
LEMMA OutcomeQueued ==
  ASSUME TypeOK, NEW st \in { "SUCCESS", "FAILURE", "QUEUED", "TIMEOUT" },
         Outcome(st).status = "QUEUED"
  PROVE  st = "QUEUED"
BY OutcomeKind DEF TimedOut, Fail, Deliver

\* Only a final reply makes a call succeed.
LEMMA OutcomeSuccess ==
  ASSUME TypeOK, NEW st \in { "SUCCESS", "FAILURE", "QUEUED", "TIMEOUT" },
         Outcome(st).status = "SUCCESS"
  PROVE  st \in { "SUCCESS", "FAILURE" }
BY OutcomeKind DEF TimedOut, Fail, KeepQueued

\* The thread is on its way to the server.
BoundForServer ==
  \/ pc \in { "submit", "status" }
  \/ pc = "wrapper" /\ status = "QUEUED"

\* A late call is the last one: it finds the deadline passed.
LateInv ==
  /\ late <= IF LOGIC = "OLD" THEN 0 ELSE 1
  /\ BoundForServer => late = 0
  /\ BoundForServer /\ LOGIC = "OLD" => now < ic.end
  /\ pc = "backoff" /\ late # 0 => now >= ic.end

\* No call is late before the first one.
LEMMA LateInit == Init => LateInv
BY DEF Init, LateInv, BoundForServer

\* A call made after the deadline sends no thread back to the server: each step
\* keeps LateInv.
LEMMA LateStep == TypeOK /\ LateInv /\ [Next]_vars => LateInv'
<1> SUFFICES ASSUME TypeOK, LateInv, [Next]_vars PROVE LateInv'
  OBVIOUS
<1> USE DEF LateInv, BoundForServer
<1>0. late \in Nat /\ now \in Nat /\ ic.end \in Nat
  BY DEF TypeOK, InternalContexts
<1>1. back_off_logic_init(TIMEOUT).end = TIMEOUT
  BY DEF back_off_logic_init
<1>2. CASE Call
  BY <1>1, <1>2 DEF Call, Begin
<1>3. CASE CallRejected
  BY <1>1, <1>3 DEF CallRejected, Begin
<1>4. CASE CallStatus
  BY <1>1, <1>4 DEF CallStatus
<1>5. CASE CallAbort
  BY <1>5 DEF CallAbort, callVars, ghostVars
<1>6. ASSUME NEW a, NEW d \in 0 .. MAX_RPC, SoapCall(a, d),
             pc \in { "submit", "status" }
      PROVE  LateInv'
  BY <1>0, <1>6 DEF SoapCall, callVars
<1>7. CASE Submit
  BY <1>6, <1>7 DEF Submit
<1>8. CASE AskStatus
  BY <1>6, <1>8 DEF AskStatus
<1>9. CASE NoResponse
  BY <1>9 DEF NoResponse, callVars, ghostVars
<1>10. CASE Retry
  <2>1. PICK b \in BackOff : b.st = "INTERNAL_ERROR" /\ now' = b.now /\ ic' = b.ic
    BY <1>10 DEF Retry
  <2>2. now < ic.end /\ (LOGIC = "OLD" => now' < ic'.end)
    BY <1>10, <2>1, BackOffInTime DEF Retry
  <2> QED BY <1>0, <1>10, <2>2 DEF Retry, callVars, ghostVars
<1>11. CASE Conclude
  <2>1. PICK b \in BackOff :
          /\ b.st # "INTERNAL_ERROR" /\ now' = b.now /\ ic' = b.ic
          /\ status' = Outcome(b.st).status
    BY <1>11 DEF Conclude
  <2>2. b.st \in { "SUCCESS", "FAILURE", "QUEUED", "TIMEOUT" }
    BY <1>11, <2>1, BackOffOutcome DEF Conclude, CallStatuses
  <2>3. status' = "QUEUED" => b.st = "QUEUED"
    BY <2>1, <2>2, OutcomeQueued
  <2>4. status' = "QUEUED" => now < ic.end /\ (LOGIC = "OLD" => now' < ic'.end)
    BY <1>11, <2>1, <2>3, BackOffInTime DEF Conclude
  <2> QED BY <1>0, <1>11, <2>4 DEF Conclude, callVars, ghostVars
<1>12. ASSUME NEW r, Return(r)
       PROVE  LateInv'
  BY <1>12 DEF Return, callVars
<1>13. CASE ReturnAsync
  BY <1>12, <1>13 DEF ReturnAsync
<1>14. CASE PollAgain
  <2>1. ic'.end = ic.end
    BY <1>14 DEF PollAgain, TypeOK, InternalContexts
  <2> QED BY <1>0, <1>14, <2>1 DEF PollAgain, StillQueued, ghostVars
<1>15. CASE AbortAndReturn
  BY <1>12, <1>15 DEF AbortAndReturn
<1>16. CASE ReturnSync
  BY <1>12, <1>16 DEF ReturnSync
<1>17. CASE ServerStep
  BY <1>17 DEF ServerStep, callVars, clientVars, ghostVars
<1>18. CASE UNCHANGED vars
  BY <1>18 DEF vars, callVars, clientVars, ghostVars
<1> QED BY <1>2, <1>3, <1>4, <1>5, <1>7, <1>8, <1>9, <1>10, <1>11, <1>13, <1>14,
           <1>15, <1>16, <1>17, <1>18 DEF Next, Application, Library

\* No call asks the server twice after its deadline, none does so under OLD.
THEOREM DeadlineKept == Spec => []OneLateCall
<1>1. Init => LateInv
  BY LateInit
<1>2. TypeOK /\ LateInv /\ [Next]_vars => LateInv'
  BY LateStep
<1>3. LateInv => OneLateCall
  BY DEF LateInv, OneLateCall
<1> QED BY <1>1, <1>2, <1>3, TypeCorrect, PTL DEF Spec

-----------------------------------------------------------------------------
(* errno *)

\* The codes srm_call_err turns into errno 0 although the call failed.
Misread == { "FILE_PINNED", "SPACE_AVAILABLE", "RELEASED" }

\* Back in the wrapper, -1 comes with an errno, a timeout with ETIMEDOUT, and
\* every status that is neither a success nor queued with -1.
ErrnoInv ==
  /\ pc \in { "wrapper", "idle" } /\ ret = -1 /\ out.code \notin Misread => errno # "OK"
  /\ pc = "wrapper" /\ status = "TIMEOUT" => errno = "ETIMEDOUT"
  /\ pc = "wrapper" /\ status \notin { "SUCCESS", "QUEUED" } => ret = -1
  /\ pc = "wrapper" /\ status = "QUEUED" => ret >= 0
  /\ TimeoutErrno

\* Nothing has failed yet.
LEMMA ErrnoInit == Init => ErrnoInv
BY DEF Init, ErrnoInv, TimeoutErrno

\* The same for the result of an internal function.
LEMMA OutcomeErrno ==
  ASSUME TypeOK, rep.code # NoStatus,
         NEW st \in { "SUCCESS", "FAILURE", "QUEUED", "TIMEOUT" }
  PROVE  LET r == Outcome(st)
         IN  /\ r.ret = -1 /\ rep.code \notin Misread => r.errno # "OK"
             /\ r.status = "TIMEOUT" => r.errno = "ETIMEDOUT"
             /\ r.status \notin { "SUCCESS", "QUEUED" } => r.ret = -1
             /\ r.status = "QUEUED" => r.ret >= 0
<1>1. rep.code \in StatusCodes
  BY DEF TypeOK, Replies
<1>2. rep.code \notin Misread => CallErr # "OK"
  BY <1>1, CallErrno DEF CallErr, Misread
<1> QED BY <1>2, OutcomeKind DEF TimedOut, Fail, Deliver, KeepQueued

\* An abort that was obeyed leaves errno alone and nothing in the queue.
LEMMA AbortOutcome ==
  ASSUME NEW t, NEW a \in AbortAnswers(t)
  PROVE  /\ a.errno \in { "ECOMM", "EINVAL", errno }
         /\ a.obeyed => a.srv = [ srv EXCEPT ![t] = IF @ = "queued" THEN "aborted" ELSE @ ]
<1> DEFINE gone == [ srv EXCEPT ![t] = IF @ = "queued" THEN "aborted" ELSE @ ]
<1>1. \/ a \in [ srv : { srv, gone }, errno : { "ECOMM", "EINVAL" }, obeyed : { FALSE } ]
      \/ a = [ srv |-> gone, errno |-> errno, obeyed |-> TRUE ]
  BY DEF AbortAnswers
<1> HIDE DEF gone
<1>2. CASE a \in [ srv : { srv, gone }, errno : { "ECOMM", "EINVAL" }, obeyed : { FALSE } ]
  <2>1. a.errno \in { "ECOMM", "EINVAL" } /\ a.obeyed = FALSE
    BY <1>2
  <2> QED BY <2>1
<1>3. CASE a = [ srv |-> gone, errno |-> errno, obeyed |-> TRUE ]
  <2>1. a.errno = errno /\ a.srv = gone
    BY <1>3
  <2> QED BY <2>1 DEF gone
<1> QED BY <1>1, <1>2, <1>3

\* Each step keeps ErrnoInv: whoever sets the result to -1 sets errno too.
LEMMA ErrnoStep == TypeOK /\ ErrnoInv /\ [Next]_vars => ErrnoInv'
<1> SUFFICES ASSUME TypeOK, ErrnoInv, [Next]_vars PROVE ErrnoInv'
  OBVIOUS
<1> USE DEF ErrnoInv, TimeoutErrno
<1>1. CASE Call
  BY <1>1 DEF Call, Begin
<1>2. CASE CallRejected
  BY <1>2 DEF CallRejected, Begin
<1>3. CASE CallStatus
  BY <1>3 DEF CallStatus
<1>4. CASE CallAbort
  <2>1. errno' \in { "ECOMM", "EINVAL", errno }
    BY <1>4, AbortOutcome DEF CallAbort
  <2> QED BY <1>4, <2>1 DEF CallAbort, callVars, ghostVars
<1>5. CASE Submit
  BY <1>5 DEF Submit, SoapCall
<1>6. CASE AskStatus
  BY <1>6 DEF AskStatus, SoapCall
<1>7. CASE NoResponse
  BY <1>7 DEF NoResponse
<1>8. CASE Retry
  BY <1>8 DEF Retry
<1>9. CASE Conclude
  <2>1. PICK b \in BackOff :
          /\ b.st # "INTERNAL_ERROR"
          /\ status' = Outcome(b.st).status /\ ret' = Outcome(b.st).ret
          /\ errno' = Outcome(b.st).errno
          /\ out' = [ token |-> Outcome(b.st).token, code |-> rep.code,
                      files |-> Outcome(b.st).files ]
    BY <1>9 DEF Conclude
  <2>2. b.st \in { "SUCCESS", "FAILURE", "QUEUED", "TIMEOUT" }
    BY <1>9, <2>1, BackOffOutcome DEF Conclude, CallStatuses
  <2>3. out'.code = rep.code /\ rep.code # NoStatus
    BY <1>9, <2>1 DEF Conclude
  <2> QED BY <1>9, <2>1, <2>2, <2>3, OutcomeErrno DEF Conclude
<1>10. CASE ReturnAsync
  BY <1>10 DEF ReturnAsync, Return, callVars
<1>11. CASE PollAgain
  BY <1>11 DEF PollAgain
<1>12. CASE AbortAndReturn
  <2>1. PICK a \in AbortAnswers(out.token) :
          errno' = IF kind \in { "put", "get" } THEN "ETIMEDOUT" ELSE a.errno
    BY <1>12 DEF AbortAndReturn
  <2>2. a.errno \in { "ECOMM", "EINVAL", errno }
    BY <2>1, AbortOutcome
  <2>3. ret = -1
    BY <1>12 DEF AbortAndReturn, GiveUp, StillQueued
  <2> QED BY <1>12, <2>1, <2>2, <2>3 DEF AbortAndReturn, Return, callVars
<1>13. CASE ReturnSync
  BY <1>13 DEF ReturnSync, Return, callVars, StillQueued
<1>14. CASE ServerStep
  BY <1>14 DEF ServerStep, callVars, clientVars
<1>15. CASE UNCHANGED vars
  BY <1>15 DEF vars, callVars, clientVars
<1> QED BY <1>1, <1>2, <1>3, <1>4, <1>5, <1>6, <1>7, <1>8, <1>9, <1>10, <1>11,
           <1>12, <1>13, <1>14, <1>15 DEF Next, Application, Library

\* A call that fails leaves an errno, the three misread codes apart.
THEOREM ErrnoOnFailure == Spec => []FailureHasErrno
<1>1. ErrnoInv => FailureHasErrno
  BY DEF ErrnoInv, FailureHasErrno, Misread
<1>2. TypeOK /\ ErrnoInv /\ [Next]_vars => ErrnoInv'
  BY ErrnoStep
<1> QED BY <1>1, <1>2, ErrnoInit, TypeCorrect, PTL DEF Spec

\* A put or get that timed out says ETIMEDOUT, whatever the abort left behind.
THEOREM ErrnoOnTimeout == Spec => []TimeoutErrno
<1>1. ErrnoInv => TimeoutErrno
  BY DEF ErrnoInv
<1>2. TypeOK /\ ErrnoInv /\ [Next]_vars => ErrnoInv'
  BY ErrnoStep
<1> QED BY <1>1, <1>2, ErrnoInit, TypeCorrect, PTL DEF Spec

-----------------------------------------------------------------------------
(* Requests left in the server's queue *)

\* A final answer to a status call is about a request out of the queue.
LEMMA StatusSettled ==
  ASSUME TypeOK, NEW t \in Tokens, NEW r \in StatusAnswers(t),
         r.code # NoStatus, ReplyClass(r.code) \in { "SUCCESS", "FAILURE" }
  PROVE  srv[t] # "queued"
<1> SUFFICES ASSUME srv[t] = "queued" PROVE FALSE
  OBVIOUS
<1>1. \/ r = NoReply \/ r = Plain("INTERNAL_ERROR", FALSE)
      \/ r \in { q \in QueuedReplies(t) : q.token = NoToken }
  BY DEF StatusAnswers
<1>2. r.code \in { NoStatus, "INTERNAL_ERROR", "REQUEST_QUEUED", "REQUEST_INPROGRESS" }
  BY <1>1 DEF NoReply, Plain, QueuedReplies
<1> QED BY <1>2 DEF ReplyClass

\* A submission the server named the token of is queued, or answered for good.
LEMMA SubmitSettled ==
  ASSUME TypeOK, NEW a \in SubmitAnswers, a.new # NoToken, a.new = a.rep.token
  PROVE  \/ ReplyClass(a.rep.code) = "QUEUED"
         \/ ReplyClass(a.rep.code) = "SUCCESS" /\ a.srv[a.new] # "queued"
<1> DEFINE silent == { NoReply, Plain("INTERNAL_ERROR", FALSE) }
<1>1. CASE \E r \in silent \cup RefusalReplies : a = Ignored(r)
  BY <1>1 DEF Ignored
<1>2. CASE \E t \in Tokens : \E r \in silent \cup QueuedReplies(t) : a = Accepted(t, "queued", r)
  <2>1. PICK t \in Tokens : \E r \in silent \cup QueuedReplies(t) : a = Accepted(t, "queued", r)
    BY <1>2
  <2>2. PICK r \in silent \cup QueuedReplies(t) : a = Accepted(t, "queued", r)
    BY <2>1
  <2>3. a.rep = r /\ a.new = t
    BY <2>2 DEF Accepted
  <2>4. r \in QueuedReplies(t)
    BY <2>3 DEF NoReply, Plain
  <2>5. r.code \in { "REQUEST_QUEUED", "REQUEST_INPROGRESS" }
    BY <2>4 DEF QueuedReplies
  <2> QED BY <2>3, <2>5 DEF ReplyClass
<1>3. CASE \E t \in Tokens : \E r \in FinalReplies(t) : a = Accepted(t, "ready", r)
  <2>1. PICK t \in Tokens : \E r \in FinalReplies(t) : a = Accepted(t, "ready", r)
    BY <1>3
  <2>2. PICK r \in FinalReplies(t) : a = Accepted(t, "ready", r)
    BY <2>1
  <2>3. a.rep = r /\ a.new = t /\ a.srv[t] = "ready"
    BY <2>2 DEF Accepted, TypeOK
  <2>4. r.code \in { "SUCCESS", "PARTIAL_SUCCESS" }
    BY DEF FinalReplies
  <2> QED BY <2>3, <2>4 DEF ReplyClass
<1> QED BY <1>1, <1>2, <1>3, SubmitAnswerCases

\* While every answer names the token it is about, a synchronous call has at
\* most one request at the server: the one it polls, or was just answered about.
QueueInv ==
  /\ mode = "sync" /\ clean =>
       /\ pc = "submit" => mine = {}
       /\ pc = "backoff" /\ stage = "submit" =>
            \A t \in mine :
              /\ t = rep.token
              /\ \/ ReplyClass(rep.code) = "QUEUED"
                 \/ ReplyClass(rep.code) = "SUCCESS" /\ srv[t] # "queued"
       /\ pc = "wrapper" /\ stage = "submit" =>
            \A t \in mine : /\ status = "QUEUED" => t = out.token
                            /\ status = "SUCCESS" => srv[t] # "queued"
       /\ pc # "idle" /\ stage = "poll" => \A t \in mine : t = out.token
       /\ /\ pc = "backoff" /\ stage = "poll" /\ rep.code # NoStatus
          /\ ReplyClass(rep.code) \in { "SUCCESS", "FAILURE" }
          => srv[out.token] # "queued"
       /\ pc = "wrapper" /\ stage = "poll" /\ status = "SUCCESS" => srv[out.token] # "queued"
  /\ NothingLeftQueued

\* Nothing is queued yet.
LEMMA QueueInit == Init => QueueInv
BY DEF Init, QueueInv, NothingLeftQueued

\* Each step keeps QueueInv: the token table and the call agree on what is queued.
LEMMA QueueStep ==
  TypeOK /\ TokenInv /\ ErrnoInv /\ QueueInv /\ [Next]_vars => QueueInv'
<1> SUFFICES ASSUME TypeOK, TokenInv, ErrnoInv, QueueInv, [Next]_vars PROVE QueueInv'
  OBVIOUS
<1> USE DEF QueueInv, NothingLeftQueued
<1>0. pc = "submit" => stage = "submit"
  BY DEF TokenInv
<1>1. CASE Call
  BY <1>1 DEF Call, Begin
<1>2. CASE CallRejected
  BY <1>2 DEF CallRejected, Begin
<1>3. CASE CallStatus
  BY <1>3 DEF CallStatus
<1>4. CASE CallAbort
  BY <1>4 DEF CallAbort, callVars
<1>5. CASE Submit
  <2>1. PICK a \in SubmitAnswers, d \in 0 .. MAX_RPC :
          /\ SoapCall(a, d)
          /\ mine' = IF a.new = NoToken THEN mine ELSE mine \cup { a.new }
          /\ clean' = (clean /\ a.new = a.rep.token)
    BY <1>5 DEF Submit
  <2>2. /\ pc' = "backoff" /\ stage' = "submit" /\ mode' = mode
        /\ rep' = a.rep /\ srv' = a.srv
    BY <1>0, <1>5, <2>1 DEF Submit, SoapCall, callVars
  <2>3. ASSUME mode' = "sync", clean', NEW t \in mine'
        PROVE  /\ t = rep'.token
               /\ \/ ReplyClass(rep'.code) = "QUEUED"
                  \/ ReplyClass(rep'.code) = "SUCCESS" /\ srv'[t] # "queued"
    <3>1. clean /\ mine = {} /\ a.new = a.rep.token
      BY <1>5, <2>1, <2>2, <2>3 DEF Submit
    <3>2. a.new # NoToken /\ t = a.new
      BY <2>1, <3>1
    <3> QED BY <2>2, <3>1, <3>2, SubmitSettled
  <2> QED BY <2>2, <2>3
<1>6. CASE AskStatus
  <2>1. PICK r \in StatusAnswers(out.token), d \in 0 .. MAX_RPC :
          SoapCall([ srv |-> srv, rep |-> r ], d)
    BY <1>6 DEF AskStatus
  <2>2. /\ pc' = "backoff" /\ stage' = "poll" /\ stage = "poll" /\ mode' = mode
        /\ rep' = r /\ srv' = srv /\ out' = out /\ mine' = mine /\ clean' = clean
    BY <1>6, <2>1 DEF AskStatus, SoapCall, callVars, TokenInv
  <2>3. out.token \in Tokens
    BY <1>6, <2>2 DEF AskStatus, TokenInv, TypeOK
  <2>4. r.code # NoStatus /\ ReplyClass(r.code) \in { "SUCCESS", "FAILURE" }
        => srv[out.token] # "queued"
    BY <2>3, StatusSettled
  <2> QED BY <1>6, <2>2, <2>4 DEF AskStatus
<1>7. CASE NoResponse
  BY <1>7 DEF NoResponse, callVars, ghostVars
<1>8. CASE Retry
  <2>1. PICK b \in BackOff : b.st = "INTERNAL_ERROR"
    BY <1>8 DEF Retry
  <2>2. ReplyClass(rep.code) = "INTERNAL_ERROR"
    BY <1>8, <2>1, BackOffOutcome DEF Retry
  <2>3. stage = "submit" /\ mode = "sync" /\ clean => mine = {}
    BY <1>8, <2>2 DEF Retry
  <2>4. out'.token = out.token
    BY <1>8 DEF Retry, TypeOK
  <2> QED BY <1>8, <2>3, <2>4 DEF Retry, callVars, ghostVars, TypeOK
<1>9. CASE Conclude
  <2>1. PICK b \in BackOff :
          /\ b.st # "INTERNAL_ERROR"
          /\ status' = Outcome(b.st).status
          /\ out' = [ token |-> Outcome(b.st).token, code |-> rep.code,
                      files |-> Outcome(b.st).files ]
    BY <1>9 DEF Conclude
  <2>2. b.st \in { "SUCCESS", "FAILURE", "QUEUED", "TIMEOUT" }
    BY <1>9, <2>1, BackOffOutcome DEF Conclude, CallStatuses
  <2>3. /\ stage = "poll" => out'.token = out.token
        /\ status' = "QUEUED" /\ stage = "submit" => out'.token = rep.token
    BY <2>1, <2>2, OutcomeToken
  <2>4. status' = "SUCCESS" => b.st \in { "SUCCESS", "FAILURE" }
    BY <2>1, <2>2, OutcomeSuccess
  <2>5. status' = "SUCCESS" => ReplyClass(rep.code) \in { "SUCCESS", "FAILURE" }
    BY <1>9, <2>1, <2>4, BackOffOutcome DEF Conclude
  <2>6. /\ pc = "backoff" /\ rep.code # NoStatus /\ pc' = "wrapper"
        /\ stage' = stage /\ mode' = mode /\ mine' = mine /\ clean' = clean /\ srv' = srv
    BY <1>9 DEF Conclude, callVars, ghostVars
  <2> QED BY <2>3, <2>5, <2>6
<1>10. CASE ReturnAsync
  BY <1>10 DEF ReturnAsync, Return, callVars
<1>11. CASE PollAgain
  <2>1. out'.token = out.token
    BY <1>11 DEF PollAgain, EmptyOutput
  <2> QED BY <1>11, <2>1 DEF PollAgain, StillQueued, ghostVars, TypeOK
<1>12. CASE AbortAndReturn
  <2>1. PICK a \in AbortAnswers(out.token) :
          srv' = a.srv /\ clean' = (clean /\ a.obeyed)
    BY <1>12 DEF AbortAndReturn
  <2>2. /\ pc = "wrapper" /\ stage = "poll" /\ mode = "sync" /\ mine' = mine
        /\ pc' = "idle"
    BY <1>12 DEF AbortAndReturn, GiveUp, Return
  <2>3. out.token \in Tokens /\ srv \in [ Tokens -> RequestStates ]
    BY <2>2 DEF TokenInv, TypeOK
  <2>4. clean' => srv'[out.token] # "queued"
    <3> DEFINE gone == [ srv EXCEPT ![out.token] = IF @ = "queued" THEN "aborted" ELSE @ ]
    <3>1. a.obeyed => a.srv = gone
      BY <2>1, AbortOutcome
    <3>2. gone[out.token] # "queued"
      BY <2>3
    <3> QED BY <2>1, <3>1, <3>2
  <2> QED BY <2>1, <2>2, <2>4
<1>13. CASE ReturnSync
  <2>1. ret' >= 0 => status = "SUCCESS"
    BY <1>13 DEF ReturnSync, Return
  <2>2. stage = "poll" => status \notin { "TIMEOUT" }
    BY <1>13 DEF ReturnSync, GiveUp, ErrnoInv
  <2>3. stage = "poll" /\ kind = "bringonline" => status # "FAILURE"
    BY <1>13 DEF ReturnSync, GiveUp, ErrnoInv
  <2>4. stage \in { "submit", "poll" }
    BY DEF TypeOK
  <2> QED BY <1>13, <2>1, <2>2, <2>3, <2>4 DEF ReturnSync, Return, callVars
<1>14. CASE ServerStep
  <2>1. \A t \in Tokens : srv'[t] = "queued" => srv[t] = "queued"
    BY <1>14 DEF ServerStep, TypeOK
  <2>2. mine \subseteq Tokens /\ (stage = "poll" /\ pc # "idle" => out.token \in Tokens)
    BY DEF TypeOK, TokenInv
  <2> QED BY <1>14, <2>1, <2>2 DEF ServerStep, callVars, clientVars, ghostVars
<1>15. CASE UNCHANGED vars
  BY <1>15 DEF vars, callVars, clientVars, ghostVars
<1> QED BY <1>1, <1>2, <1>3, <1>4, <1>5, <1>6, <1>7, <1>8, <1>9, <1>10, <1>11,
           <1>12, <1>13, <1>14, <1>15 DEF Next, Application, Library

\* A synchronous call that succeeded, or gave up polling, left nothing queued, as
\* far as the server named its tokens and obeyed the abort.
THEOREM QueueLeftEmpty == Spec => []NothingLeftQueued
<1>1. QueueInv => NothingLeftQueued
  BY DEF QueueInv
<1>2. TypeOK /\ ErrnoInv /\ [Next]_vars => ErrnoInv'
  BY ErrnoStep
<1>3. TypeOK /\ TokenInv /\ ErrnoInv /\ QueueInv /\ [Next]_vars => QueueInv'
  BY QueueStep
<1> QED BY <1>1, <1>2, <1>3, ErrnoInit, QueueInit, TypeCorrect, PTL DEF Spec

-----------------------------------------------------------------------------
(* Refinement of SrmCall *)

\* How an internal function can come back to its wrapper.
Rejected == ret = -1 /\ out.files = FALSE /\ status # "QUEUED"
Served   == /\ ret = 1 /\ out.files = TRUE /\ status = "SUCCESS"
            /\ ReplyClass(out.code) # "QUEUED"
Waiting  == /\ ret \in { 0, 1 } /\ out.token # NoToken /\ status = "QUEUED"
            /\ ReplyClass(out.code) = "QUEUED"

\* Nothing is handed over, and no token learnt, before the switch is taken.
CallInv ==
  /\ pc \in { "submit", "status", "backoff" } => out.files = FALSE
  /\ pc \in { "submit", "backoff" } /\ stage = "submit" => out.token = NoToken
  /\ pc = "wrapper" => Rejected \/ Served \/ Waiting

\* The invariant holds before the first call.
LEMMA CallInit == Init => CallInv
BY DEF Init, CallInv

\* An internal function comes back in one of three ways only.
LEMMA OutcomeCall ==
  ASSUME TypeOK, NEW st \in { "SUCCESS", "FAILURE", "QUEUED", "TIMEOUT" }
  PROVE  LET r == Outcome(st)
         IN  \/ r.ret = -1 /\ r.files = FALSE /\ r.status # "QUEUED"
             \/ /\ r.ret = 1 /\ r.files = TRUE /\ r.status = "SUCCESS"
                /\ st \in { "SUCCESS", "FAILURE" }
             \/ r.ret \in { 0, 1 } /\ r.status = "QUEUED" /\ st = "QUEUED"
BY OutcomeKind DEF TimedOut, Fail, Deliver, KeepQueued

\* Each step keeps CallInv.
LEMMA CallStep == TypeOK /\ TokenInv /\ CallInv /\ [Next]_vars => CallInv'
<1> SUFFICES ASSUME TypeOK, TokenInv, CallInv, [Next]_vars PROVE CallInv'
  OBVIOUS
<1> USE DEF CallInv, Rejected, Served, Waiting
<1>1. EmptyOutput.files = FALSE /\ EmptyOutput.token = NoToken
  BY DEF EmptyOutput
<1>2. CASE Call
  BY <1>1, <1>2 DEF Call, Begin
<1>3. CASE CallRejected
  BY <1>1, <1>3 DEF CallRejected, Begin
<1>4. CASE CallStatus
  <2>1. out'.files = FALSE
    BY <1>4 DEF CallStatus, EmptyOutput
  <2> QED BY <1>4, <2>1 DEF CallStatus
<1>5. CASE CallAbort
  BY <1>5 DEF CallAbort, callVars
<1>6. CASE Submit
  BY <1>6 DEF Submit, SoapCall, callVars
<1>7. CASE AskStatus
  BY <1>7 DEF AskStatus, SoapCall, callVars, TokenInv
<1>8. CASE NoResponse
  BY <1>8 DEF NoResponse, callVars
<1>9. CASE Retry
  <2>1. out'.files = out.files /\ out'.token = out.token
    BY <1>9 DEF Retry, TypeOK
  <2> QED BY <1>9, <2>1 DEF Retry, callVars
<1>10. CASE Conclude
  <2>1. PICK b \in BackOff :
          /\ b.st # "INTERNAL_ERROR"
          /\ status' = Outcome(b.st).status /\ ret' = Outcome(b.st).ret
          /\ out' = [ token |-> Outcome(b.st).token, code |-> rep.code,
                      files |-> Outcome(b.st).files ]
    BY <1>10 DEF Conclude
  <2>2. /\ b.st \in { "SUCCESS", "FAILURE", "QUEUED", "TIMEOUT" }
        /\ b.st = ReplyClass(rep.code) \/ b.st = "TIMEOUT"
    BY <1>10, <2>1, BackOffOutcome DEF Conclude, CallStatuses
  <2>3. /\ out'.files = Outcome(b.st).files /\ out'.code = rep.code
        /\ out'.token = Outcome(b.st).token
    BY <2>1
  <2>4. Outcome(b.st).status = "QUEUED" => Outcome(b.st).token # NoToken
    BY <1>10, <2>2, OutcomeToken DEF Conclude, TokenInv, TypeOK
  <2>5. Rejected' \/ Served' \/ Waiting'
    BY <2>1, <2>2, <2>3, <2>4, OutcomeCall
  <2> QED BY <1>10, <2>5 DEF Conclude
<1>11. ASSUME NEW r, Return(r) PROVE CallInv'
  BY <1>11 DEF Return
<1>12. CASE ReturnAsync
  BY <1>11, <1>12 DEF ReturnAsync
<1>13. CASE PollAgain
  <2>1. out'.files = FALSE
    BY <1>13 DEF PollAgain, EmptyOutput
  <2> QED BY <1>13, <2>1 DEF PollAgain
<1>14. CASE AbortAndReturn
  BY <1>11, <1>14 DEF AbortAndReturn
<1>15. CASE ReturnSync
  BY <1>11, <1>15 DEF ReturnSync
<1>16. CASE ServerStep
  BY <1>16 DEF ServerStep, callVars, clientVars
<1>17. CASE UNCHANGED vars
  BY <1>17 DEF vars, callVars, clientVars
<1> QED BY <1>2, <1>3, <1>4, <1>5, <1>6, <1>7, <1>8, <1>9, <1>10, <1>12, <1>13,
           <1>14, <1>15, <1>16, <1>17 DEF Next, Application, Library

\* Before the first call the promise is in its initial state.
LEMMA PromiseInit == Init => Promise!Init
BY DEF Init, Promise!Init, Phase, EmptyOutput, ReplyClass, NoStatus

\* Each step of the polling is a step of the promise, or leaves it as it is.
LEMMA PromiseStep ==
  TypeOK /\ TokenInv /\ CallInv /\ [Next]_vars => [Promise!Next]_(Promise!vars)
<1> SUFFICES ASSUME TypeOK, TokenInv, CallInv, [Next]_vars
             PROVE  Promise!Next \/ UNCHANGED Promise!vars
  OBVIOUS
<1> USE DEF CallInv, Rejected, Served, Waiting
<1>1. ASSUME NEW k \in Kinds, NEW m \in Modes, Begin(k, m), pc' # "idle"
      PROVE  Promise!Start
  <2>1. out'.token = NoToken
    BY <1>1 DEF Begin, EmptyOutput
  <2> QED BY <1>1, <2>1 DEF Begin, Promise!Start, Phase, Modes
<1>2. CASE Call
  BY <1>1, <1>2 DEF Call, Promise!Next
<1>3. CASE CallRejected
  BY <1>1, <1>3 DEF CallRejected, Promise!Next
<1>4. CASE CallStatus
  <2>1. out'.token = out.token
    BY <1>4 DEF CallStatus, EmptyOutput
  <2>2. Promise!Resume
    BY <1>4, <2>1 DEF CallStatus, Promise!Resume, Phase
  <2> QED BY <2>2 DEF Promise!Next
<1>5. ASSUME pc # "idle", pc' # "idle", mode' = mode, out'.token = out.token
      PROVE  UNCHANGED Promise!vars
  BY <1>5 DEF Promise!vars, Phase
<1>6. ASSUME pc' = pc, mode' = mode, out' = out, ret' = ret
      PROVE  UNCHANGED Promise!vars
  BY <1>6 DEF Promise!vars, Phase
<1>7. CASE CallAbort
  BY <1>6, <1>7 DEF CallAbort, callVars
<1>8. CASE Submit
  BY <1>5, <1>8 DEF Submit, SoapCall, callVars
<1>9. CASE AskStatus
  BY <1>5, <1>9 DEF AskStatus, SoapCall, callVars
<1>10. CASE NoResponse
  BY <1>5, <1>10 DEF NoResponse, callVars
<1>11. CASE Retry
  <2>1. out'.token = out.token
    BY <1>11 DEF Retry, TypeOK
  <2> QED BY <1>5, <1>11, <2>1 DEF Retry, callVars
<1>12. CASE Conclude
  <2>1. PICK b \in BackOff :
          /\ b.st # "INTERNAL_ERROR"
          /\ out' = [ token |-> Outcome(b.st).token, code |-> rep.code,
                      files |-> Outcome(b.st).files ]
    BY <1>12 DEF Conclude
  <2>2. b.st \in { "SUCCESS", "FAILURE", "QUEUED", "TIMEOUT" }
    BY <1>12, <2>1, BackOffOutcome DEF Conclude, CallStatuses
  <2>3. /\ out'.token \in { out.token, rep.token }
        /\ stage = "poll" => out'.token = out.token
    BY <2>1, <2>2, OutcomeToken
  <2>4. stage \in { "submit", "poll" } /\ rep.token \in Tokens \cup { NoToken }
    BY DEF TypeOK, Replies
  <2>5. CASE out'.token = out.token
    BY <1>5, <1>12, <2>5 DEF Conclude, callVars
  <2>6. CASE out'.token # out.token
    <3>1. out.token = NoToken /\ out'.token \in Tokens
      BY <1>12, <2>3, <2>4, <2>6 DEF Conclude
    <3>2. Promise!Learn
      BY <1>12, <3>1 DEF Conclude, callVars, Promise!Learn, Phase
    <3> QED BY <3>2 DEF Promise!Next
  <2> QED BY <2>5, <2>6
<1>13. CASE PollAgain
  <2>1. out'.token = out.token
    BY <1>13 DEF PollAgain, EmptyOutput
  <2> QED BY <1>5, <1>13, <2>1 DEF PollAgain
<1>14. ASSUME pc = "wrapper", NEW r, Return(r),
              (r = -1 /\ Rejected) \/ (r = ret /\ ret >= 0),
              mode = "async" \/ status # "QUEUED"
       PROVE  Promise!Return
  <2>1. /\ pc' = "idle" /\ ret' = r /\ mode' = mode /\ out' = out
    BY <1>14 DEF Return, callVars
  <2>2. CASE r = -1 /\ Rejected
    BY <1>14, <2>1, <2>2 DEF Promise!Return, Phase
  <2>3. CASE r = ret /\ Served
    BY <1>14, <2>1, <2>3 DEF Promise!Return, Phase
  <2>4. CASE r = ret /\ Waiting
    <3>1. mode = "async" /\ out.files \in BOOLEAN
      BY <1>14, <2>4 DEF TypeOK
    <3> QED BY <1>14, <2>1, <2>4, <3>1 DEF Promise!Return, Phase
  <2> QED BY <1>14, <2>2, <2>3, <2>4
<1>15. CASE ReturnAsync
  <2>1. pc = "wrapper" /\ Return(ret) /\ mode = "async"
    BY <1>15 DEF ReturnAsync
  <2>2. (ret = -1 /\ Rejected) \/ (ret = ret /\ ret >= 0)
    BY <2>1
  <2> HIDE DEF CallInv, Rejected, Served, Waiting
  <2>3. Promise!Return
    BY <1>14, <2>1, <2>2
  <2> QED BY <2>3 DEF Promise!Next
<1>16. CASE AbortAndReturn
  <2>1. Rejected
    BY <1>16 DEF AbortAndReturn, GiveUp
  <2>2. Promise!Return
    BY <1>14, <1>16, <2>1 DEF AbortAndReturn
  <2> QED BY <2>2 DEF Promise!Next
<1>17. CASE ReturnSync
  <2>1. status # "QUEUED"
    BY <1>17 DEF ReturnSync, StillQueued
  <2> DEFINE r == IF status = "SUCCESS" THEN ret ELSE -1
  <2>2. pc = "wrapper" /\ Return(r)
    BY <1>17 DEF ReturnSync
  <2>3. (r = -1 /\ Rejected) \/ (r = ret /\ ret >= 0)
    BY <2>1, <2>2
  <2> HIDE DEF CallInv, Rejected, Served, Waiting, r
  <2>4. Promise!Return
    BY <1>14, <2>1, <2>2, <2>3
  <2> QED BY <2>4 DEF Promise!Next
<1>18. CASE ServerStep
  BY <1>6, <1>18 DEF ServerStep, callVars, clientVars
<1>19. CASE UNCHANGED vars
  BY <1>6, <1>19 DEF vars, callVars, clientVars
<1> QED BY <1>2, <1>3, <1>4, <1>7, <1>8, <1>9, <1>10, <1>11, <1>12, <1>13, <1>15,
           <1>16, <1>17, <1>18, <1>19 DEF Next, Application, Library

\* Whatever server and clock do, the application sees a behaviour of SrmCall: no
\* synchronous call returns queued, nothing is handed over with an error, and a
\* queued asynchronous call returns with its token.
THEOREM PromiseKept == Spec => Promise!Init /\ [][Promise!Next]_(Promise!vars)
<1>1. TypeOK /\ TokenInv /\ CallInv /\ [Next]_vars => CallInv'
  BY CallStep
<1>2. TypeOK /\ TokenInv /\ CallInv /\ [Next]_vars => [Promise!Next]_(Promise!vars)
  BY PromiseStep
<1> QED BY <1>1, <1>2, CallInit, PromiseInit, TypeCorrect, PTL DEF Spec

-----------------------------------------------------------------------------
(* Every call comes back: the part that is not temporal *)

\* A wait that is granted lasts.
LEMMA WaitTakesTime ==
  ASSUME NEW c \in InternalContexts, NEW t \in Nat,
         NEW o \in wait_switch_auto(LOGIC, c, t), o.ok
  PROVE  o.now >= t + 1
<1> USE DEF InternalContexts
<1>0. c.end \in Nat /\ c.wait \in Nat \ {0} /\ c.est \in Int
  OBVIOUS
<1>1. CASE LOGIC = "OLD"
  <2> DEFINE next == [ c EXCEPT !.attempt = @ + 1 ]
  <2>1. next \in InternalContexts /\ next.end = c.end
    OBVIOUS
  <2>2. \/ \E w \in Int : w >= 1 /\ o = SleepOrLastChance(next, t, w)
        \/ o = [ ok |-> FALSE, now |-> t, ic |-> c ]
        \/ o = SleepOrLastChance(c, t, c.est) /\ (c.est >= 1 \/ c.est >= c.end - t)
    BY <1>1 DEF wait_switch_auto, wait_for_new_attempt
  <2>3. ASSUME NEW d \in InternalContexts, d.end = c.end, NEW w \in Int,
               w >= 1 \/ t + w >= c.end, o = SleepOrLastChance(d, t, w)
        PROVE  o.now >= t + 1
    BY <1>0, <2>3 DEF SleepOrLastChance
  <2> HIDE DEF next
  <2>4. CASE \E w \in Int : w >= 1 /\ o = SleepOrLastChance(next, t, w)
    BY <2>1, <2>3, <2>4
  <2>5. CASE o = [ ok |-> FALSE, now |-> t, ic |-> c ]
    BY <2>5
  <2>6. CASE o = SleepOrLastChance(c, t, c.est) /\ (c.est >= 1 \/ c.est >= c.end - t)
    <3>1. c.est >= 1 \/ t + c.est >= c.end
      BY <1>0, <2>6
    <3> QED BY <1>0, <2>3, <2>6, <3>1
  <2> QED BY <2>2, <2>4, <2>5, <2>6
<1>2. CASE LOGIC # "OLD"
  BY <1>0, <1>2 DEF wait_switch_auto, wait_for_new_attempt_min_max_ng
<1> QED BY <1>1, <1>2

\* Time that can still be waited for.
TimeLeft == IF now < ic.end THEN ic.end - now ELSE 0

\* A thread that is asked for again has waited.
LEMMA BackOffTakesTime ==
  ASSUME TypeOK, rep.code # NoStatus, NEW b \in BackOff,
         b.st \in { "QUEUED", "INTERNAL_ERROR" }, now' = b.now, ic' = b.ic
  PROVE  TimeLeft \in Nat /\ TimeLeft' \in Nat /\ TimeLeft' + 1 <= TimeLeft
<1>1. /\ Estimated \in InternalContexts /\ Estimated.end = ic.end
      /\ now \in Nat /\ ic.end \in Nat
  BY DEF TypeOK, Estimated, set_estimated_wait_time, InternalContexts, Replies
<1>2. b.now \in Nat /\ b.ic.end = ic.end
  BY BackOffOutcome
<1>3. now < ic.end
  BY BackOffInTime
<1>4. b.now >= now + 1
  <2>1. CASE ReplyClass(rep.code) \in WaitingClasses
    <3>1. PICK o \in wait_switch_auto(LOGIC, Estimated, now) :
            b = [ st |-> IF o.ok THEN ReplyClass(rep.code) ELSE "TIMEOUT",
                  now |-> o.now, ic |-> o.ic ]
      BY <2>1 DEF BackOff
    <3>2. b.now = o.now /\ o.ok
      BY <3>1
    <3> QED BY <1>1, <3>2, WaitTakesTime
  <2>2. CASE ReplyClass(rep.code) \notin WaitingClasses
    BY <2>2 DEF BackOff, WaitingClasses
  <2> QED BY <2>1, <2>2
<1>5. PICK n \in Nat : n = b.now /\ n >= now + 1
  BY <1>2, <1>4
<1>6. TimeLeft = ic.end - now
  BY <1>3 DEF TimeLeft
<1>7. TimeLeft' = IF n < ic.end THEN ic.end - n ELSE 0
  BY <1>2, <1>5 DEF TimeLeft
<1>8. PICK m \in Nat : TimeLeft' = m /\ m + 1 <= ic.end - now
  BY <1>1, <1>3, <1>5, <1>7
<1> QED BY <1>1, <1>3, <1>6, <1>8

\* The wrapper will poll again.
PollsOn == mode = "sync" /\ StillQueued

\* No fewer than the steps a call can still take by itself: a poll is a step of the
\* wrapper, one to the server, and one that waits.
StepsLeft ==
  CASE pc = "idle"                   -> 0
    [] pc = "wrapper" /\ ~PollsOn    -> 1
    [] pc = "backoff"                -> 4 * TimeLeft + 2
    [] pc \in { "submit", "status" } -> 4 * TimeLeft + 3
    [] pc = "wrapper" /\ PollsOn     -> 4 * TimeLeft + 4

Progress ==
  pc # "idle" => IF Library THEN StepsLeft' < StepsLeft ELSE StepsLeft' = StepsLeft

\* The deadline is that of the context.
EndInv == ic.end = TIMEOUT

LEMMA EndStep == TypeOK /\ EndInv /\ [Next]_vars => EndInv'
<1> SUFFICES ASSUME TypeOK, EndInv, [Next]_vars PROVE EndInv'
  OBVIOUS
<1> USE DEF EndInv
<1>1. back_off_logic_init(TIMEOUT).end = TIMEOUT
  BY DEF back_off_logic_init
<1>2. CASE Application
  BY <1>1, <1>2 DEF Application, Call, CallRejected, Begin, CallStatus, CallAbort
<1>3. ASSUME NEW r, Return(r) PROVE EndInv'
  BY <1>1, <1>3 DEF Return
<1>4. CASE ReturnAsync \/ AbortAndReturn \/ ReturnSync
  BY <1>3, <1>4 DEF ReturnAsync, AbortAndReturn, ReturnSync
<1>5. CASE Submit \/ AskStatus
  BY <1>5 DEF Submit, AskStatus, SoapCall
<1>6. CASE NoResponse
  BY <1>6 DEF NoResponse
<1>7. CASE Retry \/ Conclude
  <2>1. PICK b \in BackOff : ic' = b.ic
    BY <1>7 DEF Retry, Conclude
  <2>2. b.ic.end = ic.end
    BY <1>7, BackOffOutcome DEF Retry, Conclude
  <2> QED BY <2>1, <2>2
<1>8. CASE PollAgain
  BY <1>8 DEF PollAgain, TypeOK, InternalContexts
<1>9. CASE ServerStep \/ UNCHANGED vars
  BY <1>9 DEF ServerStep, vars, clientVars
<1> QED BY <1>2, <1>4, <1>5, <1>6, <1>7, <1>8, <1>9 DEF Next, Library

LEMMA StepsBounded ==
  ASSUME TypeOK, EndInv
  PROVE  StepsLeft \in 0 .. 4 * TIMEOUT + 4 /\ (pc # "idle" => StepsLeft >= 1)
<1>1. pc \in { "idle", "submit", "status", "backoff", "wrapper" } /\ now \in Nat
  BY DEF TypeOK
<1>2. TimeLeft \in Nat /\ TimeLeft <= TIMEOUT
  BY <1>1 DEF TimeLeft, EndInv
<1>3. \/ pc = "idle" /\ StepsLeft = 0
      \/ pc # "idle" /\ StepsLeft \in { 1, 4 * TimeLeft + 2, 4 * TimeLeft + 3, 4 * TimeLeft + 4 }
  <2>1. CASE pc = "wrapper" /\ PollsOn
    BY <2>1, Zenon DEF StepsLeft
  <2>2. CASE pc = "wrapper" /\ ~PollsOn
    BY <2>2, Zenon DEF StepsLeft
  <2>3. CASE pc \in { "idle", "submit", "status", "backoff" }
    BY <2>3 DEF StepsLeft
  <2> QED BY <1>1, <2>1, <2>2, <2>3
<1> HIDE DEF TimeLeft
<1> QED BY <1>2, <1>3

\* Each step of the library in a call brings its return nearer.
LEMMA StepsShrink ==
  ASSUME TypeOK, EndInv, TypeOK', EndInv', Library
  PROVE  pc # "idle" /\ StepsLeft' < StepsLeft
<1>1. /\ now \in Nat /\ ic.end \in Nat /\ TimeLeft \in Nat
      /\ pc \in { "idle", "submit", "status", "backoff", "wrapper" }
  BY DEF TypeOK, InternalContexts, TimeLeft
<1>2. pc # "idle"
  BY DEF Library, Submit, AskStatus, NoResponse, Retry, Conclude, ReturnAsync,
         PollAgain, AbortAndReturn, ReturnSync
<1>3. StepsLeft \in Nat /\ StepsLeft >= 1
  BY <1>2, StepsBounded
<1>4. ASSUME NEW r, Return(r) PROVE StepsLeft' < StepsLeft
  <2>1. StepsLeft' = 0
    BY <1>4 DEF Return, StepsLeft
  <2> QED BY <1>3, <2>1
<1>5. ASSUME NEW a, NEW d \in 0 .. MAX_RPC, SoapCall(a, d), pc \in { "submit", "status" }
      PROVE  StepsLeft' < StepsLeft
  <2>1. pc' = "backoff" /\ now' = now + d /\ ic' = ic
    BY <1>5 DEF SoapCall
  <2>2. PICK m \in Nat : TimeLeft' = m /\ m <= TimeLeft
    <3>1. TimeLeft' = IF now + d < ic.end THEN ic.end - (now + d) ELSE 0
      BY <2>1 DEF TimeLeft
    <3>2. TimeLeft = IF now < ic.end THEN ic.end - now ELSE 0
      BY DEF TimeLeft
    <3> QED BY <1>1, <3>1, <3>2
  <2>3. StepsLeft = 4 * TimeLeft + 3
    BY <1>5 DEF StepsLeft
  <2>4. StepsLeft' = 4 * m + 2
    BY <2>1, <2>2 DEF StepsLeft
  <2> QED BY <1>1, <2>2, <2>3, <2>4
<1>6. CASE NoResponse
  <2>1. pc = "backoff" /\ pc' = "wrapper" /\ ~PollsOn'
    BY <1>6 DEF NoResponse, PollsOn, StillQueued
  <2>2. StepsLeft = 4 * TimeLeft + 2
    BY <2>1 DEF StepsLeft
  <2>3. StepsLeft' = 1
    BY <2>1, Zenon DEF StepsLeft
  <2> QED BY <1>1, <1>2, <2>2, <2>3
<1>7. CASE Retry
  <2>1. PICK b \in BackOff : b.st = "INTERNAL_ERROR" /\ now' = b.now /\ ic' = b.ic
    BY <1>7 DEF Retry
  <2>2. PICK m \in Nat : TimeLeft' = m /\ m + 1 <= TimeLeft
    BY <1>7, <2>1, BackOffTakesTime DEF Retry
  <2>3. pc = "backoff" /\ pc' \in { "submit", "status" }
    BY <1>7 DEF Retry
  <2>4. StepsLeft = 4 * TimeLeft + 2 /\ StepsLeft' = 4 * m + 3
    BY <2>2, <2>3 DEF StepsLeft
  <2> QED BY <1>1, <1>2, <2>2, <2>4
<1>8. CASE Conclude
  <2>1. PICK b \in BackOff :
          /\ b.st # "INTERNAL_ERROR" /\ now' = b.now /\ ic' = b.ic
          /\ status' = Outcome(b.st).status
    BY <1>8 DEF Conclude
  <2>2. b.st \in { "SUCCESS", "FAILURE", "QUEUED", "TIMEOUT" }
    BY <1>8, <2>1, BackOffOutcome DEF Conclude, CallStatuses
  <2>3. pc = "backoff" /\ pc' = "wrapper"
    BY <1>8 DEF Conclude
  <2>4. StepsLeft = 4 * TimeLeft + 2
    BY <2>3 DEF StepsLeft
  <2>5. CASE ~PollsOn'
    <3>1. StepsLeft' = 1
      BY <2>3, <2>5, Zenon DEF StepsLeft
    <3> QED BY <1>1, <1>2, <2>4, <3>1
  <2>6. CASE PollsOn'
    <3>1. b.st = "QUEUED"
      BY <2>1, <2>2, <2>6, OutcomeQueued DEF PollsOn, StillQueued
    <3>2. PICK m \in Nat : TimeLeft' = m /\ m + 1 <= TimeLeft
      BY <1>8, <2>1, <3>1, BackOffTakesTime DEF Conclude
    <3>3. StepsLeft' = 4 * TimeLeft' + 4
      BY <2>3, <2>6, Zenon DEF StepsLeft
    <3> QED BY <1>1, <1>2, <2>4, <3>2, <3>3
  <2> QED BY <2>5, <2>6
<1>9. CASE PollAgain
  <2>1. pc = "wrapper" /\ PollsOn /\ pc' = "status" /\ now' = now
    BY <1>9 DEF PollAgain, PollsOn
  <2>2. TimeLeft' = TimeLeft
    BY <2>1 DEF TimeLeft, EndInv
  <2>3. StepsLeft = 4 * TimeLeft + 4
    BY <2>1, Zenon DEF StepsLeft
  <2>4. StepsLeft' = 4 * TimeLeft + 3
    BY <2>1, <2>2 DEF StepsLeft
  <2> QED BY <1>1, <1>2, <2>3, <2>4
<1> QED BY <1>2, <1>4, <1>5, <1>6, <1>7, <1>8, <1>9
        DEF Library, Submit, AskStatus, ReturnAsync, AbortAndReturn, ReturnSync

\* What the server does to its requests meanwhile takes no step from a call.
LEMMA StepsUntouched ==
  ASSUME TypeOK, Next, pc # "idle", ~Library
  PROVE  StepsLeft' = StepsLeft
<1>1. ServerStep
  BY DEF Next, Application, Call, CallRejected, Begin, CallStatus, CallAbort
<1>2. UNCHANGED << pc, mode, now, ic, status, ret >>
  BY <1>1 DEF ServerStep, callVars, clientVars
<1> QED BY <1>2 DEF StepsLeft, TimeLeft, PollsOn, StillQueued

\* Whatever the server answers, each step of a call brings its return nearer, and
\* there are no more than four for every tick of its time-out, and four.
THEOREM CallsEnd ==
  Spec => [](StepsLeft \in 0 .. 4 * TIMEOUT + 4) /\ [][Progress]_vars
<1>1. Init => EndInv
  BY DEF Init, EndInv, back_off_logic_init
<1>2. TypeOK /\ EndInv => StepsLeft \in 0 .. 4 * TIMEOUT + 4
  BY StepsBounded
<1>3. /\ TypeOK /\ EndInv /\ TypeOK' /\ EndInv' /\ [Next]_vars
      => [Progress]_vars
  BY StepsShrink, StepsUntouched DEF Progress
<1>4. TypeOK /\ EndInv /\ [Next]_vars => EndInv'
  BY EndStep
<1>5. Spec => []TypeOK
  BY TypeCorrect, PTL
<1> QED BY <1>1, <1>2, <1>3, <1>4, <1>5, PTL DEF Spec
=============================================================================
