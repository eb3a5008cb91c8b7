------------------------------ MODULE SrmRequest ------------------------------
(***************************************************************************)
(* One application thread using one context for the four queued requests   *)
(* of SRM v2.2 (ls, prepare-to-put, prepare-to-get, bring-online), through *)
(* the synchronous and the asynchronous interface, against a server that   *)
(* queues requests under tokens and a network that loses calls.            *)
(*                                                                         *)
(* pc says where the thread is:                                            *)
(*   idle     in the application                                           *)
(*   submit   about to issue the request          (srmv2_*_async_internal) *)
(*   status   about to ask for its status (srmv2_status_of_*_internal)     *)
(*   backoff  a reply (or none) arrived, in back_off_logic                 *)
(*   wrapper  the internal function returned to its sync/async wrapper     *)
(***************************************************************************)
EXTENDS SrmWait, SrmStatus

CONSTANTS
  Tokens,        \* request tokens the server can give out (bound)
  NoToken,       \* the NULL token
  Kinds,         \* the requests to explore, a subset of AllKinds
  LOGIC,         \* polling logic of the context
  TIMEOUT,       \* context->timeout in ticks
  MAX_RPC,       \* longest duration of one SOAP call
  ESTIMATES,     \* estimates a server may announce with a queued request
  REFUSALS       \* codes with which the server refuses or fails a request

AllKinds == { "ls", "put", "get", "bringonline" }
Modes    == { "sync", "async" }

ASSUME RequestAssumption ==
  /\ NoToken \notin Tokens
  /\ Kinds \subseteq AllKinds
  /\ LOGIC \in PollingLogics
  /\ TIMEOUT \in Nat \ {0}
  /\ MAX_RPC \in Nat
  /\ ESTIMATES \subseteq Int
  /\ REFUSALS \subseteq
       { c \in StatusCodes : ReplyClass(c) = "FAILURE" }

VARIABLES
  pc,
  kind, mode,    \* the current, or last, call
  stage,         \* "submit" or "poll": which function the thread is in
  now,           \* clock, from the start of the call
  ic,            \* struct srm_internal_context, current_status apart
  status,        \* internal_context.current_status
  rep,           \* the reply being processed
  out,           \* the output structure: token, retstatus' code, file statuses
  errno,
  ret,           \* return value: -1, 0, or 1 for a number of files
  srv,           \* the server's requests, by token
  mine,          \* history: tokens of the requests this call made the server queue
  clean,         \* history: the server told the call of each of them, obeyed its abort
  late           \* history: SOAP calls of this call started after its deadline

callVars   == << kind, mode, stage >>
clientVars == << ic, status, rep, out, errno, ret >>
ghostVars  == << mine, clean, late >>
vars == << pc, callVars, now, clientVars, srv, ghostVars >>

RequestStates == { "free", "queued", "ready", "failed", "aborted" }

Replies == [ code  : StatusCodes \cup { NoStatus }, token : Tokens \cup { NoToken },
             files : BOOLEAN, est : ESTIMATES \cup { -1 } ]

\* No response structure, a SOAP error, or a response without returnStatus.
NoReply == [ code |-> NoStatus, token |-> NoToken, files |-> FALSE, est |-> -1 ]

EmptyOutput == [ token |-> NoToken, code |-> NoStatus, files |-> FALSE ]

TypeOK ==
  /\ pc \in { "idle", "submit", "status", "backoff", "wrapper" }
  /\ kind \in AllKinds /\ mode \in Modes /\ stage \in { "submit", "poll" }
  /\ now \in Nat
  /\ ic \in InternalContexts
  /\ status \in CallStatuses
  /\ rep \in Replies
  /\ out \in [ token : Tokens \cup { NoToken },
               code : StatusCodes \cup { NoStatus }, files : BOOLEAN ]
  /\ errno \in Errnos
  /\ ret \in { -1, 0, 1 }
  /\ srv \in [ Tokens -> RequestStates ]
  /\ mine \subseteq Tokens
  /\ clean \in BOOLEAN
  /\ late \in Nat

-----------------------------------------------------------------------------
(* The server and the network, as the client sees them (external) *)

Plain(c, f) == [ code |-> c, token |-> NoToken, files |-> f, est |-> -1 ]

\* "still queued" replies, with or without a token and per-file statuses
QueuedReplies(t) ==
  [ code : { "REQUEST_QUEUED", "REQUEST_INPROGRESS" }, token : { t, NoToken },
    files : BOOLEAN, est : ESTIMATES ]

FinalReplies(t) ==
  [ code : { "SUCCESS", "PARTIAL_SUCCESS" }, token : { t, NoToken },
    files : BOOLEAN, est : { -1 } ]

RefusalReplies == { Plain(c, f) : c \in REFUSALS, f \in BOOLEAN }

\* The server takes a new request in under a free token, or serves it at once,
\* or refuses it; any answer may be lost or be an internal error.
Accepted(t, state, r) == [ srv |-> [ srv EXCEPT ![t] = state ], new |-> t, rep |-> r ]
Ignored(r)            == [ srv |-> srv, new |-> NoToken, rep |-> r ]

SubmitAnswers ==
  LET free   == { t \in Tokens : srv[t] = "free" }
      silent == { NoReply, Plain("INTERNAL_ERROR", FALSE) }
  IN  { Ignored(r) : r \in silent \cup RefusalReplies }
      \cup UNION { { Accepted(t, "queued", r) : r \in silent \cup QueuedReplies(t) }
                   \cup { Accepted(t, "ready", r) : r \in FinalReplies(t) }
                   : t \in free }

StatusAnswers(t) ==
  { NoReply, Plain("INTERNAL_ERROR", FALSE) } \cup
  CASE srv[t] = "queued"  -> { r \in QueuedReplies(t) : r.token = NoToken }
    [] srv[t] = "ready"   -> { r \in FinalReplies(t) : r.token = NoToken }
    [] srv[t] = "failed"  -> RefusalReplies
    [] srv[t] = "aborted" -> { Plain("ABORTED", f) : f \in BOOLEAN }
    [] OTHER              -> { Plain("INVALID_REQUEST", FALSE) }

\* Queued requests finish; settled ones nobody holds the token of are dropped.
ServerStep ==
  \E t \in Tokens :
    /\ \/ /\ srv[t] = "queued"
          /\ \E s \in { "ready", "failed" } : srv' = [ srv EXCEPT ![t] = s ]
       \/ /\ srv[t] \in { "ready", "failed", "aborted" }
          /\ t \notin mine
          /\ srv' = [ srv EXCEPT ![t] = "free" ]
    /\ UNCHANGED << pc, callVars, now, clientVars, ghostVars >>

\* srmAbortRequest: delivered or not, obeyed or not, answered or not.
AbortAnswers(t) ==
  LET gone == [ srv EXCEPT ![t] = IF @ = "queued" THEN "aborted" ELSE @ ]
  IN  [ srv : { srv, gone }, errno : { "ECOMM", "EINVAL" }, obeyed : { FALSE } ]
      \cup { [ srv |-> gone, errno |-> errno, obeyed |-> TRUE ] }

-----------------------------------------------------------------------------
(* What the internal functions make of a reply.  st is what back_off_logic *)
(* returned: "SUCCESS", "FAILURE", "QUEUED" or "TIMEOUT".                  *)

Fail(e)   == [ status |-> "FAILURE", ret |-> -1, errno |-> e,
               token |-> out.token, files |-> FALSE ]
TimedOut  == [ status |-> "TIMEOUT", ret |-> -1, errno |-> "ETIMEDOUT",
               token |-> out.token, files |-> FALSE ]
\* per-file statuses are handed over, even when the request as a whole failed
Deliver(t) == [ status |-> "SUCCESS", ret |-> 1, errno |-> "OK",
                token |-> t, files |-> TRUE ]
\* Mutant: the token of a queued reply is not copied.
KeepQueuedNoToken(t, f) == [ status |-> "QUEUED", ret |-> IF f THEN 1 ELSE 0,
                             errno |-> errno, token |-> out.token, files |-> f ]

KeepQueued(t, f) == [ status |-> "QUEUED", ret |-> IF f THEN 1 ELSE 0,
                      errno |-> IF f THEN "OK" ELSE errno, token |-> t, files |-> f ]

CallErr == srm_call_err(rep.code, "none")

\* Mutant: a queued reply without a token is accepted.
LsTokenUnchecked(st) ==
  CASE st = "TIMEOUT"                  -> TimedOut
    [] st = "QUEUED"                   -> KeepQueued(rep.token, FALSE)
    [] st \in { "SUCCESS", "FAILURE" } -> IF rep.files THEN Deliver(out.token)
                                                       ELSE Fail(CallErr)

srmv2_ls_async_internal(st) ==
  CASE st = "TIMEOUT"                        -> TimedOut
    [] st = "QUEUED" /\ rep.token = NoToken  -> Fail("EINVAL")
    [] st = "QUEUED" /\ rep.token # NoToken  -> KeepQueued(rep.token, FALSE)
    [] st \in { "SUCCESS", "FAILURE" }       -> IF rep.files THEN Deliver(out.token)
                                                            ELSE Fail(CallErr)

\* A delivered put must carry a token: without one it counts as failed.
srmv2_prepare_to_put_async_internal(st) ==
  CASE st = "TIMEOUT"                        -> TimedOut
    [] st = "QUEUED" /\ rep.token = NoToken  -> Fail(CallErr)
    [] st = "QUEUED" /\ rep.token # NoToken  -> KeepQueued(rep.token, FALSE)
    [] st \in { "SUCCESS", "FAILURE" }       -> IF rep.files /\ rep.token # NoToken
                                               THEN Deliver(rep.token) ELSE Fail(CallErr)

srmv2_prepare_to_get_async_internal(st) ==
  CASE st = "TIMEOUT"                        -> TimedOut
    [] st = "QUEUED" /\ rep.token = NoToken  -> Fail(CallErr)
    [] st = "QUEUED" /\ rep.token # NoToken  -> KeepQueued(rep.token, rep.files)
    [] st \in { "SUCCESS", "FAILURE" }       -> IF rep.files THEN Deliver(rep.token)
                                                            ELSE Fail(CallErr)

srmv2_bring_online_async_internal(st) ==
  CASE st = "TIMEOUT"                        -> TimedOut
    [] st = "QUEUED" /\ rep.token = NoToken  -> Fail(CallErr)
    [] st = "QUEUED" /\ rep.token # NoToken  -> KeepQueued(rep.token, rep.files)
    [] st \in { "SUCCESS", "FAILURE" }       -> IF rep.files THEN Deliver(rep.token)
                                                            ELSE Fail(CallErr)

srmv2_status_of_ls_request_async_internal(st) ==
  CASE st = "TIMEOUT"                        -> TimedOut
    [] st = "QUEUED"                         -> KeepQueued(out.token, FALSE)
    [] st \in { "SUCCESS", "FAILURE" }       -> IF rep.files THEN Deliver(out.token)
                                                            ELSE Fail(CallErr)

\* An expired space fails the put even when file statuses came with it.
srmv2_status_of_put_request_async_internal(st) ==
  CASE rep.code = "SPACE_LIFETIME_EXPIRED"   -> Fail(statuscode2errno(rep.code))
    [] st = "TIMEOUT"                        -> TimedOut
    [] st = "QUEUED"                         -> KeepQueued(out.token, FALSE)
    [] OTHER                                 -> IF rep.files THEN Deliver(out.token)
                                                            ELSE Fail(CallErr)

srmv2_status_of_get_request_async_internal(st) ==
  CASE st = "TIMEOUT"                        -> TimedOut
    [] st = "QUEUED"                         -> KeepQueued(out.token, rep.files)
    [] st \in { "SUCCESS", "FAILURE" }       -> IF rep.files THEN Deliver(out.token)
                                                            ELSE Fail(CallErr)

srmv2_status_of_bring_online_async_internal(st) ==
  CASE st = "TIMEOUT"                        -> TimedOut
    [] st = "QUEUED"                         -> KeepQueued(out.token, rep.files)
    [] st \in { "SUCCESS", "FAILURE" }       -> IF rep.files THEN Deliver(out.token)
                                                            ELSE Fail(CallErr)

Outcome(st) ==
  CASE stage = "submit" /\ kind = "ls"          -> srmv2_ls_async_internal(st)
    [] stage = "submit" /\ kind = "put"         -> srmv2_prepare_to_put_async_internal(st)
    [] stage = "submit" /\ kind = "get"         -> srmv2_prepare_to_get_async_internal(st)
    [] stage = "submit" /\ kind = "bringonline" -> srmv2_bring_online_async_internal(st)
    [] stage = "poll" /\ kind = "ls"            -> srmv2_status_of_ls_request_async_internal(st)
    [] stage = "poll" /\ kind = "put"           -> srmv2_status_of_put_request_async_internal(st)
    [] stage = "poll" /\ kind = "get"           -> srmv2_status_of_get_request_async_internal(st)
    [] stage = "poll" /\ kind = "bringonline"   -> srmv2_status_of_bring_online_async_internal(st)

-----------------------------------------------------------------------------
(* The application *)

\* A new call with a fresh output structure; errno may or may not be cleared.
Begin(k, m) ==
  /\ pc = "idle"
  /\ kind' = k /\ mode' = m /\ stage' = "submit"
  /\ now' = 0 /\ ic' = back_off_logic_init(TIMEOUT)
  /\ status' = "SUCCESS" /\ rep' = NoReply /\ out' = EmptyOutput
  /\ mine' = {} /\ clean' = TRUE /\ late' = 0
  /\ UNCHANGED srv

Call ==
  \E k \in Kinds, m \in Modes :
    /\ Begin(k, m)
    /\ pc' = "submit"
    /\ ret' = 0
    /\ errno' \in { errno, "OK" }

\* A negative offset or count (ls), missing file sizes (put) or an allocation
\* fails before the request is built.  current_status is still what memset left
\* in it, SUCCESS.  Requests with a space description are not explored here.
CallRejected ==
  \E k \in Kinds, m \in Modes :
    /\ Begin(k, m)
    /\ pc' = "wrapper"
    /\ ret' = -1
    /\ errno' \in { "ENOMEM" } \cup IF k \in { "ls", "put" } THEN { "EINVAL" } ELSE {}

\* srm_status_of_*_async: a fresh deadline for every call.
CallStatus ==
  /\ pc = "idle" /\ mode = "async" /\ out.token # NoToken
  /\ pc' = "status" /\ stage' = "poll"
  /\ now' = 0 /\ ic' = back_off_logic_init(TIMEOUT)
  /\ out' = [ EmptyOutput EXCEPT !.token = out.token ]
  /\ status' = "SUCCESS" /\ ret' = 0 /\ late' = 0
  /\ errno' \in { errno, "OK" }
  /\ UNCHANGED << kind, mode, rep, srv, mine, clean >>

\* srm_abort_request on the token of an asynchronous request.
CallAbort ==
  /\ pc = "idle" /\ mode = "async" /\ out.token # NoToken
  /\ \E a \in AbortAnswers(out.token) : srv' = a.srv /\ errno' = a.errno
  /\ UNCHANGED << pc, callVars, now, ic, status, rep, out, ret, ghostVars >>

-----------------------------------------------------------------------------
(* Inside the internal functions *)

SoapCall(answer, d) ==
  /\ rep' = answer.rep
  /\ srv' = answer.srv
  /\ now' = now + d
  /\ late' = IF now >= ic.end THEN late + 1 ELSE late
  /\ pc' = "backoff"
  /\ UNCHANGED << callVars, ic, status, out, errno, ret >>

Submit ==
  /\ pc = "submit"
  /\ \E a \in SubmitAnswers, d \in 0 .. MAX_RPC :
       /\ SoapCall(a, d)
       /\ mine' = IF a.new = NoToken THEN mine ELSE mine \cup { a.new }
       /\ clean' = (clean /\ a.new = a.rep.token)

AskStatus ==
  /\ pc = "status"
  /\ \E r \in StatusAnswers(out.token), d \in 0 .. MAX_RPC :
       SoapCall([ srv |-> srv, rep |-> r ], d)
  /\ UNCHANGED << mine, clean >>

\* Mutant: the errno of a failed SOAP call is forgotten.
NoResponseNoErrno ==
  /\ pc = "backoff" /\ rep.code = NoStatus
  /\ status' = "FAILURE" /\ ret' = -1 /\ errno' = errno
  /\ pc' = "wrapper"
  /\ UNCHANGED << callVars, now, ic, rep, out, srv, ghostVars >>

\* errno = srm_soap_call_err(...); the retstatus of an earlier try stays.
NoResponse ==
  /\ pc = "backoff" /\ rep.code = NoStatus
  /\ status' = "FAILURE" /\ ret' = -1 /\ errno' = "ECOMM"
  /\ pc' = "wrapper"
  /\ UNCHANGED << callVars, now, ic, rep, out, srv, ghostVars >>

\* Only the requests on files read an estimate.
Estimated == IF kind = "ls" THEN ic ELSE set_estimated_wait_time(ic, rep.est)

\* back_off_logic: (class of the reply, or TIMEOUT; clock; context) afterwards
BackOff ==
  LET class == ReplyClass(rep.code)
  IN  IF class \in WaitingClasses
      THEN { [ st |-> IF o.ok THEN class ELSE "TIMEOUT", now |-> o.now, ic |-> o.ic ] :
               o \in wait_switch_auto(LOGIC, Estimated, now) }
      ELSE { [ st |-> class, now |-> now, ic |-> Estimated ] }

\* The do-while goes round again.
Retry ==
  /\ pc = "backoff" /\ rep.code # NoStatus
  /\ \E b \in BackOff :
       /\ b.st = "INTERNAL_ERROR"
       /\ now' = b.now /\ ic' = b.ic
  /\ status' = "INTERNAL_ERROR"
  /\ out' = [ out EXCEPT !.code = rep.code ]
  /\ pc' = IF stage = "submit" THEN "submit" ELSE "status"
  /\ UNCHANGED << callVars, rep, errno, ret, srv, ghostVars >>

\* The do-while is left and the switch on current_status taken.
Conclude ==
  /\ pc = "backoff" /\ rep.code # NoStatus
  /\ \E b \in BackOff :
       /\ b.st # "INTERNAL_ERROR"
       /\ now' = b.now /\ ic' = b.ic
       /\ LET r == Outcome(b.st)
          IN  /\ status' = r.status /\ ret' = r.ret /\ errno' = r.errno
              /\ out' = [ token |-> r.token, code |-> rep.code, files |-> r.files ]
  /\ pc' = "wrapper"
  /\ UNCHANGED << callVars, rep, srv, ghostVars >>

-----------------------------------------------------------------------------
(* The wrappers *)

\* Back to the application; the internal context was on the stack.
Return(r) ==
  /\ pc' = "idle"
  /\ ret' = r
  /\ now' = 0 /\ ic' = back_off_logic_init(TIMEOUT) /\ rep' = NoReply
  /\ UNCHANGED << callVars, status, out, mine, late >>

ReturnAsync ==
  /\ pc = "wrapper" /\ mode = "async"
  /\ Return(ret)
  /\ UNCHANGED << errno, srv, clean >>

\* The loop condition of the synchronous wrappers.
StillQueued == status = "QUEUED" /\ ret >= 0

\* Mutant: the file statuses of the previous reply stay in the output.
PollAgainStaleFiles ==
  /\ pc = "wrapper" /\ mode = "sync" /\ StillQueued
  /\ pc' = "status" /\ stage' = "poll"
  /\ ic' = IF stage = "submit" THEN [ ic EXCEPT !.attempt = 1 ] ELSE ic
  /\ UNCHANGED << kind, mode, now, status, rep, out, errno, ret, srv, ghostVars >>

PollAgain ==
  /\ pc = "wrapper" /\ mode = "sync" /\ StillQueued
  /\ pc' = "status" /\ stage' = "poll"
  /\ ic' = IF stage = "submit" THEN [ ic EXCEPT !.attempt = 1 ] ELSE ic
  /\ out' = [ EmptyOutput EXCEPT !.token = out.token ]
  /\ UNCHANGED << kind, mode, now, status, rep, errno, ret, srv, ghostVars >>

\* Mutant: only bring-online aborts.
GiveUpBringOnlineOnly ==
  /\ stage = "poll" /\ kind = "bringonline"
  /\ status \notin { "SUCCESS", "QUEUED" } /\ ret < 0

\* Inside the polling loop: when is the request aborted?
GiveUp ==
  /\ stage = "poll"
  /\ IF kind = "bringonline" THEN status \notin { "SUCCESS", "QUEUED" } /\ ret < 0
                             ELSE status = "TIMEOUT"

\* Mutant: errno is left to the abort for every kind of request.
AbortErrnoKept ==
  /\ pc = "wrapper" /\ mode = "sync" /\ GiveUp
  /\ \E a \in AbortAnswers(out.token) :
       /\ srv' = a.srv
       /\ clean' = (clean /\ a.obeyed)
       /\ errno' = a.errno
  /\ Return(-1)

AbortAndReturn ==
  /\ pc = "wrapper" /\ mode = "sync" /\ GiveUp
  /\ \E a \in AbortAnswers(out.token) :
       /\ srv' = a.srv
       /\ clean' = (clean /\ a.obeyed)
       /\ errno' = IF kind \in { "put", "get" } THEN "ETIMEDOUT" ELSE a.errno
  /\ Return(-1)

ReturnSync ==
  /\ pc = "wrapper" /\ mode = "sync" /\ ~StillQueued /\ ~GiveUp
  /\ Return(IF status = "SUCCESS" THEN ret ELSE -1)
  /\ UNCHANGED << errno, srv, clean >>

-----------------------------------------------------------------------------
Init ==
  /\ pc = "idle" /\ kind \in Kinds /\ mode = "sync" /\ stage = "submit"
  /\ now = 0 /\ ic = back_off_logic_init(TIMEOUT) /\ status = "SUCCESS"
  /\ rep = NoReply /\ out = EmptyOutput /\ errno = "OK" /\ ret = 0
  /\ srv = [ t \in Tokens |-> "free" ]
  /\ mine = {} /\ clean = TRUE /\ late = 0

Library == Submit \/ AskStatus \/ NoResponse \/ Retry \/ Conclude
           \/ ReturnAsync \/ PollAgain \/ AbortAndReturn \/ ReturnSync

Application == Call \/ CallRejected \/ CallStatus \/ CallAbort

Next == Application \/ Library \/ ServerStep

\* Inside a call the thread keeps running: SOAP calls have send/receive
\* timeouts and sleeps end.  The application and the server owe nothing.
Spec == Init /\ [][Next]_vars /\ WF_vars(Library)

-----------------------------------------------------------------------------
(* Properties *)

\* Whoever polls or aborts does it with a token the server gave this very call,
\* never NULL and never that of an earlier request.
TokenWhilePolling ==
  pc # "idle" /\ stage = "poll" => out.token \in mine

\* A synchronous call that comes back with success, or gives up polling, leaves
\* none of its requests in the server's queue, provided the server told it the
\* token of each and obeyed the abort.  (Giving up: a timeout; for bring-online
\* any failure.  ls, put and get leave a request they failed to ask about.)
NothingLeftQueued ==
  /\ pc = "idle" /\ mode = "sync" /\ clean
  /\ \/ ret >= 0
     \/ stage = "poll" /\ status = "TIMEOUT"
     \/ stage = "poll" /\ status = "FAILURE" /\ kind = "bringonline"
  => \A t \in mine : srv[t] # "queued"

\* A call, asynchronous or not, asks the server at most once after its deadline
\* (when the last sliced sleep overshot it), and never with the OLD logic.
OneLateCall == late <= IF LOGIC = "OLD" THEN 0 ELSE 1

\* A put or get that timed out says so in errno, whatever became of the abort.
TimeoutErrno ==
  pc = "idle" /\ mode = "sync" /\ status = "TIMEOUT" /\ kind \in { "put", "get" }
  => errno = "ETIMEDOUT"

\* A call that returns -1 leaves a non-zero errno, unless the server's code is
\* one statuscode2errno calls a success (file pinned, released, ...).
FailureHasErrno ==
  /\ pc = "idle" /\ ret = -1
  /\ out.code \notin { "FILE_PINNED", "SPACE_AVAILABLE", "RELEASED" }
  => errno # "OK"

\* The caller's view, see SrmCall: how a returned call is read off its result.
Phase ==
  IF pc # "idle" THEN "running"
  ELSE IF ret < 0 THEN "error"
  ELSE IF ReplyClass(out.code) = "QUEUED" THEN "queued"
  ELSE IF out.files THEN "done" ELSE "idle"

Promise == INSTANCE SrmCall WITH
  phase <- Phase,
  mode  <- mode,
  token <- out.token,
  files <- IF pc = "idle" THEN out.files ELSE FALSE

\* The polling, waiting and aborting implements the promise to the application,
\* the return of every call included.
ImplementsCall == Promise!Spec
=============================================================================
