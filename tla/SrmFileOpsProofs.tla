--------------------------- MODULE SrmFileOpsProofs ---------------------------
(***************************************************************************)
(* The properties of SrmFileOps, for every set of refusals and any number  *)
(* of waits.                                                               *)
(***************************************************************************)
EXTENDS SrmFileOps, TLAPS

-----------------------------------------------------------------------------
(* What the server may have answered *)

\* The answers to an operation that was carried out.
Performed(o, w, r) ==
  /\ CanDo(o, w)
  /\ r.world = Deed(o, w)
  /\ ~r.notoken
  /\ \/ r.code = "SUCCESS" /\ r.file \in { "SUCCESS", NoList }
     \/ r.code \in { "INTERNAL_ERROR", NoStatus } /\ r.file = NoList

\* The answers to one that was not.
Untouched(o, w, r) ==
  /\ r.world = w
  /\ \/ ~r.notoken /\ r.code \in REFUSALS /\ r.file \in REFUSALS \cup { NoList }
     \/ ~r.notoken /\ r.code = "REQUEST_QUEUED" /\ r.file \in { "REQUEST_QUEUED", NoList }
     \/ ~r.notoken /\ r.code \in { "INTERNAL_ERROR", NoStatus } /\ r.file = NoList
     \/ r.notoken /\ o = "release_files" /\ r.code = "INTERNAL_ERROR" /\ r.file = NoList

\* An answer is of one of the two kinds, and reports the permission there is.
LEMMA AnswerKinds ==
  ASSUME NEW o \in Ops, NEW w \in Worlds, NEW r \in Answers(o, w)
  PROVE  /\ Performed(o, w, r) \/ Untouched(o, w, r)
         /\ r.allowed = r.world.allowed
         /\ r.world \in Worlds
         /\ r.notoken \in BOOLEAN
<1> DEFINE v == Deed(o, w)
<1>1. v \in Worlds
  BY DEF Deed, Worlds
<1>2. ASSUME NEW c, NEW f, NEW bad \in BOOLEAN, NEW x \in Worlds, r = Answer(c, f, bad, x)
      PROVE  /\ r.code = c /\ r.file = f /\ r.world = x
             /\ r.notoken = bad
             /\ r.allowed = r.world.allowed
  BY <1>2 DEF Answer
<1>3. CASE CanDo(o, w) /\ r \in Done(o, w)
  <2>1. PICK c, f : r = Answer(c, f, FALSE, v)
                    /\ \/ c = "SUCCESS" /\ f \in { "SUCCESS", NoList }
                       \/ c \in { "INTERNAL_ERROR", NoStatus } /\ f = NoList
    BY <1>3, Zenon DEF Done
  <2> HIDE DEF v
  <2>2. /\ r.code = c /\ r.file = f /\ r.world = v /\ r.notoken = FALSE
        /\ r.allowed = r.world.allowed
    BY <2>1, <1>1, <1>2
  <2> QED BY <1>1, <1>3, <2>1, <2>2, Zenon DEF Performed, v
<1>4. CASE r \in NotDone(w)
  <2>1. ASSUME r \in Refused(w)
        PROVE  \E c \in REFUSALS, f \in REFUSALS \cup { NoList } : r = Answer(c, f, FALSE, w)
    BY <2>1, Zenon DEF Refused
  <2>2. ASSUME r \in Queued(w)
        PROVE  \E f \in { "REQUEST_QUEUED", NoList } : r = Answer("REQUEST_QUEUED", f, FALSE, w)
    BY <2>2, Zenon DEF Queued
  <2>3. \/ \E c \in REFUSALS, f \in REFUSALS \cup { NoList } : r = Answer(c, f, FALSE, w)
        \/ \E f \in { "REQUEST_QUEUED", NoList } : r = Answer("REQUEST_QUEUED", f, FALSE, w)
        \/ r = Answer("INTERNAL_ERROR", NoList, FALSE, w)
        \/ r = Answer(NoStatus, NoList, FALSE, w)
    BY <1>4, <2>1, <2>2, Zenon DEF NotDone
  <2>4. ASSUME NEW c, NEW f, r = Answer(c, f, FALSE, w)
        PROVE  /\ r.code = c /\ r.file = f /\ r.world = w /\ ~r.notoken
               /\ r.notoken \in BOOLEAN
               /\ r.allowed = r.world.allowed
    BY <2>4, <1>2
  <2>5. CASE \E c \in REFUSALS, f \in REFUSALS \cup { NoList } : r = Answer(c, f, FALSE, w)
    BY <2>4, <2>5, Zenon DEF Untouched
  <2>6. CASE \E f \in { "REQUEST_QUEUED", NoList } : r = Answer("REQUEST_QUEUED", f, FALSE, w)
    BY <2>4, <2>6, Zenon DEF Untouched
  <2>7. CASE r = Answer("INTERNAL_ERROR", NoList, FALSE, w)
    BY <2>4, <2>7, Zenon DEF Untouched
  <2>8. CASE r = Answer(NoStatus, NoList, FALSE, w)
    BY <2>4, <2>8, Zenon DEF Untouched
  <2> QED BY <2>3, <2>5, <2>6, <2>7, <2>8, Zenon
<1>5. CASE r \in UnknownToken(o, w)
  <2>1. o = "release_files" /\ r = Answer("INTERNAL_ERROR", NoList, TRUE, w)
    BY <1>5, Zenon DEF UnknownToken
  <2>2. /\ r.code = "INTERNAL_ERROR" /\ r.file = NoList /\ r.world = w /\ r.notoken = TRUE
        /\ r.allowed = r.world.allowed
    BY <2>1, <1>2
  <2> QED BY <2>1, <2>2, Zenon DEF Untouched
<1> QED BY <1>3, <1>4, <1>5 DEF Answers

\* What is done has the effect it is to have.
LEMMA DeedReachesPost ==
  ASSUME NEW o \in Ops, NEW w \in Worlds, CanDo(o, w), o # "check_permission"
  PROVE  Post(o, Deed(o, w))
BY DEF Ops, RetriedOps, SingleOps, Worlds, CanDo, Deed, Post

\* Permissions are only read.
LEMMA ReadOnly ==
  ASSUME NEW o \in { "check_permission", "get_permission", "extend_file_lifetime" },
         NEW w \in Worlds
  PROVE  Deed(o, w) = w
BY DEF Deed

-----------------------------------------------------------------------------
(* Codes and errnos *)

\* Every code has an errno.
LEMMA StatusErrno ==
  ASSUME NEW c \in StatusCodes
  PROVE  statuscode2errno(c) \in Errnos
BY DEF StatusCodes, statuscode2errno, Errnos

\* A refusal ends the call with an errno.
LEMMA Refusal ==
  ASSUME NEW c \in REFUSALS
  PROVE  /\ c \in StatusCodes
         /\ c \notin { NoStatus, NoList, "SUCCESS", "PARTIAL_SUCCESS", "INTERNAL_ERROR",
                       "REQUEST_QUEUED", "REQUEST_INPROGRESS" }
         /\ ReplyClass(c) = "FAILURE"
         /\ \A g \in BOOLEAN : CallStatus(c, g) = "FAILURE"
         /\ statuscode2errno(c) \in Errnos \ { "OK" }
         /\ statuscode_and_msg_to_errno(c, "none") = statuscode2errno(c)
         /\ srm_call_err(c, "none") \in Errnos \ { "OK" }
<1>1. c \in StatusCodes /\ ReplyClass(c) = "FAILURE" /\ statuscode2errno(c) # "OK"
  BY FileOpsAssumption
<1>2. c \notin { NoStatus, NoList, "SUCCESS", "PARTIAL_SUCCESS", "INTERNAL_ERROR",
                 "REQUEST_QUEUED", "REQUEST_INPROGRESS" }
  BY <1>1 DEF ReplyClass, StatusCodes, NoStatus, NoList
<1>3. \A g \in BOOLEAN : CallStatus(c, g) = "FAILURE"
  BY <1>1 DEF CallStatus, WaitingClasses
<1>4. statuscode2errno(c) \in Errnos \ { "OK" }
  BY <1>1, StatusErrno
<1>5. statuscode_and_msg_to_errno(c, "none") = statuscode2errno(c)
  BY DEF statuscode_and_msg_to_errno
<1>6. srm_call_err(c, "none") \in Errnos \ { "OK" }
  BY <1>4, <1>5 DEF srm_call_err, Errnos
<1> QED BY <1>1, <1>2, <1>3, <1>4, <1>5, <1>6

\* The codes the server is free to use besides refusals.
LEMMA KnownCodes ==
  /\ statuscode2errno("SUCCESS") = "OK"
  /\ statuscode2errno("REQUEST_QUEUED") = "EAGAIN"
  /\ statuscode2errno("INTERNAL_ERROR") = "ECOMM"
  /\ statuscode2errno("INVALID_REQUEST") = "EBADR"
  /\ statuscode2errno(NoStatus) = "EINVAL"
  /\ statuscode_and_msg_to_errno("SUCCESS", "none") = "OK"
  /\ statuscode_and_msg_to_errno("REQUEST_QUEUED", "none") = "EAGAIN"
  /\ srm_call_err("SUCCESS", "none") = "ECOMM"
  /\ srm_call_err("REQUEST_QUEUED", "none") = "EAGAIN"
  /\ srm_call_err("INTERNAL_ERROR", "none") = "ECOMM"
  /\ srm_call_err("INVALID_REQUEST", "none") = "EBADR"
  /\ srm_call_err(NoStatus, "none") = "ECOMM"
<1>1. /\ statuscode2errno("SUCCESS") = "OK"
      /\ statuscode2errno("REQUEST_QUEUED") = "EAGAIN"
      /\ statuscode2errno("INTERNAL_ERROR") = "ECOMM"
      /\ statuscode2errno("INVALID_REQUEST") = "EBADR"
      /\ statuscode2errno(NoStatus) = "EINVAL"
  BY DEF statuscode2errno, NoStatus
<1> QED BY <1>1 DEF statuscode_and_msg_to_errno, srm_call_err, NoStatus

\* What back_off_logic makes of them.
LEMMA KnownClasses ==
  ASSUME NEW g \in BOOLEAN
  PROVE  /\ CallStatus("SUCCESS", g) = "SUCCESS"
         /\ CallStatus(NoStatus, g) = "FAILURE"
         /\ CallStatus("REQUEST_QUEUED", g) = IF g THEN "QUEUED" ELSE "TIMEOUT"
         /\ CallStatus("INTERNAL_ERROR", g) = IF g THEN "INTERNAL_ERROR" ELSE "TIMEOUT"
BY DEF CallStatus, ReplyClass, WaitingClasses, NoStatus

-----------------------------------------------------------------------------
(* What a call returns *)

\* The dispatch, operation by operation.
LEMMA ResultOf ==
  ASSUME NEW o \in Ops, NEW r, NEW cs
  PROVE  /\ o \in RetriedOps /\ cs = "TIMEOUT" => Result(o, r, cs) = Fail("ETIMEDOUT")
         /\ o = "rm" /\ cs # "TIMEOUT" => Result(o, r, cs) = RmResult(r)
         /\ o = "rmdir" /\ cs # "TIMEOUT" => Result(o, r, cs) = RmdirResult(r)
         /\ o = "abort_files" /\ cs # "TIMEOUT" => Result(o, r, cs) = AbortFilesResult(r, cs)
         /\ o \in { "put_done", "release_files" } /\ cs # "TIMEOUT"
              => Result(o, r, cs) = ListResult(StatusOf(o, r, cs), r)
         /\ o = "mv" => Result(o, r, cs) = MvResult(r)
         /\ o = "extend_file_lifetime" => Result(o, r, cs) = ExtendResult(r)
         /\ o = "set_permission" => Result(o, r, cs) = SetPermissionResult(r)
         /\ o = "check_permission" => Result(o, r, cs) = CheckPermissionResult(r)
         /\ o = "get_permission" => Result(o, r, cs) = GetPermissionResult(r)
<1>1. o \in RetriedOps => Result(o, r, cs) = RetriedResult(o, r, cs)
  BY DEF Result, RetriedOps
<1>2. /\ o = "mv" => Result(o, r, cs) = MvResult(r)
      /\ o = "extend_file_lifetime" => Result(o, r, cs) = ExtendResult(r)
      /\ o = "set_permission" => Result(o, r, cs) = SetPermissionResult(r)
      /\ o = "check_permission" => Result(o, r, cs) = CheckPermissionResult(r)
      /\ o = "get_permission" => Result(o, r, cs) = GetPermissionResult(r)
  BY DEF Result, RetriedOps
<1> QED BY <1>1, <1>2 DEF RetriedResult, RetriedOps

\* No answer, or none with a status: the operation is lost.
LEMMA LostResult ==
  ASSUME NEW o \in Ops, NEW r, NEW g \in BOOLEAN,
         r.code = NoStatus, r.file = NoList, ~r.notoken
  PROVE  Result(o, r, CallStatus(r.code, g)) = Fail("ECOMM")
<1>1. CallStatus(r.code, g) = "FAILURE"
  BY KnownClasses
<1>2. /\ RmResult(r) = Fail("ECOMM") /\ RmdirResult(r) = Fail("ECOMM")
      /\ ListResult(NoStatus, r) = Fail("ECOMM") /\ ListResult(r.code, r) = Fail("ECOMM")
  BY KnownCodes DEF RmResult, RmdirResult, ListResult
<1>3. AbortFilesResult(r, "FAILURE") = Fail("ECOMM") /\ ExtendResult(r) = Fail("ECOMM")
  BY <1>2 DEF AbortFilesResult, ExtendResult
<1>4. MvResult(r) = Fail("ECOMM")
  BY KnownCodes DEF MvResult
<1>5. /\ SetPermissionResult(r) = Fail("ECOMM") /\ CheckPermissionResult(r) = Fail("ECOMM")
      /\ GetPermissionResult(r) = Fail("ECOMM")
  BY DEF SetPermissionResult, CheckPermissionResult, GetPermissionResult, NoStatus
<1>6. StatusOf(o, r, "FAILURE") = NoStatus
  BY DEF StatusOf, Hacked
<1> QED BY <1>1, <1>2, <1>3, <1>4, <1>5, <1>6, ResultOf DEF Ops, RetriedOps, SingleOps

\* An internal error that ends a call: the wait was refused, the token is unknown,
\* or the operation does not ask again.
LEMMA InternalErrorResult ==
  ASSUME NEW o \in Ops, NEW r, NEW g \in BOOLEAN,
         r.code = "INTERNAL_ERROR", r.file = NoList, r.notoken \in BOOLEAN,
         r.notoken => o = "release_files",
         ~Again(o, r, CallStatus(r.code, g))
  PROVE  \/ ~r.notoken /\ Result(o, r, CallStatus(r.code, g)) \in { Fail("ECOMM"), Fail("ETIMEDOUT") }
         \/ r.notoken /\ Result(o, r, CallStatus(r.code, g)) \in { Fail("EBADR"), Fail("ETIMEDOUT") }
<1>1. CASE o \in RetriedOps /\ ~g
  BY <1>1, KnownClasses, ResultOf DEF RetriedOps
<1>2. CASE o \in RetriedOps /\ g
  <2>1. CallStatus(r.code, g) = "INTERNAL_ERROR"
    BY <1>2, KnownClasses
  <2>2. Hacked(o, r, "INTERNAL_ERROR") /\ o = "release_files" /\ r.notoken
    BY <1>2, <2>1 DEF Again, Hacked
  <2>3. Result(o, r, "INTERNAL_ERROR") = ListResult("INVALID_REQUEST", r)
    BY <2>2, ResultOf DEF StatusOf
  <2> QED BY <2>1, <2>2, <2>3, KnownCodes DEF ListResult
<1>3. CASE o \in SingleOps
  <2>1. ~r.notoken
    BY <1>3 DEF SingleOps
  <2>2. /\ MvResult(r) = Fail("ECOMM") /\ ExtendResult(r) = Fail("ECOMM")
        /\ SetPermissionResult(r) = Fail("ECOMM") /\ CheckPermissionResult(r) = Fail("ECOMM")
        /\ GetPermissionResult(r) = Fail("ECOMM")
    BY KnownCodes DEF MvResult, ExtendResult, SetPermissionResult, CheckPermissionResult,
       GetPermissionResult, ListResult, NoStatus
  <2> QED BY <1>3, <2>1, <2>2, ResultOf DEF SingleOps
<1> QED BY <1>1, <1>2, <1>3 DEF Ops

\* A call that is refused fails, or returns the error of the file.
LEMMA RefusedResult ==
  ASSUME NEW o \in Ops, NEW r, NEW g \in BOOLEAN, errno \in Errnos,
         r.code \in REFUSALS, r.file \in REFUSALS \cup { NoList }, ~r.notoken
  PROVE  \/ \E e \in Errnos \ { "OK" } : Result(o, r, CallStatus(r.code, g)) = Fail(e)
         \/ \E s \in Errnos \ { "OK" }, e \in Errnos :
               Result(o, r, CallStatus(r.code, g)) = Listed(s, e)
<1> DEFINE Bad(x) == \/ \E e \in Errnos \ { "OK" } : x = Fail(e)
                    \/ \E s \in Errnos \ { "OK" }, e \in Errnos : x = Listed(s, e)
<1>1. /\ CallStatus(r.code, g) = "FAILURE"
      /\ r.code \notin { NoStatus, "SUCCESS", "PARTIAL_SUCCESS" }
      /\ statuscode2errno(r.code) \in Errnos \ { "OK" }
      /\ srm_call_err(r.code, "none") \in Errnos \ { "OK" }
  BY Refusal
<1>2. r.file # NoList => /\ statuscode2errno(r.file) \in Errnos \ { "OK" }
                        /\ statuscode_and_msg_to_errno(r.file, "none") \in Errnos \ { "OK" }
  BY Refusal
<1>3. "OK" \in Errnos
  BY DEF Errnos
<1>4. Bad(ListResult(r.code, r)) /\ Bad(RmResult(r))
  BY <1>1, <1>2, <1>3, Zenon DEF ListResult, RmResult
<1>5. Bad(RmdirResult(r)) /\ Bad(AbortFilesResult(r, "FAILURE")) /\ Bad(ExtendResult(r))
  BY <1>1, <1>3, <1>4, Zenon DEF RmdirResult, AbortFilesResult, ExtendResult
<1>6. Bad(MvResult(r))
  BY <1>1 DEF MvResult
<1>7. Bad(SetPermissionResult(r)) /\ Bad(GetPermissionResult(r))
  BY <1>1 DEF SetPermissionResult, GetPermissionResult
<1>8. Bad(CheckPermissionResult(r))
  <2>1. CASE r.file = NoList
    BY <2>1 DEF CheckPermissionResult, Errnos
  <2>2. CASE r.file # NoList
    BY <1>1, <1>2, <2>2 DEF CheckPermissionResult
  <2> QED BY <2>1, <2>2
<1>9. StatusOf(o, r, "FAILURE") = r.code
  BY DEF StatusOf, Hacked
<1>10. Bad(Result(o, r, "FAILURE"))
  <2> HIDE DEF Bad
  <2> QED BY <1>4, <1>5, <1>6, <1>7, <1>8, <1>9, ResultOf DEF Ops, RetriedOps, SingleOps
<1> QED BY <1>1, <1>10

\* A queued answer is an error; abort_files does not say which.
LEMMA QueuedResult ==
  ASSUME NEW o \in Ops, NEW r, NEW g \in BOOLEAN, errno \in Errnos,
         r.code = "REQUEST_QUEUED", r.file \in { "REQUEST_QUEUED", NoList }, ~r.notoken
  PROVE  \/ \E e \in Errnos \ { "OK" } : Result(o, r, CallStatus(r.code, g)) = Fail(e)
         \/ \E e \in Errnos : Result(o, r, CallStatus(r.code, g)) = Listed("EAGAIN", e)
         \/ o = "abort_files" /\ Result(o, r, CallStatus(r.code, g)) = Fail(errno)
<1> DEFINE Bad(x) == \/ \E e \in Errnos \ { "OK" } : x = Fail(e)
                    \/ \E e \in Errnos : x = Listed("EAGAIN", e)
<1>1. { "OK", "EAGAIN", "ETIMEDOUT", "ECOMM" } \subseteq Errnos
  BY DEF Errnos
<1>2. r.code \notin { NoStatus, "SUCCESS", "PARTIAL_SUCCESS" }
  BY DEF NoStatus
<1>3. Bad(ListResult(r.code, r)) /\ Bad(RmResult(r))
  BY <1>1, <1>2, KnownCodes DEF ListResult, RmResult
<1>4. Bad(RmdirResult(r)) /\ Bad(ExtendResult(r))
  BY <1>1, <1>2, <1>3, KnownCodes DEF RmdirResult, ExtendResult
<1>5. Bad(MvResult(r))
  BY <1>1, <1>2, KnownCodes DEF MvResult
<1>6. Bad(SetPermissionResult(r)) /\ Bad(GetPermissionResult(r))
  BY <1>1, <1>2, KnownCodes DEF SetPermissionResult, GetPermissionResult
<1>7. Bad(CheckPermissionResult(r))
  BY <1>1, <1>2, KnownCodes DEF CheckPermissionResult
<1>8. StatusOf(o, r, "QUEUED") = r.code /\ AbortFilesResult(r, "QUEUED") = Fail(errno)
  BY DEF StatusOf, Hacked, AbortFilesResult
<1>9. Bad(Fail("ETIMEDOUT"))
  BY <1>1
<1>10. \/ Bad(Result(o, r, "QUEUED"))
       \/ o = "abort_files" /\ Result(o, r, "QUEUED") = Fail(errno)
  <2> HIDE DEF Bad
  <2> QED BY <1>3, <1>4, <1>5, <1>6, <1>7, <1>8, ResultOf DEF Ops, RetriedOps, SingleOps
<1>11. \/ Bad(Result(o, r, "TIMEOUT"))
  <2> HIDE DEF Bad
  <2> QED BY <1>5, <1>4, <1>6, <1>7, <1>9, ResultOf DEF Ops, RetriedOps, SingleOps
<1> QED BY <1>10, <1>11, KnownClasses

\* A call that is answered by a success succeeds, or lacks what it needs from the
\* answer; mv also fails on the errno of an earlier call.
LEMMA SuccessResult ==
  ASSUME NEW o \in Ops, NEW r, NEW g \in BOOLEAN,
         r.code = "SUCCESS", r.file \in { "SUCCESS", NoList }, ~r.notoken
  PROVE  LET x == Result(o, r, CallStatus(r.code, g))
         IN  \/ x = Listed("OK", "OK") /\ o \notin { "mv", "set_permission", "check_permission" }
             \/ x = Plain(errno) /\ o = "set_permission"
             \/ x = Plain("OK") /\ o = "mv"
             \/ x = Fail(errno) /\ errno # "OK" /\ o = "mv"
             \/ x = Listed("OK", errno) /\ o = "check_permission" /\ r.allowed
             \/ x = Listed("EACCES", errno) /\ o = "check_permission"
             \/ x = Fail("ECOMM")
             \/ x = Fail("EFAULT") /\ o = "get_permission"
<1>1. CallStatus(r.code, g) = "SUCCESS"
  BY KnownClasses
<1>2. r.code # NoStatus /\ NoList # "SUCCESS"
  BY DEF NoStatus, NoList
<1>3. /\ ListResult(r.code, r) \in { Listed("OK", "OK"), Fail("ECOMM") }
      /\ RmResult(r) \in { Listed("OK", "OK"), Fail("ECOMM") }
  BY <1>2, KnownCodes DEF ListResult, RmResult
<1>4. /\ RmdirResult(r) = Listed("OK", "OK")
      /\ ExtendResult(r) \in { Listed("OK", "OK"), Fail("ECOMM") }
      /\ AbortFilesResult(r, "SUCCESS") \in { Listed("OK", "OK"), Fail("ECOMM") }
  BY <1>2, <1>3, KnownCodes DEF RmdirResult, ExtendResult, AbortFilesResult
<1>5. MvResult(r) = IF errno = "OK" THEN Plain("OK") ELSE Fail(errno)
  BY <1>2, KnownCodes DEF MvResult
<1>6. /\ SetPermissionResult(r) = Plain(errno)
      /\ GetPermissionResult(r) \in { Listed("OK", "OK"), Fail("EFAULT") }
  BY <1>2, KnownCodes DEF SetPermissionResult, GetPermissionResult
<1>7. \/ CheckPermissionResult(r) \in { Fail("ECOMM"), Listed("EACCES", errno) }
      \/ CheckPermissionResult(r) = Listed("OK", errno) /\ r.allowed
  BY <1>2, KnownCodes DEF CheckPermissionResult
<1>8. StatusOf(o, r, "SUCCESS") = r.code
  BY DEF StatusOf, Hacked
<1> QED BY <1>1, <1>3, <1>4, <1>5, <1>6, <1>7, <1>8, ResultOf DEF Ops, RetriedOps, SingleOps

-----------------------------------------------------------------------------
(* What a call means when it ends *)

Good(x) == x.ret >= 0 /\ x.status \in { "OK", Nothing }
Unclear(x) == x.ret = -1 /\ x.errno \in { "ECOMM", "ETIMEDOUT" }

\* What the properties ask of the result x that operation o makes of the answer r
\* to an attempt made on the entry w.
Concluded(o, w, r, x) ==
  /\ x \in Results
  /\ Good(x) => Post(o, r.world)
  /\ ~Good(x) /\ ~Unclear(x) /\ ~(o = "mv" /\ errno # "OK" /\ x.errno = errno) => r.world = w
  /\ x.ret = -1 /\ x.errno = "OK" => o = "abort_files" /\ errno = "OK"
  /\ r.notoken => x.ret = -1 /\ x.errno \in { "EBADR", "ETIMEDOUT" }

\* The three kinds of result.
LEMMA ResultShapes ==
  ASSUME NEW e \in Errnos, NEW s \in Errnos
  PROVE  /\ Fail(e) \in Results /\ Fail(e).ret = -1 /\ Fail(e).errno = e /\ ~Good(Fail(e))
         /\ Plain(e) \in Results /\ Plain(e).ret # -1 /\ Good(Plain(e))
         /\ Listed(s, e) \in Results /\ Listed(s, e).ret # -1 /\ (Good(Listed(s, e)) <=> s = "OK")
<1>1. Nothing \notin Errnos
  BY DEF Nothing, Errnos
<1> QED BY <1>1 DEF Fail, Plain, Listed, Good, Results

\* The end of a call that failed without effect.
LEMMA FailureConcludes ==
  ASSUME NEW o \in Ops, NEW w, NEW r, NEW x, ~r.notoken, r.world = w, errno \in Errnos,
         \/ \E e \in Errnos \ { "OK" } : x = Fail(e)
         \/ \E s \in Errnos \ { "OK" }, e \in Errnos : x = Listed(s, e)
         \/ o = "abort_files" /\ x = Fail(errno)
  PROVE  Concluded(o, w, r, x)
<1>1. CASE \E e \in Errnos \ { "OK" } : x = Fail(e)
  <2>1. PICK e \in Errnos \ { "OK" } : x = Fail(e)
    BY <1>1
  <2>2. "OK" \in Errnos
    BY DEF Errnos
  <2>3. x \in Results /\ ~Good(x) /\ x.errno # "OK"
    BY <2>1, <2>2, ResultShapes
  <2> QED BY <2>3, Zenon DEF Concluded
<1>2. CASE \E s \in Errnos \ { "OK" }, e \in Errnos : x = Listed(s, e)
  <2>1. PICK s \in Errnos \ { "OK" }, e \in Errnos : x = Listed(s, e)
    BY <1>2
  <2>2. x \in Results /\ ~Good(x) /\ x.ret # -1
    BY <2>1, ResultShapes
  <2> QED BY <2>2, Zenon DEF Concluded
<1>3. CASE o = "abort_files" /\ x = Fail(errno)
  <2>1. x \in Results /\ ~Good(x) /\ x.errno = errno
    BY <1>3, ResultShapes
  <2> QED BY <1>3, <2>1, Zenon DEF Concluded
<1> QED BY <1>1, <1>2, <1>3

\* The end of a call of which it is not known what it did.
LEMMA UnclearConcludes ==
  ASSUME NEW o \in Ops, NEW w, NEW r, NEW x, NEW e \in { "ECOMM", "ETIMEDOUT" },
         x = Fail(e), r.notoken => e = "ETIMEDOUT"
  PROVE  Concluded(o, w, r, x)
<1>1. e \in Errnos /\ e # "OK"
  BY DEF Errnos
<1>2. x \in Results /\ x.ret = -1 /\ x.errno = e /\ ~Good(x)
  BY <1>1, ResultShapes
<1> QED BY <1>1, <1>2 DEF Concluded, Unclear

\* Every answer that ends a call ends it as the properties ask.
LEMMA Conclusion ==
  ASSUME NEW o \in Ops, NEW w \in Worlds, NEW r \in Answers(o, w), NEW g \in BOOLEAN,
         errno \in Errnos, ~Again(o, r, CallStatus(r.code, g))
  PROVE  Concluded(o, w, r, Result(o, r, CallStatus(r.code, g)))
<1> SUFFICES ASSUME NEW x, x = Result(o, r, CallStatus(r.code, g))
             PROVE  Concluded(o, w, r, x)
  OBVIOUS
<1>1. /\ Performed(o, w, r) \/ Untouched(o, w, r)
      /\ r.allowed = r.world.allowed
      /\ r.notoken \in BOOLEAN
  BY AnswerKinds
<1>2. CASE ~r.notoken /\ r.code = NoStatus /\ r.file = NoList
  <2>1. x = Fail("ECOMM")
    BY <1>2, LostResult
  <2> QED BY <1>2, <2>1, UnclearConcludes
<1>3. CASE ~r.notoken /\ r.code = "INTERNAL_ERROR" /\ r.file = NoList
  <2>1. x \in { Fail("ECOMM"), Fail("ETIMEDOUT") }
    BY <1>1, <1>3, InternalErrorResult
  <2> QED BY <1>3, <2>1, UnclearConcludes
<1>4. CASE r.notoken /\ o = "release_files" /\ r.code = "INTERNAL_ERROR" /\ r.file = NoList
  <2>1. x \in { Fail("EBADR"), Fail("ETIMEDOUT") }
    BY <1>4, InternalErrorResult
  <2>2. r.world = w
    BY <1>1, <1>4, Zenon DEF Performed, Untouched
  <2>3. CASE x = Fail("ETIMEDOUT")
    BY <2>3, UnclearConcludes
  <2>4. CASE x = Fail("EBADR")
    <3>1. x \in Results /\ x.ret = -1 /\ x.errno = "EBADR" /\ ~Good(x)
      <4>1. "EBADR" \in Errnos
        BY DEF Errnos
      <4> QED BY <2>4, <4>1, ResultShapes
    <3> QED BY <2>2, <3>1 DEF Concluded
  <2> QED BY <2>1, <2>3, <2>4
<1>5. CASE r.world = w /\ ~r.notoken /\ r.code \in REFUSALS /\ r.file \in REFUSALS \cup { NoList }
  <2>1. \/ \E e \in Errnos \ { "OK" } : x = Fail(e)
        \/ \E s \in Errnos \ { "OK" }, e \in Errnos : x = Listed(s, e)
    BY <1>5, RefusedResult
  <2> QED BY <1>5, <2>1, FailureConcludes
<1>6. CASE r.world = w /\ ~r.notoken /\ r.code = "REQUEST_QUEUED" /\ r.file \in { "REQUEST_QUEUED", NoList }
  <2>1. \/ \E e \in Errnos \ { "OK" } : x = Fail(e)
        \/ \E e \in Errnos : x = Listed("EAGAIN", e)
        \/ o = "abort_files" /\ x = Fail(errno)
    BY <1>6, QueuedResult
  <2>2. "EAGAIN" \in Errnos \ { "OK" }
    BY DEF Errnos
  <2> QED BY <1>6, <2>1, <2>2, FailureConcludes
<1>7. CASE Performed(o, w, r) /\ r.code = "SUCCESS" /\ r.file \in { "SUCCESS", NoList }
  <2>1. \/ x = Listed("OK", "OK") /\ o \notin { "mv", "set_permission", "check_permission" }
        \/ x = Plain(errno) /\ o = "set_permission"
        \/ x = Plain("OK") /\ o = "mv"
        \/ x = Fail(errno) /\ errno # "OK" /\ o = "mv"
        \/ x = Listed("OK", errno) /\ o = "check_permission" /\ r.allowed
        \/ x = Listed("EACCES", errno) /\ o = "check_permission"
        \/ x = Fail("ECOMM")
        \/ x = Fail("EFAULT") /\ o = "get_permission"
    BY <1>7, SuccessResult DEF Performed
  <2>2. ~r.notoken /\ r.world = Deed(o, w) /\ CanDo(o, w)
    BY <1>7 DEF Performed
  <2>3. { "OK", "EACCES", "ECOMM", "EFAULT" } \subseteq Errnos
    BY DEF Errnos
  <2>4. o # "check_permission" => Post(o, r.world)
    BY <2>2, DeedReachesPost
  <2>5. o \in { "check_permission", "get_permission" } => r.world = w
    BY <2>2, ReadOnly
  <2>6. CASE \/ x = Listed("OK", "OK") /\ o \notin { "mv", "set_permission", "check_permission" }
             \/ x = Plain(errno) /\ o = "set_permission"
             \/ x = Plain("OK") /\ o = "mv"
    <3>1. x \in Results /\ Good(x) /\ x.ret # -1
      BY <2>3, <2>6, ResultShapes
    <3> QED BY <2>2, <2>4, <2>6, <3>1, Zenon DEF Concluded
  <2>7. CASE x = Fail(errno) /\ errno # "OK" /\ o = "mv"
    <3>1. x \in Results /\ ~Good(x) /\ x.errno = errno
      BY <2>7, ResultShapes
    <3> QED BY <2>2, <2>7, <3>1, Zenon DEF Concluded
  <2>8. CASE x = Listed("OK", errno) /\ o = "check_permission" /\ r.allowed
    <3>1. x \in Results /\ Good(x) /\ x.ret # -1
      BY <2>3, <2>8, ResultShapes
    <3>2. Post(o, r.world)
      BY <1>1, <2>8 DEF Post
    <3> QED BY <2>2, <3>1, <3>2, Zenon DEF Concluded
  <2>9. CASE x = Listed("EACCES", errno) /\ o = "check_permission"
    <3>1. x \in Results /\ ~Good(x) /\ x.ret # -1
      BY <2>3, <2>9, ResultShapes
    <3> QED BY <2>2, <2>5, <2>9, <3>1, Zenon DEF Concluded
  <2>10. CASE x = Fail("ECOMM")
    BY <2>2, <2>10, UnclearConcludes
  <2>11. CASE x = Fail("EFAULT") /\ o = "get_permission"
    <3>1. x \in Results /\ ~Good(x) /\ x.errno = "EFAULT"
      BY <2>3, <2>11, ResultShapes
    <3> QED BY <2>2, <2>5, <2>11, <3>1 DEF Concluded
  <2> QED BY <2>1, <2>6, <2>7, <2>8, <2>9, <2>10, <2>11
<1>8. \/ Performed(o, w, r) /\ r.code = "SUCCESS" /\ r.file \in { "SUCCESS", NoList }
      \/ ~r.notoken /\ r.code \in { "INTERNAL_ERROR", NoStatus } /\ r.file = NoList
      \/ r.world = w /\ ~r.notoken /\ r.code \in REFUSALS /\ r.file \in REFUSALS \cup { NoList }
      \/ r.world = w /\ ~r.notoken /\ r.code = "REQUEST_QUEUED"
           /\ r.file \in { "REQUEST_QUEUED", NoList }
      \/ r.notoken /\ o = "release_files" /\ r.code = "INTERNAL_ERROR" /\ r.file = NoList
  BY <1>1, Zenon DEF Performed, Untouched
<1> QED BY <1>2, <1>3, <1>4, <1>5, <1>6, <1>7, <1>8

-----------------------------------------------------------------------------
(* The invariant *)

\* While a call is under way: no attempt that would be its last was made, errno is
\* that of the call, and the first attempt finds the entry the call was made on.
CallInv ==
  pc = "call" => /\ ~badtoken
                 /\ errno = prior
                 /\ retries = 0 /\ ~touched => world = before

IInv ==
  /\ TypeOK
  /\ CallInv
  /\ SuccessMeansDone /\ ErrorMeansUndone /\ FailureExplained /\ UnknownTokenEnds

\* It holds at the start.
LEMMA InitIInv == Init => IInv
<1> SUFFICES ASSUME Init PROVE IInv
  OBVIOUS
<1>1. "OK" \in Errnos /\ result = Listed("OK", "OK") /\ result \in Results
      /\ result.ret # -1 /\ Succeeded
  <2>1. "OK" \in Errnos
    BY DEF Errnos
  <2>2. Listed("OK", "OK") \in Results /\ Listed("OK", "OK").ret # -1
    BY <2>1, ResultShapes
  <2>3. Listed("OK", "OK").status = "OK" /\ Listed("OK", "OK").ret = 1
    BY DEF Listed
  <2> QED BY <2>1, <2>2, <2>3 DEF Init, Succeeded
<1>2. TypeOK
  <2>1. retries \in 0 .. RETRIES /\ op \in Ops
    BY FileOpsAssumption DEF Init, Ops, SingleOps
  <2> QED BY <1>1, <2>1, Zenon DEF Init, TypeOK
<1> QED BY <1>1, <1>2 DEF Init, IInv, CallInv, SuccessMeansDone, Post, ErrorMeansUndone,
    FailureExplained, UnknownTokenEnds

\* It is kept when a call begins.
LEMMA CallIInv == IInv /\ Call => IInv'
<1> SUFFICES ASSUME IInv, Call PROVE IInv'
  OBVIOUS
<1>1. PICK e \in { "OK", errno } : result' = [ result EXCEPT !.errno = e ] /\ prior' = e
  BY DEF Call
<1>2. result' \in Results /\ result'.errno = e /\ e \in Errnos
  BY <1>1 DEF IInv, TypeOK, Results, errno, Errnos
<1>3. pc' = "call" /\ op' \in Ops /\ retries' = 0 /\ badtoken' = FALSE /\ before' = world
      /\ touched' = FALSE /\ world' = world
  BY DEF Call
<1>4. TypeOK'
  <2>1. retries' \in 0 .. RETRIES
    BY <1>3, FileOpsAssumption
  <2> QED BY <1>1, <1>2, <1>3, <2>1, Zenon DEF IInv, TypeOK
<1> QED BY <1>1, <1>2, <1>3, <1>4 DEF IInv, CallInv, SuccessMeansDone, ErrorMeansUndone,
    FailureExplained, UnknownTokenEnds, errno

\* It is kept when the server is asked.
LEMMA AskIInv == IInv /\ Ask => IInv'
<1> SUFFICES ASSUME IInv, Ask PROVE IInv'
  OBVIOUS
<1>1. PICK r \in Answers(op, world), granted \in { g \in BOOLEAN : g => retries < RETRIES } :
        /\ world' = r.world
        /\ badtoken' = r.notoken
        /\ IF Again(op, r, CallStatus(r.code, granted))
           THEN retries' = retries + 1 /\ pc' = pc /\ result' = result
           ELSE /\ pc' = "idle"
                /\ result' = Result(op, r, CallStatus(r.code, granted))
                /\ retries' = retries
  BY Zenon DEF Ask
<1>2. pc = "call" /\ op' = op /\ before' = before /\ prior' = prior /\ touched' = touched
  BY DEF Ask, history
<1>3. /\ TypeOK
      /\ op \in Ops /\ world \in Worlds /\ granted \in BOOLEAN /\ errno \in Errnos
      /\ ~badtoken /\ errno = prior /\ (retries = 0 /\ ~touched => world = before)
  <2>1. TypeOK /\ CallInv
    BY DEF IInv
  <2>2. errno \in Errnos
    BY <2>1 DEF TypeOK, Results, errno
  <2>3. granted \in BOOLEAN
    OBVIOUS
  <2> QED BY <1>2, <2>1, <2>2, <2>3 DEF TypeOK, CallInv
<1>4. r.world \in Worlds /\ r.notoken \in BOOLEAN
  BY <1>3, AnswerKinds
<1>5. CASE Again(op, r, CallStatus(r.code, granted))
  <2>1. retries' = retries + 1 /\ pc' = "call" /\ result' = result
    BY <1>1, <1>2, <1>5
  <2>2. granted
    BY <1>5 DEF Again, CallStatus, WaitingClasses
  <2>3. retries' \in 1 .. RETRIES
    <3>1. retries \in 0 .. RETRIES /\ retries < RETRIES
      BY <1>3, <2>2, Zenon DEF TypeOK
    <3> QED BY <2>1, <3>1, FileOpsAssumption
  <2>4. ~r.notoken
    <3>1. CallStatus(r.code, granted) = "INTERNAL_ERROR"
      BY <1>5 DEF Again
    <3>2. r.notoken => op = "release_files"
      BY <1>3, AnswerKinds DEF Performed, Untouched
    <3> QED BY <1>5, <3>1, <3>2 DEF Again, Hacked
  <2>5. TypeOK'
    BY <1>1, <1>2, <1>3, <1>4, <2>1, <2>3 DEF TypeOK
  <2>6. errno' = prior' /\ ~badtoken'
    BY <1>1, <1>2, <1>3, <2>1, <2>4 DEF errno
  <2> QED BY <2>1, <2>3, <2>5, <2>6 DEF IInv, CallInv, SuccessMeansDone, ErrorMeansUndone,
      FailureExplained, UnknownTokenEnds
<1>6. CASE ~Again(op, r, CallStatus(r.code, granted))
  <2>1. pc' = "idle" /\ retries' = retries /\ Concluded(op, world, r, result')
    BY <1>1, <1>3, <1>6, Conclusion
  <2>2. result' \in Results
    BY <2>1 DEF Concluded
  <2>3. TypeOK'
    BY <1>1, <1>2, <1>3, <1>4, <2>1, <2>2 DEF TypeOK
  <2>4. Succeeded' = Good(result') /\ Unknown' = Unclear(result') /\ errno' = result'.errno
    BY DEF Succeeded, Unknown, Good, Unclear, errno
  <2>5. SuccessMeansDone'
    BY <1>1, <1>2, <2>1, <2>4 DEF SuccessMeansDone, Concluded
  <2>6. ErrorMeansUndone'
    BY <1>1, <1>2, <1>3, <2>1, <2>4 DEF ErrorMeansUndone, Concluded
  <2>7. FailureExplained'
    BY <1>2, <1>3, <2>1, <2>4 DEF FailureExplained, Concluded
  <2>8. UnknownTokenEnds'
    BY <1>1, <2>1, <2>4 DEF UnknownTokenEnds, Concluded
  <2> QED BY <2>1, <2>3, <2>5, <2>6, <2>7, <2>8 DEF IInv, CallInv
<1> QED BY <1>5, <1>6

\* It is kept whatever others do to the entry.
LEMMA ElsewhereIInv == IInv /\ Elsewhere => IInv'
<1> SUFFICES ASSUME IInv, Elsewhere PROVE IInv'
  OBVIOUS
<1>1. /\ world' \in Worlds /\ touched' = TRUE
      /\ pc' = pc /\ op' = op /\ result' = result /\ retries' = retries
      /\ badtoken' = badtoken /\ before' = before /\ prior' = prior
  BY DEF Elsewhere
<1>2. TypeOK'
  BY <1>1 DEF IInv, TypeOK
<1>3. FailureExplained' /\ UnknownTokenEnds'
  BY <1>1 DEF IInv, FailureExplained, UnknownTokenEnds, errno
<1> QED BY <1>1, <1>2, <1>3 DEF IInv, CallInv, SuccessMeansDone, ErrorMeansUndone, errno

\* It is an invariant.
THEOREM Invariant == Spec => []IInv
<1>1. IInv /\ [Next]_vars => IInv'
  <2> SUFFICES ASSUME IInv, [Next]_vars PROVE IInv'
    OBVIOUS
  <2>1. CASE UNCHANGED vars
    BY <2>1 DEF vars, history, IInv, TypeOK, CallInv, SuccessMeansDone, ErrorMeansUndone,
       FailureExplained, UnknownTokenEnds, Succeeded, Unknown, errno
  <2> QED BY <2>1, CallIInv, AskIInv, ElsewhereIInv DEF Next
<1> QED BY <1>1, InitIInv, PTL DEF Spec

-----------------------------------------------------------------------------
(* The properties *)

\* Every variable stays in its range (the state of SrmFileOps).
THEOREM TypeCorrect == Spec => []TypeOK
BY Invariant, PTL DEF IInv

\* A success is the truth (rm, rmdir, mv, put_done, the permission calls, ...).
THEOREM SuccessIsTrue == Spec => []SuccessMeansDone
BY Invariant, PTL DEF IInv

\* An error at the first attempt, other than a lost answer or a timeout, has no
\* effect (the same operations, except for the stale errno of mv).
THEOREM ErrorIsTrue == Spec => []ErrorMeansUndone
BY Invariant, PTL DEF IInv

\* A failure has an errno (all operations but a queued abort_files).
THEOREM FailuresExplained == Spec => []FailureExplained
BY Invariant, PTL DEF IInv

\* A release with an unknown token is not asked again (the Castor hack).
THEOREM ReleaseGivesUp == Spec => []UnknownTokenEnds
BY Invariant, PTL DEF IInv
=============================================================================
