------------------------------ MODULE SrmStatus ------------------------------
(***************************************************************************)
(* Status codes of SRM v2.2 replies and the two classifications the whole  *)
(* library is built on: the errno a code is turned into, and the call      *)
(* status the polling loops act on.  Pure definitions, no state.           *)
(***************************************************************************)
\* A reply whose returnStatus pointer is NULL.
NoStatus == "NoStatus"

\* The codes the library names somewhere; "OTHER" stands for those that reach
\* only the default branches (REQUEST_SUSPENDED, FILE_IN_CACHE, ...).
StatusCodes ==
  { "SUCCESS", "PARTIAL_SUCCESS", "DONE", "TOO_MANY_RESULTS", "FAILURE",
    "AUTHENTICATION_FAILURE", "AUTHORIZATION_FAILURE", "INVALID_REQUEST",
    "INVALID_PATH", "FILE_LIFETIME_EXPIRED", "SPACE_LIFETIME_EXPIRED",
    "EXCEED_ALLOCATION", "NO_USER_SPACE", "NO_FREE_SPACE", "DUPLICATION_ERROR",
    "NON_EMPTY_DIRECTORY", "INTERNAL_ERROR", "NOT_SUPPORTED",
    "REQUEST_QUEUED", "REQUEST_INPROGRESS", "ABORTED", "RELEASED",
    "FILE_PINNED", "SPACE_AVAILABLE", "FILE_BUSY", "FILE_LOST",
    "FILE_UNAVAILABLE", "OTHER" }

\* Explanations only matter for the three patterns the code searches for.
Explanations == { "none", "exists", "nofile" }

Errnos ==
  { "OK", "ENOENT", "EACCES", "EEXIST", "ENOSPC", "ECOMM", "EOPNOTSUPP",
    "ENOTEMPTY", "ETIME", "EAGAIN", "EIO", "EBADR", "EDQUOT", "EBUSY", "EIDRM",
    "ECANCELED", "EFBIG", "EINVAL", "ETIMEDOUT", "ENOMEM", "EFAULT" }

statuscode2errno(c) ==
  CASE c = "INVALID_PATH"            -> "ENOENT"
    [] c \in { "AUTHENTICATION_FAILURE", "AUTHORIZATION_FAILURE" } -> "EACCES"
    [] c = "DUPLICATION_ERROR"       -> "EEXIST"
    [] c = "NO_FREE_SPACE"           -> "ENOSPC"
    [] c = "INTERNAL_ERROR"          -> "ECOMM"
    [] c = "NOT_SUPPORTED"           -> "EOPNOTSUPP"
    [] c = "NON_EMPTY_DIRECTORY"     -> "ENOTEMPTY"
    [] c = "FILE_LIFETIME_EXPIRED"   -> "ETIME"
    [] c \in { "REQUEST_INPROGRESS", "REQUEST_QUEUED" } -> "EAGAIN"
    [] c = "FAILURE"                 -> "EIO"
    [] c \in { "NO_USER_SPACE", "INVALID_REQUEST" } -> "EBADR"
    [] c = "EXCEED_ALLOCATION"       -> "EDQUOT"
    [] c \in { "FILE_BUSY", "FILE_UNAVAILABLE" } -> "EBUSY"
    [] c = "FILE_LOST"               -> "EIDRM"
    [] c = "ABORTED"                 -> "ECANCELED"
    [] c = "TOO_MANY_RESULTS"        -> "EFBIG"
    [] c \in { "SUCCESS", "FILE_PINNED", "SPACE_AVAILABLE", "RELEASED" } -> "OK"
    [] OTHER                         -> "EINVAL"

\* The message refines only the two vague errnos.
statuscode_and_msg_to_errno(c, msg) ==
  LET e == statuscode2errno(c)
  IN  IF e \notin { "EINVAL", "EIO" } THEN e
      ELSE CASE msg = "exists" -> "EEXIST"
             [] msg = "nofile" -> "ENOENT"
             [] OTHER          -> e

\* The errno of a call that failed although a reply arrived.
srm_call_err(c, msg) ==
  IF c \in { NoStatus, "SUCCESS", "PARTIAL_SUCCESS", "DONE", "TOO_MANY_RESULTS" }
  THEN "ECOMM"
  ELSE statuscode_and_msg_to_errno(c, msg)

CallStatuses == { "SUCCESS", "FAILURE", "TIMEOUT", "QUEUED", "INTERNAL_ERROR" }

\* back_off_logic's switch: what a reply asks of the polling loop, before any
\* wait.  The two waiting classes become TIMEOUT when the wait is refused.
ReplyClass(c) ==
  CASE c = "INTERNAL_ERROR"                             -> "INTERNAL_ERROR"
    [] c \in { "REQUEST_QUEUED", "REQUEST_INPROGRESS" } -> "QUEUED"
    [] c \in { "SUCCESS", "PARTIAL_SUCCESS" }           -> "SUCCESS"
    [] OTHER                                            -> "FAILURE"

WaitingClasses == { "INTERNAL_ERROR", "QUEUED" }
=============================================================================
