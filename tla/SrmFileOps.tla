------------------------------ MODULE SrmFileOps ------------------------------
(***************************************************************************)
(* The operations that are answered at once, one after another in one      *)
(* application thread, on one entry of the server's name space: rm, rmdir, *)
(* mv, put_done, abort_files, release_files, extend_file_lifetime and the  *)
(* permission calls.  Some of them ask again while the server has an       *)
(* internal error; it may have done what it was asked before it failed,    *)
(* and answers get lost.  What the waits cost is the subject of SrmBackoff:*)
(* here one is granted or refused.                                         *)
(***************************************************************************)
EXTENDS Integers, SrmStatus

CONSTANTS
  REFUSALS,   \* codes with which the server refuses an operation
  RETRIES     \* waits granted to one call (bound)

ASSUME FileOpsAssumption ==
  /\ RETRIES \in Nat
  /\ REFUSALS \subseteq
       { c \in StatusCodes : ReplyClass(c) = "FAILURE" /\ statuscode2errno(c) # "OK" }

RetriedOps == { "rm", "rmdir", "put_done", "release_files", "abort_files" }
SingleOps  == { "mv", "extend_file_lifetime", "set_permission",
                "check_permission", "get_permission" }
Ops        == RetriedOps \cup SingleOps

\* The entry: being written under a put request, in place, or moved away; held by
\* a pin; open to what check_permission asks for.
Worlds == [ entry   : { "absent", "writing", "stored", "moved" },
            pinned  : BOOLEAN,
            allowed : BOOLEAN ]

\* The array of file statuses is missing.  An empty one is treated alike, except by
\* get_permission, which returns 0 for it.
NoList == "NoList"

\* No status of a file was handed over.
Nothing == "Nothing"

Results == [ ret : { -1, 0, 1 }, status : Errnos \cup { Nothing }, errno : Errnos ]

VARIABLES
  world,     \* server: the entry
  pc,        \* "idle": in the application; "call": about to ask the server
  op,        \* the current, or last, operation
  result,    \* what the last one returned, the file's status in it, and errno
  retries,   \* waits granted to the call so far
  badtoken,  \* the last answer said "Request token not found"
  before,    \* history: the entry when the call was made
  prior,     \* history: errno when the call was made
  touched    \* history: somebody else changed the entry since the call was made

history == << before, prior, touched >>
vars == << world, pc, op, result, retries, badtoken, history >>

TypeOK ==
  /\ world \in Worlds /\ before \in Worlds
  /\ pc \in { "idle", "call" }
  /\ op \in Ops
  /\ result \in Results
  /\ retries \in 0 .. RETRIES
  /\ badtoken \in BOOLEAN /\ touched \in BOOLEAN
  /\ prior \in Errnos

errno == result.errno

-----------------------------------------------------------------------------
(* The server (external) *)

CanDo(o, w) ==
  CASE o \in { "rm", "rmdir", "mv" }                     -> w.entry = "stored"
    [] o \in { "put_done", "abort_files" }               -> w.entry = "writing"
    [] o \in { "release_files", "extend_file_lifetime" } -> w.pinned
    [] OTHER                                             -> w.entry # "absent"

Deed(o, w) ==
  CASE o \in { "rm", "rmdir", "abort_files" } -> [ w EXCEPT !.entry = "absent", !.pinned = FALSE ]
    [] o = "put_done"       -> [ w EXCEPT !.entry = "stored" ]
    [] o = "mv"             -> [ w EXCEPT !.entry = "moved" ]
    [] o = "release_files"  -> [ w EXCEPT !.pinned = FALSE ]
    [] o = "set_permission" -> [ w EXCEPT !.allowed = TRUE ]
    [] OTHER                -> w

\* An answer, and the entry after it.  file is the status of the one file.
Answer(c, f, bad, w) ==
  [ code |-> c, file |-> f, allowed |-> w.allowed, notoken |-> bad, world |-> w ]

\* It does it and says so, with or without a list, or fails on the way back.
Done(o, w) ==
  LET v == Deed(o, w)
  IN  { Answer("SUCCESS", "SUCCESS", FALSE, v), Answer("SUCCESS", NoList, FALSE, v),
        Answer("INTERNAL_ERROR", NoList, FALSE, v), Answer(NoStatus, NoList, FALSE, v) }

\* It refuses, whatever it says of the file, or nothing;
Refused(w) ==
  UNION { { Answer(c, f, FALSE, w) : f \in REFUSALS \cup { NoList } } : c \in REFUSALS }

\* it queues what it may do later;
Queued(w) ==
  { Answer("REQUEST_QUEUED", f, FALSE, w) : f \in { "REQUEST_QUEUED", NoList } }

\* it fails on the way to doing it, or does not hear of it.
NotDone(w) ==
  Refused(w) \cup Queued(w)
  \cup { Answer(c, NoList, FALSE, w) : c \in { "INTERNAL_ERROR", NoStatus } }

\* Castor: an unknown token of a pin is an internal error.
UnknownToken(o, w) ==
  IF o = "release_files" /\ ~w.pinned
  THEN { Answer("INTERNAL_ERROR", NoList, TRUE, w) }
  ELSE { }

Answers(o, w) ==
  (IF CanDo(o, w) THEN Done(o, w) ELSE { }) \cup NotDone(w) \cup UnknownToken(o, w)

-----------------------------------------------------------------------------
(* The client: what an answer makes of a call *)

Fail(e)      == [ ret |-> -1, status |-> Nothing, errno |-> e ]
Plain(e)     == [ ret |-> 0,  status |-> Nothing, errno |-> e ]
Listed(f, e) == [ ret |-> 1,  status |-> f,       errno |-> e ]

\* Mutant: the result of the wait is not looked at.
CallStatusUnwaited(c, granted) == ReplyClass(c)

\* back_off_logic, its wait granted or not.
CallStatus(c, granted) ==
  IF ReplyClass(c) \in WaitingClasses /\ ~granted THEN "TIMEOUT" ELSE ReplyClass(c)

\* "Ugly hack for Castor": not worth another attempt.  A refused wait goes first.
Hacked(o, r, cs) == o = "release_files" /\ r.notoken /\ cs = "INTERNAL_ERROR"

\* Mutant: without the hack.
AgainWithoutHack(o, r, cs) == o \in RetriedOps /\ cs = "INTERNAL_ERROR"

\* The condition of the do-while loops.
Again(o, r, cs) == o \in RetriedOps /\ cs = "INTERNAL_ERROR" /\ ~Hacked(o, r, cs)

\* The hack also rewrites the code of the answer.
StatusOf(o, r, cs) == IF Hacked(o, r, cs) THEN "INVALID_REQUEST" ELSE r.code

\* put_done, release_files, abort_files: the list decides, whatever the status.
ListResult(c, r) ==
  IF r.file = NoList THEN Fail(srm_call_err(c, "none"))
                     ELSE Listed(statuscode2errno(r.file), "OK")

\* Mutant: a missing list is an error by the code of the call alone.
RmResultByCode(r) ==
  IF r.code = NoStatus \/ r.file = NoList
  THEN Fail(statuscode2errno(r.code))
  ELSE Listed(statuscode_and_msg_to_errno(r.file, "none"), "OK")

\* An answer without a list counts for a failure.
RmResult(r) ==
  IF r.code = NoStatus \/ r.file = NoList
  THEN Fail(srm_call_err(r.code, "none"))
  ELSE Listed(statuscode_and_msg_to_errno(r.file, "none"), "OK")

\* rmdir has no list: the status of the call becomes the one of the directory.
RmdirResult(r) ==
  IF r.code = NoStatus THEN Fail("ECOMM") ELSE Listed(statuscode2errno(r.code), "OK")

\* A queued answer is an error here, and leaves errno as it was.
AbortFilesResult(r, cs) ==
  IF cs = "QUEUED" THEN Fail(errno) ELSE ListResult(r.code, r)

RetriedResult(o, r, cs) ==
  CASE cs = "TIMEOUT"                       -> Fail("ETIMEDOUT")
    [] cs # "TIMEOUT" /\ o = "rm"           -> RmResult(r)
    [] cs # "TIMEOUT" /\ o = "rmdir"        -> RmdirResult(r)
    [] cs # "TIMEOUT" /\ o = "abort_files"  -> AbortFilesResult(r, cs)
    [] OTHER                                -> ListResult(StatusOf(o, r, cs), r)

\* mv returns by errno, which it only sets when it fails.
MvResult(r) ==
  LET e == IF r.code = NoStatus \/ statuscode2errno(r.code) # "OK"
           THEN srm_call_err(r.code, "none") ELSE errno
  IN  IF e = "OK" THEN Plain(e) ELSE Fail(e)

\* Mutant: a lost answer leaves errno alone.
ExtendErrnoDropped(r) ==
  IF r.code = NoStatus THEN Fail(errno) ELSE ListResult(r.code, r)

ExtendResult(r) ==
  IF r.code = NoStatus THEN Fail("ECOMM") ELSE ListResult(r.code, r)

SetPermissionResult(r) ==
  CASE r.code = NoStatus  -> Fail("ECOMM")
    [] r.code = "SUCCESS" -> Plain(errno)
    [] OTHER              -> Fail(statuscode2errno(r.code))

\* Mutant: the mode asked for is not compared with the one granted.
CheckPermissionAnyMode(r) ==
  IF r.code = NoStatus \/ r.file = NoList
  THEN Fail("ECOMM") ELSE Listed(statuscode2errno(r.file), errno)

\* A file in good order without the permission asked for is EACCES.
CheckPermissionResult(r) ==
  LET f == statuscode2errno(r.file)
  IN  IF r.code = NoStatus \/ r.file = NoList
      THEN Fail("ECOMM")
      ELSE Listed(IF f = "OK" /\ ~r.allowed THEN "EACCES" ELSE f, errno)

GetPermissionResult(r) ==
  CASE r.code = NoStatus -> Fail("ECOMM")
    [] r.code \in { "SUCCESS", "PARTIAL_SUCCESS" } ->
         IF r.file = NoList THEN Fail("EFAULT") ELSE Listed(statuscode2errno(r.file), "OK")
    [] OTHER             -> Fail(srm_call_err(r.code, "none"))

Result(o, r, cs) ==
  CASE o \in RetriedOps           -> RetriedResult(o, r, cs)
    [] o = "mv"                   -> MvResult(r)
    [] o = "extend_file_lifetime" -> ExtendResult(r)
    [] o = "set_permission"       -> SetPermissionResult(r)
    [] o = "check_permission"     -> CheckPermissionResult(r)
    [] o = "get_permission"       -> GetPermissionResult(r)

-----------------------------------------------------------------------------
(* Actions *)

\* The application calls an operation; it may have cleared errno first.
Call ==
  /\ pc = "idle"
  /\ pc' = "call"
  /\ op' \in Ops
  /\ \E e \in { "OK", errno } :
       /\ result' = [ result EXCEPT !.errno = e ]
       /\ prior' = e
  /\ retries' = 0
  /\ badtoken' = FALSE
  /\ before' = world
  /\ touched' = FALSE
  /\ UNCHANGED world

\* A SOAP call, back_off_logic, and the next attempt or the end of the call.
Ask ==
  /\ pc = "call"
  /\ \E r \in Answers(op, world), granted \in { g \in BOOLEAN : g => retries < RETRIES } :
       LET cs == CallStatus(r.code, granted)
       IN  /\ world' = r.world
           /\ badtoken' = r.notoken
           /\ IF Again(op, r, cs)
              THEN retries' = retries + 1 /\ UNCHANGED << pc, result >>
              ELSE /\ pc' = "idle"
                   /\ result' = Result(op, r, cs)
                   /\ UNCHANGED retries
  /\ UNCHANGED << op, history >>

\* Other users, other requests, pins that run out.
Elsewhere ==
  /\ world' \in Worlds \ { world }
  /\ touched' = TRUE
  /\ UNCHANGED << pc, op, result, retries, badtoken, before, prior >>

Init ==
  /\ world \in Worlds
  /\ pc = "idle"
  /\ op = "get_permission"
  /\ result = Listed("OK", "OK")
  /\ retries = 0
  /\ badtoken = FALSE
  /\ before = world
  /\ prior = "OK"
  /\ touched = FALSE

Next == Call \/ Ask \/ Elsewhere

Spec == Init /\ [][Next]_vars

-----------------------------------------------------------------------------
(* Properties *)

\* The state a successful operation promises.
Post(o, w) ==
  CASE o \in { "rm", "rmdir", "abort_files" }          -> w.entry = "absent"
    [] o = "put_done"                                  -> w.entry = "stored"
    [] o = "mv"                                        -> w.entry = "moved"
    [] o = "release_files"                             -> ~w.pinned
    [] o = "extend_file_lifetime"                      -> w.pinned
    [] o \in { "set_permission", "check_permission" }  -> w.allowed
    [] OTHER                                           -> TRUE

Succeeded == result.ret >= 0 /\ result.status \in { "OK", Nothing }

\* Errors that say nothing about what the server did.
Unknown == result.ret = -1 /\ errno \in { "ECOMM", "ETIMEDOUT" }

\* A return value of success with a good file status means that the server is
\* where the operation was to bring it, unless somebody else was there since.
SuccessMeansDone == pc = "idle" /\ Succeeded /\ ~touched => Post(op, world)

\* An error other than a lost answer or a timeout means that the server did
\* nothing.  This is not so for a call that asked again (the first attempt may
\* have been carried out), nor for a mv that returns the errno it was called with.
ErrorMeansUndone ==
  /\ pc = "idle" /\ ~Succeeded /\ ~Unknown /\ retries = 0 /\ ~touched
  /\ ~(op = "mv" /\ prior # "OK" /\ errno = prior)
  => world = before

\* A call that fails has an errno, except for abort_files whose answer is queued.
FailureExplained ==
  pc = "idle" /\ result.ret = -1 /\ errno = "OK" => op = "abort_files" /\ prior = "OK"

\* A release with a token the server does not know ends at that answer, as an
\* invalid request, although Castor calls it an internal error.
UnknownTokenEnds ==
  badtoken => /\ pc = "idle"
              /\ result.ret = -1
              /\ errno \in { "EBADR", "ETIMEDOUT" }
=============================================================================
