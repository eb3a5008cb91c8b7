----------------------------- MODULE SrmLsPaging -----------------------------
(***************************************************************************)
(* An application lists one directory page by page: it keeps an offset in  *)
(* the input of ls, which every successful ls, or status of ls, moves past *)
(* the entries of the reply or sets back to 0.  The server decides where a *)
(* page ends; it may queue the listing, fail, or cut it without saying so. *)
(***************************************************************************)
EXTENDS Integers, SrmStatus

CONSTANTS
  N,         \* entries of the directory
  COUNTS,    \* values of input->count the application tries
  RETRIES    \* waits granted to one call (bound)

ASSUME PagingAssumption ==
  /\ N \in Nat \ {0} /\ RETRIES \in Nat /\ COUNTS \subseteq Int

Entries == 1 .. N

\* An entry without an array of sub-paths.
NoPaths == -1

VARIABLES
  offset,    \* *input->offset
  count,     \* input->count
  pc,        \* "idle": in the application; "ls", "status": about to ask the server
  mode,      \* "sync" or "async"
  token,     \* output->token is set
  served,    \* history: the listing of this token came
  at,        \* the offset the request was sent with
  retries,   \* waits granted to the call so far
  got,       \* history: entries handed over in this walk, or before it
  told,      \* history: entries reported with an error instead
  finished,  \* history: a call was answered and left the offset at 0
  cut,       \* history: the server cut a listing without saying so
  twice      \* history: the status of a served listing was asked for again

request == << token, served, at >>
history == << got, told, finished, cut, twice >>
vars == << offset, count, pc, mode, request, retries, history >>

TypeOK ==
  /\ offset \in -1 .. 2 * N
  /\ count \in COUNTS
  /\ pc \in { "idle", "ls", "status" }
  /\ mode \in { "sync", "async" }
  /\ token \in BOOLEAN /\ served \in BOOLEAN
  /\ pc = "status" => token
  /\ at \in 0 .. 2 * N
  /\ retries \in 0 .. RETRIES
  /\ got \subseteq Entries /\ told \subseteq Entries
  /\ finished \in BOOLEAN /\ cut \in BOOLEAN /\ twice \in BOOLEAN

-----------------------------------------------------------------------------
(* The server (external) *)

\* A reply with an entry for the directory.  entry: it is NULL, it has no status,
\* a good one, or an error; paths: the sub-paths after the offset.
Listings ==
  [ code  : { "SUCCESS", "TOO_MANY_RESULTS" },
    entry : { "null", "plain", "good", "bad" },
    paths : { NoPaths } \cup { k \in 0 .. N : (k > 0 => at + k <= N) /\ (count > 0 => k <= count) } ]

\* Entries the listing leaves out although its code, or its entry, does not say so.
Cuts(r) ==
  LET reported == r.entry = "bad" \/ (r.entry = "good" /\ r.code = "TOO_MANY_RESULTS")
      empty   == r.entry = "null" \/ r.paths = NoPaths
  IN  /\ ~reported
      /\ \/ empty /\ at < N
         \/ ~empty /\ r.code = "SUCCESS" /\ at + r.paths < N
         \/ ~empty /\ r.code = "TOO_MANY_RESULTS" /\ at + r.paths = 0

-----------------------------------------------------------------------------
(* What copy_mdfilestatuses and the callers make of a listing *)

\* Under TOO_MANY_RESULTS every entry that has a status is reported as EFBIG.
Status(r) ==
  CASE r.entry \in { "null", "plain" } -> "OK"
    [] r.entry \in { "good", "bad" } /\ r.code = "TOO_MANY_RESULTS" -> "EFBIG"
    [] r.entry = "good" /\ r.code = "SUCCESS"                       -> "OK"
    [] r.entry = "bad" /\ r.code = "SUCCESS"                        -> statuscode2errno("INVALID_PATH")

\* The sub-paths are copied, unless the entry is reported with an error.
copy_mdfilestatuses(r) ==
  IF r.entry # "null" /\ r.paths # NoPaths /\ Status(r) = "OK"
  THEN at + 1 .. at + r.paths
  ELSE { }

\* There is a next page.
More(r) == r.code = "TOO_MANY_RESULTS" /\ r.entry # "null" /\ r.paths # NoPaths

\* Mutant: the offset moves by the size of a page, full or not.
OffsetByCount(r) == IF More(r) THEN offset + (IF count > 0 THEN count ELSE r.paths) ELSE 0

NextOffset(r) == IF More(r) THEN offset + r.paths ELSE 0

\* The call succeeds with r.
Deliver(r) ==
  /\ pc' = "idle"
  /\ offset' = NextOffset(r)
  /\ got' = got \cup copy_mdfilestatuses(r)
  /\ told' = IF Status(r) = "OK" THEN told
             ELSE told \cup (IF NextOffset(r) # 0 THEN at + 1 .. at + r.paths ELSE at + 1 .. N)
  /\ finished' = (offset' = 0)
  /\ cut' = (cut \/ Cuts(r))
  /\ served' = TRUE
  /\ UNCHANGED << count, mode, token, at, retries, twice >>

-----------------------------------------------------------------------------
(* Actions *)

\* The application begins a walk, at the top or after the first o entries.
Walk ==
  /\ pc = "idle"
  /\ \E o \in -1 .. N :
       /\ offset' = o
       /\ got' = 1 .. o
  /\ count' \in COUNTS
  /\ told' = { } /\ finished' = FALSE /\ cut' = FALSE /\ twice' = FALSE
  /\ token' = FALSE /\ served' = FALSE /\ at' = 0
  /\ UNCHANGED << pc, mode, retries >>

\* ls: a negative offset or count is refused, an offset of 0 is not sent.
CallLs ==
  /\ pc = "idle" /\ ~finished
  /\ mode' \in { "sync", "async" }
  /\ IF offset < 0 \/ count < 0
     THEN UNCHANGED << pc, at, retries, token, served >>
     ELSE /\ pc' = "ls" /\ at' = offset /\ retries' = 0
          /\ token' = FALSE /\ served' = FALSE
  /\ UNCHANGED << offset, count, history >>

\* The application asks about its request again, after it was served at most once
\* (bound).
CallStatus ==
  /\ pc = "idle" /\ mode = "async" /\ token
  /\ ~(served /\ twice)
  /\ pc' = "status" /\ retries' = 0
  /\ twice' = (twice \/ served)
  /\ UNCHANGED << offset, count, mode, request, got, told, finished, cut >>

\* Mutant: a call without a listing sets the offset back.
ReturnRewinds ==
  /\ pc # "idle"
  /\ pc' = "idle"
  /\ offset' = 0
  /\ UNCHANGED << count, mode, request, retries, history >>

\* The call fails, or comes back without a listing: the offset stays.
Return ==
  /\ pc # "idle"
  /\ pc' = "idle"
  /\ UNCHANGED << offset, count, mode, request, retries, history >>

\* An internal error whose wait is granted: ask again.
Retry ==
  /\ pc # "idle" /\ retries < RETRIES
  /\ retries' = retries + 1
  /\ UNCHANGED << offset, count, pc, mode, request, history >>

\* Mutant: the token is not kept.
QueueWithoutToken ==
  /\ pc = "ls" /\ retries < RETRIES
  /\ retries' = retries + 1
  /\ pc' = IF mode = "sync" THEN "status" ELSE "idle"
  /\ UNCHANGED << offset, count, mode, request, history >>

\* srmLs queues the listing: the synchronous call polls, the other returns.
Queue ==
  /\ pc = "ls" /\ retries < RETRIES
  /\ retries' = retries + 1
  /\ token' = TRUE
  /\ pc' = IF mode = "sync" THEN "status" ELSE "idle"
  /\ UNCHANGED << offset, count, mode, served, at, history >>

\* A listing comes, from srmLs or from srmStatusOfLsRequest.
Listed == pc # "idle" /\ \E r \in Listings : Deliver(r)

Init ==
  /\ offset = 0 /\ count \in COUNTS
  /\ pc = "idle" /\ mode = "sync"
  /\ token = FALSE /\ served = FALSE /\ at = 0 /\ retries = 0
  /\ got = { } /\ told = { } /\ finished = FALSE /\ cut = FALSE /\ twice = FALSE

Next == Walk \/ CallLs \/ CallStatus \/ Return \/ Retry \/ Queue \/ Listed

\* A call of the library goes on; its SOAP calls end by their time-outs.
Fairness == WF_vars(Return \/ Retry \/ Queue \/ Listed)

Spec == Init /\ [][Next]_vars /\ Fairness

-----------------------------------------------------------------------------
(* Properties *)

\* As long as the server cuts nothing without saying so, and no listing is asked
\* for twice, every entry before the offset was handed over or reported with an
\* error, and every entry of the directory when the walk is over.
NothingSkipped ==
  ~cut /\ ~twice => (IF finished THEN Entries ELSE 1 .. offset) \subseteq got \cup told

\* Every call comes back, and moves the offset as SrmCursor says.
Cursor == INSTANCE SrmCursor WITH
  busy     <- pc # "idle",
  position <- offset,
  seen     <- got \cup told,
  done     <- finished,
  void     <- cut \/ twice

ImplementsCursor == Cursor!Spec
=============================================================================
