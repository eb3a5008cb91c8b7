# Verification of srm-ifce

srm-ifce is the client library with which GFAL and FTS talk to SRM v2.2 storage
servers over SOAP. This directory holds TLA+ models of the library, the TLC
configurations that check them, and proofs checked by TLAPS.

All source paths below are relative to the repository root; the C code is in `src/`.

## 1. The system

The library is sequential: an application thread calls `srm_X(context, input,
output)`, which runs to its end in that thread. What makes it hard is what it
talks to. Servers queue requests under tokens, answer "internal error" under load,
lose answers, and go on working on a request the client gave up; and the library
polls, waits, aborts and reports all of this through one `errno`, one return value
and an output structure that every round reuses.

| Component | State | Operations | Talks to |
|---|---|---|---|
| Version dispatch (`srm_version_wrapper.c`) | none | `srm_X` -> `srmv2_X` | application, all below |
| Async wrappers (`srmv2_async_wrapper.c`) | an internal context per call | one request or status call | internal functions |
| Sync wrappers (`srmv2_sync_wrapper.c`) | an internal context per call; `output->token` | submit, poll, abort | internal functions, abort |
| Queued requests (`srmv2_data_transfer_functions.c`, `srmv2_directory_functions.c`) | `output`, `current_status`, `errno` | ls, put, get, bring-online and their status requests | back-off, SOAP |
| Back-off (`srm_util.c`, `time_utils.h`) | deadline, next wait, attempt, server's estimate | classify a reply, wait or refuse to | clock |
| Directories | server's tree | mkdir -p | SOAP |
| One-shot operations | `errno` | rm, rmdir, mv, put_done, release, abort, extend | back-off, SOAP |
| Space management | lists of tokens and sizes | tokens, metadata, best token, reserve, release, purge | SOAP |
| Permissions, discovery | none | set/get/check, ping/xping | SOAP |
| Context (`srm_struct_util.c`, `srm_context_soap_init`) | extension, soap structure, credentials | new, init, set_X, free | all |
| Copying and memory (`srm_util.c`, `gfal_srm_ifce_memory_functions.c`) | output structures | copy, free | all |

How they interact: a wrapper initialises `struct srm_internal_context` on its stack
and passes it down; the internal function calls the server in a do-while loop,
hands each reply to `back_off_logic`, which may sleep, and leaves the verdict in
`current_status`, the data in `output` and the reason in `errno`; the wrapper reads
all three to decide whether to poll, abort or return.

What each component owes its user:

- back-off: no call after the deadline, no call given up early, a bounded number of
  calls, and an end;
- requests and wrappers: a synchronous call returns file statuses or an error, an
  error has an errno, a queued request is polled and aborted under its own token,
  and none is left behind where the library knows of it;
- mkdir: success means the whole path is there; only a race can make it fail where
  a lone caller would succeed; the climb ends;
- one-shot operations: a success was carried out, an error was not, a failure has an
  errno, and none of this depends on the calls before;
- paging: the offset moves past what was handed over, no more and no less;
- space: the best token has the least sufficient space, and a failure has an errno;
- context: a connection that matches the context's settings, memory freed once, and an
  errno that outlives the connection.

`PROJECT.json` lists the hazards of the code line by line, and the property that
covers each, or why none does yet.

## 2. Modules

| Module | Kind | What it models |
|---|---|---|
| `SrmStatus` | pure | status codes, their errnos (`statuscode2errno`, `statuscode_and_msg_to_errno`, `srm_call_err`), the classes of `back_off_logic` |
| `SrmWait` | pure | `back_off_logic_init`, `set_estimated_wait_time`, both waiting rules, `wait_switch_auto` |
| `SrmTime` | pure | `timespec_add` and `timespec_cmp` of `time_utils.h` |
| `SrmBackoff` | state machine | the do-while loop of every operation against a server that never finishes |
| `SrmSleep` | state machine | the sleep of the MIN_MAX_EXP rule nap by nap, decided on ticks and on timespecs; implements `SrmBackoff` |
| `SrmCall` | abstract | what the library promises the caller of ls, put, get and bring-online |
| `SrmRequest` | state machine | the four requests, both kinds of wrapper, back-off, abort, server and network; implements `SrmCall` |
| `SrmMkdir` | state machine | `srmv2_mkdir` run by several clients on one directory tree |
| `SrmFileOps` | state machine | ten operations that are answered at once, one after another on one entry of the server, with errno kept in between |
| `SrmCursor` | abstract | what an offset promises an application that lists a directory page by page |
| `SrmLsPaging` | state machine | such an application, the offset, count and token of ls, and a server that ends its pages where it likes; implements `SrmCursor` |
| `SrmSpace` | state machine | the seven space operations and the put with a description, while other users change the spaces |
| `SrmContext` | state machine | the life of a context, its extension, its connection and the memory they hold; ping and xping |
| `SrmBackoffProofs`, `SrmSleepProofs`, `SrmRequestProofs`, `SrmMkdirProofs`, `SrmFileOpsProofs`, `SrmLsPagingProofs`, `SrmSpaceProofs`, `SrmContextProofs` | proofs | theorems about the module each is named after |
| `MC*` | checking | estimates, counts and symmetry sets for TLC |

`SrmWait` and `SrmStatus` are operators without state, shared by everything that
waits: `SrmBackoff`, `SrmSleep` and `SrmRequest` use the same definitions, so a
change of a waiting rule reaches all of them. `SrmSleep` adds the timespecs of
`SrmTime`; `SrmSpace`, `SrmLsPaging` and `SrmContext` take the errnos of `SrmStatus`. The
modules meet at the boundaries of the code: `SrmLsPaging` and `SrmSpace` keep of a request
only what `SrmRequest` shows that it returns with, and `SrmRequest` starts where a
connection of `SrmContext` has been made.

### Correspondence

`SrmRequest`, variable by variable: `ic` is `struct srm_internal_context`, `status`
its `current_status`; `out` is the output structure (`token`, the code of
`retstatus`, and whether file statuses are handed over); `errno` and `ret` are what
C calls them; `rep` is the reply in the function's local variable; `pc` says
which function the thread is in (`submit` and `status`: an internal function about
to make its SOAP call; `backoff`: after it; `wrapper`: returned). `srv` is the
server's table of requests. `mine`, `clean` and `late` are history variables that
only properties read.

One iteration of a do-while loop is `Submit` or `AskStatus` (the SOAP call) followed
by `NoResponse` (early return), `Retry` (internal error, waited, again) or
`Conclude` (loop left, `switch` on `current_status` taken). The switch of each of
the eight internal functions is an operator with the function's name, since they
differ: whether a queued reply hands over file statuses, whether a missing token is
a failure, whether an expired space is. The wrappers are `PollAgain`,
`AbortAndReturn`, `ReturnSync` and `ReturnAsync`.

`SrmMkdir` numbers the prefixes of one path: level k is the SURL cut after k
components, 0 is `srm://h`, -1 `srm:/`, -2 `srm:`. Each action is one srmMkdir request
and what the loop makes of its answer; other clients and a remover act in between.

`SrmFileOps` has one action per attempt: `Ask` is a SOAP call, what `back_off_logic`
makes of its answer, and either the next attempt or the end of the call. What an
operation makes of an answer is an operator of its own (`RmResult`,
`AbortFilesResult`, `MvResult`, ...), and `Result` dispatches to them. `result` is the
return value, the status handed over for the one file, and errno, which outlives the
call; the application may clear it before the next one (`Call`). `world` is the
server's entry, which an attempt may have changed whatever the client hears of it, and
others change at any time (`Elsewhere`). `before`, `prior` and `touched` are history
variables that only properties read. The eligibility and the effect of an operation
at the server (`CanDo`, `Deed`) are external and minimal: enough to tell a success
from a failure. Of the wait only its verdict is kept, granted or not; `SrmBackoff`
has the rest.

`SrmSleep` keeps `current_waittime_spec` twice: `nextWait` in ticks, which decides, and
`waitSpec`, a pair of seconds and nanoseconds that `NextWaitSpec` doubles and caps with
the operators of `SrmTime`. `NANOS` is the number of ticks in a second.

`SrmLsPaging` is an application with `struct srm_ls_input` and the token of its last
request. `offset` is `*input->offset`; `at` is the offset the server was sent, which is an
older one when a queued request is asked about. `Deliver` is what a call that succeeds
does: `copy_mdfilestatuses` with its status and sub-paths, and the statement that moves the
offset. The listing has one entry, the directory, which may be NULL, lack its status or its
array of sub-paths, or carry an error. `Walk` is the application beginning anew; `got` and
`told` are history.

`SrmSpace` splits `srm_getbestspacetoken` at its SOAP calls (`GetSpaceTokens`,
`GetSpaceMd`), goes through its loop entry by entry (`Scan`) and ends it (`Pick`); a put
with a description goes on to `Put`. The operations of one SOAP call are one action each.
`space` is the server, which other users change between any two of these steps
(`Elsewhere`); `md` is the array of `srm_spacemd`, in which entries a reply leaves out are
blank. `prior`, `lost` and `touched` are history.

`SrmContext` has one action for every function of `srm_struct_util.c` that an application
calls, and one for each outcome of a request. The two that close a connection,
`srm_set_credentials` and `srm_context_free`, go on in steps, which `step` names: `Close` is
soap_end, soap_done and soap_free, which may leave any errno; `Restore` puts back the
`srm_ifce_errno` saved before it; `Release` frees the rest of a context whose extension was
freed first. The application makes its next call when `step` is "nothing". `soap` holds what
`srm_context_soap_init` put into the connection, among it whether the hook that adds
headers was set. `live` counts the blocks of every kind that are allocated, `Owned` those
that can still be reached, in the middle of a call too; `leaky` names the kinds the known leaks lose. `asked`, `late`,
`sent` and `reported` are history.

Abstractions: time is a number of ticks on one clock; a file list is a boolean;
tokens are model values; explanations are dropped in `SrmRequest` (they change the
errno only between EIO/EINVAL and EEXIST/ENOENT, never to zero). Uninitialised
reads are avoided by the code in the paths modelled (a failed SOAP call is noticed
by its return code).

## 3. Runs

| Run | Question | States | Bounds |
|---|---|---|---|
| `backoff` | do both waiting rules keep the deadline, use the time, and end? | 891 | timeout 14, waits 1..5, naps of 3, three kinds of estimate |
| `sleep` | does the sliced sleep implement the one-step wait, and do timespecs decide as ticks do? | 8,791 | the real values of a new context, 0.1 s per tick |
| `request` | are the four requests safe? | 362,000 | 2 tokens, timeout 5, MIN_MAX_EXP, refusals of four kinds |
| `request_call` | do they keep the promise to the caller? | 390,000 | 2 tokens, timeout 4 |
| `request_old` | and under the OLD rule, with estimates? | 95,000 | 1 token, ls and put, timeout 5 |
| `mkdir` | is the whole path made, and do calls end? | 77,731 | 2 clients, paths of up to 3 levels |
| `file_ops` | do results tell the truth about the server? | 789,348 | 3 refusals, 2 waits per call |
| `space` | which space is chosen, what does a put into it meet, what do failures say? | 593,000 | 3 spaces of up to 2 units, needs of 0 and 1, margin of 1, 1 refusal |
| `ls_paging` | does paging lose an entry, and does it implement the cursor? | 75,271 | 4 entries, counts of -1, 0 and 2, 2 waits per call |
| `context` | what does a request carry, what memory is lost, does errno survive? | 3,500,000 | 2 credentials, time-outs of 0 and 60, 1 lost block of each kind |
| `sleep_exact` | finding: sleeps are longer than asked for | | as `sleep` |
| `mkdir_root` | finding: requests at and above the root | | 1 client, 2 levels |

Why the bounds are enough. A synchronous call makes the server queue at most one
request per try of the submit loop; with two tokens a lost answer followed by
a second request, and an old request of an earlier call beside the current one, both
happen. Timeouts of 4 and 5 allow several rounds of polling, with a wait that is
granted, one that overshoots the deadline and one that is refused. Three levels of
directories give a climb, a turn and a descent of more than one step, and two
clients every race between them. `TRIES_CAP` caps the counter of calls in `SrmBackoff`
above the bounds checked. In `SrmFileOps` two granted waits let a call be carried out at
the first attempt, fail at the second and be answered at the third; the three refusals
have three different errnos; the sequence of calls is not bounded.

Three spaces with sizes of 0 to 2 units, a need of 1 and a margin of 1 give spaces that are too
small for the need, large enough for the need but not for the margin, and large enough for
both; lists with equal sizes, with unknown ones, and in another order than they were asked
for. Four entries and a count of 2 give full pages, short ones and empty ones, and an offset
at the end of the directory; two waits let a listing be queued and then fail once. In
`context` two credentials can replace each other, and one lost block of each kind is
enough to tell a known leak from another. In `space`, `ls_paging` and `context` the sequence of
calls is not bounded either.

Fairness. `SrmRequest` assumes weak fairness of the library's own steps: SOAP
calls end, because the sockets have send and receive timeouts, sleeps end, and the
thread is scheduled. Nothing is assumed of the server or the application.
`SrmBackoff`, `SrmSleep` and `SrmLsPaging` assume the same; `SrmMkdir` per client.
`SrmFileOps`, `SrmSpace` and `SrmContext` have safety properties only and assume
nothing. No run needs
`CHECK_DEADLOCK FALSE`: an application can always make another call.

Every property of a passing run has a mutant of the code (a definition beside the one
it replaces, marked "Mutant") under which TLC finds it violated.

### What the runs show

- A server that never finishes is given up by both rules. The MIN_MAX_EXP rule may
  start one call after its deadline, because naps are half seconds (`OneLateCall`);
  the OLD rule never does. Neither gives up more than one wait early.
- Calls poll and abort under tokens of their own (`TokenWhilePolling`).
- A synchronous call leaves no queued request behind when it succeeds or times
  out while polling, if the server told it the tokens and obeyed the abort
  (`NothingLeftQueued`). The preconditions are needed, and are the weak spots of the
  code: a timeout *before* the first poll returns without the token and without an
  abort, and ls, put and get abort on timeouts only, not on failed status calls.
- A -1 comes with an errno (`FailureHasErrno`), with one exception the property
  names: codes such as SRM_FILE_PINNED on a request are turned into errno 0. A put or
  get that timed out says ETIMEDOUT whatever the abort did (`TimeoutErrno`); ls
  and bring-online do not promise that, their errno may be the abort's.
- `ImplementsCall`: what the caller sees is the small state machine `SrmCall`.
- mkdir that succeeds made or found the whole path, unless someone removed part of it.
  It can fail with EEXIST, but only because of another client (`FailsOnlyByRace`):
  in the descending loop an existing directory is an error.
- A one-shot operation that returns success with a good file status was carried out
  (`SuccessMeansDone`). An error other than a lost answer or a timeout means that it
  was not (`ErrorMeansUndone`), with two exceptions, both needed: a call that asked
  again after an internal error may meet the effect of its own first attempt (an rm
  that removed the file returns ENOENT), and `srmv2_mv`, which returns by an errno
  it never clears, reports a successful move after an earlier failure as a failure.
- A failure has an errno (`FailureExplained`), except for abort_files, whose queued
  answer returns -1 and leaves errno alone.
- A release with a token Castor does not know ends at that answer (`UnknownTokenEnds`).
- `timespec_add` leaves a sum of exactly one second uncarried, and such a sum compares as
  earlier than the carried one. With waits and timeouts as the contexts have them,
  this decides differently than exact time only for a sleep that ends on the very deadline
  (`TimespecsDecide`): it is granted where `<` on exact times would refuse it.
- Paging skips nothing as long as the server does not cut a listing without saying so, and
  nobody asks for the status of a listing again that was served (`NothingSkipped`): such a
  second answer moves the offset a second time. Accounted for does not mean
  handed over: entries of a page under SRM_TOO_MANY_RESULTS whose directory has a status are
  reported as EFBIG, and the offset moves past them. Every call comes back and moves the
  offset as `SrmCursor` says (`ImplementsCursor`).
- The token chosen for a space is that of the least space that is large enough, and none is
  returned only when none of the spaces whose size was told is (`LeastThatFits`,
  `NoneFits`), while nobody else uses them. A put with a description is refused for lack of
  space only if its space was changed after its size was read, or is the only one of the
  description, whose size is never looked at (`PutFits`).
- A space operation that fails has an errno, but when the SOAP call of getspacetokens fails
  the application is told whatever errno was before (`FailureExplained`). A reservation and a purge
  that succeed were carried out (`SuccessMeansDone`); a release promises nothing, since
  its reply is not looked at.
- A request carries the credentials, the keep-alive, the header, the user agent and the
  time-outs of its context (`SentAsAsked`), with two exceptions: a header or a user agent set
  after a connection that was made without an extension is never sent, and time-outs set
  after the connection are not used.
- Memory (`NothingElseLost`): nothing is freed that is in use, and what is lost
  is credentials that are replaced, the first extension of `srm_context_init2`, what a
  context on the application's own memory holds, and strings of an xping that failed.
- Whatever errno closing a connection leaves, the application finds that of its last request
  when `srm_set_credentials` or `srm_context_free` has returned (`ErrnoKept`). Credentials that cannot be
  loaded end the process: the request goes on with no connection (`Crash`).

### Findings

1. The comment at the loop of naps says "go to sleep for the exact required time"; the
   first wait, 0.2 s, takes 0.5 s (`sleep_exact`).
2. "Do not try to create the root directory": the check only matches a path with a
   trailing slash, which is cut before the second round. Against a server that
   knows no part of the path, mkdir asks for `srm://h`, `srm:/` and `srm:`
   (`mkdir_root`). Where the namespace is served, the climb stops below the root
   (`ClimbStops`).

## 4. Proofs

Every safety property that a run checks is also a theorem, for every value of the
constants; `grep -n THEOREM *Proofs.tla` lists them. The assumptions on the constants are
the named ASSUMEs of the modules. `WaitAssumption`, which everything that waits shares, says
that waits, naps and the last-chance margin are positive, and that the first wait of the
MIN_MAX_EXP rule does not exceed the longest: `srm_context_extension_new` sets them to
0.2 s and 5 s (`srm_struct_util.c:26-27`) and nothing in the library changes them. Without
it a call could be given up more than one longest wait before its deadline.

About `SrmRequest`, for every set of tokens, timeout, wait, nap, estimate, SOAP call
duration, polling rule and set of refusals, under `WaitAssumption` and
`RequestAssumption` (the token of NULL is no token, refusals are codes the code treats as
failures), in `SrmRequestProofs`:

| Theorem | Says | Inductive invariant |
|---|---|---|
| `TypeCorrect` | types, `TypeOK` | `TypeOK /\ TokenInv` |
| `TokenSafety` | `TokenWhilePolling` | the same |
| `DeadlineKept` | `OneLateCall` | `LateInv` |
| `ErrnoOnFailure`, `ErrnoOnTimeout` | `FailureHasErrno`, `TimeoutErrno` | `ErrnoInv` |
| `QueueLeftEmpty` | `NothingLeftQueued` | `QueueInv`, on top of `ErrnoInv` |
| `PromiseKept` | initial states and steps of `SrmCall` | `CallInv` |
| `CallsEnd` | each step of a call lowers `StepsLeft`, at most `4 * TIMEOUT + 4` | `TypeOK /\ EndInv` |

About `SrmBackoff`, for every timeout, wait, slice, duration of a SOAP call and set of
estimates, and both rules (`WaitAssumption`, `BackoffAssumption`): `TypeCorrect`,
`NeverLate` for `NoLateCall`, `NeverEarly` for `NoEarlyTimeout` and `TriesBounded` for
`BoundedTries`, from the invariant `TypeOK /\ Contexts` with `OldPace` or `SlicedPace`.

About `SrmMkdir`, for every set of clients and every depth (`MkdirAssumption`):
`TypeCorrect`, `PathWhole` for `WholePath`, `OnlyRacesFail` for `FailsOnlyByRace` and
`ClimbStaysBelowRoot` for `ClimbStops`, from `TypeOK` and one `ClientInv` per client; and
`RequestsBounded`, that each request of a call lowers `WorkLeft`, at most `2 * DEPTH + 5`, and
nothing else changes it while the call lasts.

About `SrmContext`, for every set of credentials and time-outs and every bound on lost blocks
(`ContextAssumption`): `TypeCorrect`, `AskedIsSent` for `SentAsAsked`, `MemoryAccounted` for
`NothingElseLost` and `ErrnoSurvives` for `ErrnoKept`, from
`Shape /\ SettingsInv /\ MemoryInv /\ ClosingInv`. While a connection is closed errno is
anything, so `ErrnoKept` is not inductive: `ClosingInv` says where the errno of the last request is
at each step, in errno or in the local variable of `srm_soap_free`, and what has been freed so
far.

About `SrmFileOps`, for every set of refusals that are failures with an errno and any
number of waits (`FileOpsAssumption`): `TypeCorrect`, `SuccessIsTrue`, `ErrorIsTrue`,
`FailuresExplained` and `ReleaseGivesUp` of `SrmFileOpsProofs`, one for each property
of the run, from the invariant `IInv`.

About `SrmSleep`, for every timeout of whole seconds and every length of a second, wait and
nap (`WaitAssumption`, `SleepAssumption`, `TimeAssumption`), in `SrmSleepProofs`:
`TypeCorrect`; `TimespecsSuffice` for `TimespecsDecide`; `BackoffImplemented`, that
`SrmSleep` starts as `SrmBackoff` does and each of its steps is one of `SrmBackoff` or
leaves it unchanged; and `SleepBounded`, which takes the theorems about `SrmBackoff` through
that refinement: the sleep as it is coded keeps the deadline, the early end and the number
of calls.

About `SrmLsPaging`, for every size of the directory, set of counts and number of waits
(`PagingAssumption`), from the invariant `TypeOK /\ OffsetInv /\ WalkInv` of
`SrmLsPagingProofs`: `TypeCorrect`; `NoneSkipped` for `NothingSkipped`; and `CursorKept`, that
`SrmLsPaging` starts as `SrmCursor` does and each of its steps is one of `SrmCursor` or leaves
it unchanged.

About `SrmSpace`, for every finite set of tokens, sizes, needs, positive margin and set of
refusals whose errno can be told from that of before (`SpaceAssumption`): `TypeCorrect`,
`BestIsLeast`, `NoneIsNone`, `PutFinds`, `FailuresExplained` and `SuccessIsTrue` of
`SrmSpaceProofs`, one for each property of the run, from the invariant `IInv`.

The argument of each:

- *Types and tokens* go together: the server is asked about `out.token`, so the
  answer is typed only if the token is one. `TokenInv` follows a token from the
  server's answer through the reply, the switch and the output to the poll. The
  lemmas `WaitOutcome`, `BackOffOutcome` and `OutcomeTyped` say what the waiting
  rules and the switches return, once, for all actions.
- *Deadlines*: `LateInv` says that the thread is on its way to the server only if it
  was let go before the deadline, or has just slept across it, and that a late
  call's reply cannot be waited for. The key lemma is `WaitInTime`: a wait is
  granted only before the deadline, and the OLD rule also ends before it.
- *errno*: `ErrnoInv` ties the return value, the status and errno together at the
  boundary between internal function and wrapper.
- *Queue*: `QueueInv` says that as long as every token was told, each request of the
  call that may still be queued is the one in `out.token`, and that a success
  means the server has settled it.
- *Refinement*: `CallInv` lists the three ways an internal function can come
  back (rejected, served, waiting); each step then is a step of `SrmCall` or
  leaves it unchanged.
- *One-shot operations*: every answer of the server is of one of two kinds, performed or
  untouched (`AnswerKinds`). For each code an answer can carry, a lemma says what the
  ten operations return (`LostResult`, `InternalErrorResult`, `RefusedResult`,
  `QueuedResult`, `SuccessResult`); `Conclusion` puts them together into what the
  properties ask of the end of a call. `CallInv` is what has to be known before it:
  until an attempt is the last one, no token was refused, errno is the one the call was
  made with, and the first attempt finds the entry the call was made on.
- *Back-off*: `OldWait` and `SlicedWait` say of one wait that it lasts at least a tick (a
  slice), that a granted one ends before the deadline (less than a slice after it), and
  when one is refused. The properties are not inductive: the number of calls is bounded
  because the clock is. `OldPace` and `SlicedPace` tie the two together, `tries <= now` and
  `tries * SLICE <= now` at each call, and say what a timeout was given for.
- *Naps*: `NapInv` says that a nap belongs to a wait that began with room for all of it
  before the deadline, is a whole number of slices old, and ends within a slice of its end.
  So the nap that ends the wait ends it at one of the times among which the single `Wait` of
  `SrmBackoff` chooses (`WaitGranted`), and a wait is refused where that one is (`WaitRefused`).
- *Directories*: success, EEXIST and ENOENT are promises about the end of a call; the
  invariant says what a client in the middle of one knows. `Climbing`: the level it left
  has no parent, unless another client made it (`raced`). `Descending`: the level above the
  one it asks for is there, unless somebody removed it (`removed`), and the level itself is
  not, unless raced. `AnswerMeaning` says what each answer tells about the tree. The
  other half is interference: what one client knows survives the request of another
  (which only adds levels and marks the races) and a removal (which marks itself).
- *Ends*: a granted wait takes at least a tick (`WaitTakesTime`) and is granted only before
  the deadline, so the time left shrinks from one poll or retry to the next; between two waits
  the thread passes through at most four steps (`StepsLeft`). A mkdir climbs, turns once and
  descends (`WorkLeft`); other clients may change what its next request is answered, never
  how many are left. These are the measures behind `ImplementsCall` and `Finishes`; that a
  thread inside a call keeps running is the fairness they assume.
- *Settings*: `Kept` says that a connection has the settings of now, but for the late ones,
  and that one without a hook has no header or user agent to miss; `Bare` and `Absent`, what a
  context without an extension, or none at all, can hold.
- *Memory*: the books. `Accounts` says that a step which changes the count of each kind by
  what it makes reachable, less what it makes unreachable, plus what is marked as lost, keeps
  `NothingElseLost`; `Balanced` is the case in which nothing is lost. Each action then only
  has to show its entries, kind by kind.
- *Timespecs*: the value of a reading of the clock is its time (`ReadingValue`), the value of a
  sum is the sum of the values (`AddValue`), and a comparison of timespecs is that of
  their values, except where one is uncarried and the values are equal (`LtValue`).
  The inductive part is that the wait's timespec has the wait as its value and is
  the sum of carried ones.
- *Paging*: `OffsetInv` says that a request is about the offset it was sent with unless a
  served one is asked about, so that a page continues what is known; `WalkInv`
  that everything before the offset is known until the walk is over. `Delivered` says what
  one answer does: it extends what is known up to the new offset, or to the end.
- *Spaces*: `ScanInv` is the invariant of the loop, that it holds the least of the entries
  that fit so far; `ChosenInv` and `NotChosenInv` are what it leaves behind; `MdInv` says
  that a size that was told is that of the space until others change it. The
  margin must be positive: with none, an entry the reply left out, of size 0, would fit a
  need of 0 and be chosen although it has no token. `TokensOutcome`, `MdOutcome` and `PurgeOutcome` say what each SOAP call comes back
  with, whatever the server answers.

Only model-checked: liveness, because fairness and ENABLED are beyond the prover. That is
`GivesUp`, `Finishes`, and the liveness half of `ImplementsCall`, `ImplementsBackoff` and
`ImplementsCursor`, of which the theorems `PromiseKept`, `BackoffImplemented` and
`CursorKept` prove the initial states and the steps. `CallsEnd` and `RequestsBounded` prove
the measures by which calls end; what is left to TLC there is the step from a measure and weak
fairness to the end.

## 5. Not modelled

- Generated gSOAP stubs, the WSDL, and the table of calls (`srm_dependencies.c`):
  the environment of the models.
- Error messages and explanations, and the copying of per-file data, but for the status and
  sub-paths of a listing and the sizes of spaces: text and data without control.
- Memory, apart from `SrmContext`: allocation failures other than a rejected call or a
  failed xping, the statuses each poll overwrites without freeing them, and the
  destructors of the outputs other than that of xping.
- A status call with a NULL token, a NULL `returnStatus` in mkdir's climb, a reservation
  without a response, and other inputs the code dereferences without a check.
- srm_getspacemd reads as many entries as tokens were asked about, whatever the size of the
  array; a shorter array is read past its end. The model's server sends an entry for each
  token or none at all.
- Several directories in one ls, whose offset is moved by the sub-paths of the first one.
  The abort of a synchronous ls is `SrmRequest`'s, and changes no offset.
- Jumps of the wall clock under the OLD rule, and the operators of `time_utils.h` that
  nothing uses (`timespec_sub`, `timespec_clear`, `timespec_isset`).
- What follows when credentials cannot be loaded: the process ends in `SrmContext`.
  Two threads in mkdir's root check for the first time race for its static regular
  expression; the models have one thread per library state.
- In the one-shot operations: lists of several files, NULL entries of a list, failed
  allocations, an empty list of permissions, explanations other than the one of an
  unknown token (a NULL one is dereferenced), and a list that comes without a status.
  errno is changed by the library only, not by the C library beneath it, except
  where a connection is closed; free() leaves it alone.
- Tests, packaging and build files.

## 6. Plan

Done, in the order in which it mattered: `SrmStatus`, `SrmWait`, `SrmBackoff`, `SrmSleep`,
`SrmCall`, `SrmRequest`, `SrmMkdir`, and the proofs about `SrmRequest`; `SrmFileOps` and the
proofs about it; `SrmLsPaging` with `SrmCursor` and the proofs about them; `SrmSpace` and the
proofs about it; `SrmContext`; `SrmTime` and the proofs about the sleep; the proofs about
`SrmBackoff`, its simulation by `SrmSleep`, the proofs about `SrmMkdir` and `SrmContext`, and the
measures of requests and mkdir.

Left: the same measures for the walk of `SrmLsPaging` through a directory, whose calls end but
whose pages the server may make as short as it likes.
