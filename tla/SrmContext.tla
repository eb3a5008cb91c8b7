------------------------------ MODULE SrmContext ------------------------------
(***************************************************************************)
(* A context and its SOAP connection.  The application makes a context in  *)
(* one of five ways, sets it up before or after its first request, sends   *)
(* ping and xping with it, and frees it.  The connection is made by the    *)
(* first request, with the settings of that moment, and kept.  Other       *)
(* credentials, and the end of the context, close it in several steps,     *)
(* which may change errno on the way.  Memory is followed by counting the  *)
(* blocks of every kind.                                                   *)
(***************************************************************************)
EXTENDS Integers, SrmStatus

CONSTANTS
  CREDS,       \* credentials that can be loaded
  TIMEOUTS,    \* values of the time-outs of a connection
  LEAKS        \* blocks of one kind an application may lose (bound)

ASSUME ContextAssumption ==
  /\ LEAKS \in Nat
  /\ "none" \notin CREDS /\ "unreadable" \notin CREDS
  /\ TIMEOUTS \subseteq Nat /\ TIMEOUTS # { }

AllCreds == CREDS \cup { "none", "unreadable" }
Values   == { "unset", "a", "b" }   \* of a header, or of the user agent

\* What a context holds, and what the application asked for.
Settings ==
  [ creds : AllCreds, header : Values, agent : Values, alive : BOOLEAN, timeout : TIMEOUTS ]

\* How the context came to be: not at all, by srm_context_new or new2, by
\* srm_context_init or init2, or filled in by the application itself; "freed" is
\* one that srm_context_free is at work on.
Forms == { "none", "new", "init", "bare", "freed" }

\* What is left to do of a srm_soap_free, and of the srm_context_free around it.
Steps == { "nothing", "close", "restore", "release" }

Connections == [ made : BOOLEAN, creds : AllCreds, alive : BOOLEAN, hook : BOOLEAN,
                 timeout : TIMEOUTS ]

MemoryKinds == { "context", "endpoint", "extension", "credentials", "header",
                 "connection", "version", "extra", "string" }

VARIABLES
  form,       \* of the context
  ext,        \* context->ext is not NULL
  settings,   \* the fields of the context and of its extension
  soap,       \* context->soap
  step,       \* what is left to do of a call that closes the connection
  srm_ifce_errno, \* of srm_soap_free
  default,    \* srm_timeout_connect and srm_timeout_sendreceive
  output,     \* of ping or xping: nothing, or what is to be freed
  errno,
  live,       \* allocated blocks of every kind
  asked,      \* history: what the application asked for
  late,       \* history: settings that came when the connection could not take them
  sent,       \* history: what the last request carried, if nothing was set since
  reported,   \* history: errno when the last request returned
  leaky       \* history: kinds of which the application, or a failure, lost blocks

context == << form, ext, settings, soap >>
closing == << step, srm_ifce_errno >>
history == << asked, late, sent, reported, leaky >>
vars == << context, closing, default, output, errno, live, history >>

NoTimeout == CHOOSE t \in TIMEOUTS : TRUE
Blank(t) == [ creds |-> "none", header |-> "unset", agent |-> "unset", alive |-> FALSE,
              timeout |-> t ]
NoSoap == [ made |-> FALSE, creds |-> "none", alive |-> FALSE, hook |-> FALSE,
            timeout |-> NoTimeout ]
NoOutput  == [ version |-> FALSE, extra |-> FALSE, strings |-> 0 ]
NoRequest == [ made |-> FALSE, settings |-> Blank(NoTimeout) ]

\* The application has the thread: no call of its own is under way.
Idle == step = "nothing"

TypeOK ==
  /\ form \in Forms
  /\ ext \in BOOLEAN
  /\ settings \in Settings /\ asked \in Settings
  /\ soap \in Connections
  /\ Idle /\ soap.hook => ext
  /\ step \in Steps /\ srm_ifce_errno \in Errnos
  /\ default \in TIMEOUTS
  /\ output \in [ version : BOOLEAN, extra : BOOLEAN, strings : 0 .. 4 ]
  /\ errno \in Errnos /\ reported \in Errnos
  /\ live \in [ MemoryKinds -> Nat ]
  /\ late \subseteq { "header", "agent", "timeout" }
  /\ sent.made \in BOOLEAN /\ sent.settings \in Settings
  /\ leaky \subseteq MemoryKinds

-----------------------------------------------------------------------------
(* Memory *)

Count(b) == IF b THEN 1 ELSE 0

\* The blocks the application and the context can still reach.
Owned ==
  [ k \in MemoryKinds |->
      CASE k \in { "context", "endpoint" } -> Count(form \in { "new", "freed" })
        [] k = "extension"   -> Count(ext)
        [] k = "credentials" -> Count(settings.creds # "none")
        [] k = "header"      -> Count(settings.header # "unset")
        [] k = "connection"  -> Count(soap.made)
        [] k = "version"     -> Count(output.version)
        [] k = "extra"       -> Count(output.extra)
        [] k = "string"      -> output.strings ]

Just(K)  == [ k \in MemoryKinds |-> Count(k \in K) ]
Plus(m, n)  == [ k \in MemoryKinds |-> m[k] + n[k] ]
Minus(m, n) == [ k \in MemoryKinds |-> m[k] - n[k] ]

\* Blocks may still be lost (bound).
MayLose == \A k \in MemoryKinds : live[k] - Owned[k] < LEAKS

-----------------------------------------------------------------------------
(* Making and freeing a context *)

\* A call of the application that closes no connection.
Call == Idle /\ UNCHANGED closing

\* A new context with the settings s: nothing is connected yet.
Fresh(f, e, s) ==
  /\ Call
  /\ form = "none"
  /\ form' = f /\ ext' = e /\ settings' = s /\ asked' = s
  /\ soap' = NoSoap /\ late' = { } /\ sent' = NoRequest
  /\ UNCHANGED << default, output, errno, reported >>

\* srm_context_new and srm_context_new2.
ContextNew(alive) ==
  /\ Fresh("new", TRUE, [ Blank(default) EXCEPT !.alive = alive ])
  /\ live' = Plus(live, Just({ "context", "endpoint", "extension" }))
  /\ UNCHANGED leaky

\* srm_context_init, on memory of the application.
ContextInit ==
  /\ Fresh("init", TRUE, Blank(default))
  /\ live' = Plus(live, Just({ "extension" }))
  /\ UNCHANGED leaky

\* srm_context_init2 makes a second extension and loses the first.
ContextInit2(alive) ==
  /\ MayLose
  /\ Fresh("init", TRUE, [ Blank(default) EXCEPT !.alive = alive ])
  /\ live' = Plus(Plus(live, Just({ "extension" })), Just({ "extension" }))
  /\ leaky' = leaky \cup { "extension" }

\* A context the application fills in by itself has no extension.
ContextBare(t) ==
  /\ Fresh("bare", FALSE, Blank(t))
  /\ UNCHANGED << live, leaky >>

ExtensionKinds == { "extension", "credentials", "header" }

OwnedOf(K) == [ k \in MemoryKinds |-> IF k \in K THEN Owned[k] ELSE 0 ]

\* srm_soap_free, if there is a connection; what comes after it otherwise.
SoapFree(after) ==
  /\ step' = IF soap.made THEN "close" ELSE after
  /\ srm_ifce_errno' = IF soap.made THEN errno ELSE srm_ifce_errno

\* Mutant: errno is saved after the connection was closed.
CloseThenSave ==
  /\ step = "close"
  /\ soap' = NoSoap
  /\ live' = Minus(live, OwnedOf({ "connection" }))
  /\ errno' \in Errnos
  /\ late' = { }
  /\ step' = "restore" /\ srm_ifce_errno' = errno'
  /\ UNCHANGED << form, ext, settings, default, output, asked, sent, reported, leaky >>

\* soap_end, soap_done and soap_free leave any errno behind.
Close ==
  /\ step = "close"
  /\ soap' = NoSoap
  /\ live' = Minus(live, OwnedOf({ "connection" }))
  /\ errno' \in Errnos
  /\ late' = { }
  /\ step' = "restore"
  /\ UNCHANGED << form, ext, settings, srm_ifce_errno, default, output >>
  /\ UNCHANGED << asked, sent, reported, leaky >>

\* srm_soap_free puts errno back; srm_set_credentials ends there.
Restore ==
  /\ step = "restore"
  /\ errno' = srm_ifce_errno /\ srm_ifce_errno' = "OK"
  /\ step' = IF form = "freed" THEN "release" ELSE "nothing"
  /\ UNCHANGED << context, default, output, live, history >>

\* Mutant: the extension is not freed.
ContextFreeForgets ==
  /\ Idle
  /\ form = "new"
  /\ form' = "freed" /\ ext' = FALSE
  /\ settings' = Blank(settings.timeout) /\ asked' = Blank(settings.timeout)
  /\ SoapFree("release")
  /\ sent' = NoRequest
  /\ UNCHANGED << soap, default, output, errno, live, late, reported, leaky >>

\* srm_context_free: the extension first, then the connection.
ContextFree ==
  /\ Idle
  /\ form = "new"
  /\ form' = "freed" /\ ext' = FALSE
  /\ settings' = Blank(settings.timeout) /\ asked' = Blank(settings.timeout)
  /\ live' = Minus(live, OwnedOf(ExtensionKinds))
  /\ SoapFree("release")
  /\ sent' = NoRequest
  /\ UNCHANGED << soap, default, output, errno, late, reported, leaky >>

Gone ==
  /\ form' = "none" /\ ext' = FALSE /\ soap' = NoSoap
  /\ settings' = Blank(NoTimeout) /\ asked' = Blank(NoTimeout)
  /\ late' = { } /\ sent' = NoRequest
  /\ UNCHANGED << default, output, errno, reported >>

\* The end of srm_context_free: the endpoint and the context.
Release ==
  /\ step = "release" /\ step' = "nothing"
  /\ live' = Minus(live, OwnedOf({ "context", "endpoint" }))
  /\ Gone
  /\ UNCHANGED << srm_ifce_errno, leaky >>

\* No function frees what a context on the application's own memory holds.
Abandon ==
  /\ Call
  /\ form \in { "init", "bare" } /\ MayLose
  /\ leaky' = leaky \cup { k \in ExtensionKinds \cup { "connection" } : Owned[k] > 0 }
  /\ Gone
  /\ UNCHANGED live

-----------------------------------------------------------------------------
(* Settings *)

\* The setters make the extension when there is none.
Extended == Plus(live, [ k \in MemoryKinds |-> Count(k = "extension" /\ ~ext) ])

\* Mutant: the connection is kept.
SetCredentialsOnly(c) ==
  /\ Call
  /\ form # "none"
  /\ settings.creds # "none" => MayLose
  /\ ext' = TRUE
  /\ settings' = [ settings EXCEPT !.creds = c ]
  /\ asked' = [ asked EXCEPT !.creds = c ]
  /\ live' = Plus(Extended, [ k \in MemoryKinds |-> Count(k = "credentials" /\ c # "none") ])
  /\ leaky' = leaky \cup (IF settings.creds # "none" THEN { "credentials" } ELSE { })
  /\ sent' = NoRequest
  /\ UNCHANGED << form, default, output, soap, errno, late, reported >>

\* srm_set_credentials loses the credentials of before, and drops the connection.
SetCredentials(c) ==
  /\ Idle
  /\ form # "none"
  /\ settings.creds # "none" => MayLose
  /\ ext' = TRUE
  /\ settings' = [ settings EXCEPT !.creds = c ]
  /\ asked' = [ asked EXCEPT !.creds = c ]
  /\ live' = Plus(Extended, [ k \in MemoryKinds |-> Count(k = "credentials" /\ c # "none") ])
  /\ leaky' = leaky \cup (IF settings.creds # "none" THEN { "credentials" } ELSE { })
  /\ SoapFree("nothing")
  /\ sent' = NoRequest
  /\ UNCHANGED << form, soap, default, output, errno, late, reported >>

\* A setting that the hook of the connection sends along, if there is a hook.
SentByHook(setting, v) ==
  /\ Call
  /\ form # "none"
  /\ ext' = TRUE
  /\ settings' = [ settings EXCEPT ![setting] = v ]
  /\ asked' = [ asked EXCEPT ![setting] = v ]
  /\ late' = late \cup (IF soap.made /\ ~soap.hook THEN { setting } ELSE { })
  /\ sent' = NoRequest
  /\ UNCHANGED << form, soap, default, output, errno, reported, leaky >>

\* srm_set_http_header: the list of headers frees a value that is replaced.
SetHttpHeader(v) ==
  /\ SentByHook("header", v)
  /\ live' = Minus(Plus(Extended, [ k \in MemoryKinds |-> Count(k = "header" /\ v # "unset") ]),
                   OwnedOf({ "header" }))

\* srm_set_user_agent: a buffer of the extension.
SetUserAgent(v) == SentByHook("agent", v) /\ live' = Extended

\* srm_set_desired_request_time: read by every put, get and bring-online.
SetDesiredRequestTime ==
  /\ Call
  /\ form # "none"
  /\ ext' = TRUE /\ live' = Extended
  /\ UNCHANGED << form, settings, soap, default, output, errno, history >>

\* timeout_conn and timeout_ops of the context; the connection keeps its own.
SetTimeouts(t) ==
  /\ Call
  /\ form # "none"
  /\ settings' = [ settings EXCEPT !.timeout = t ]
  /\ asked' = [ asked EXCEPT !.timeout = t ]
  /\ late' = late \cup (IF soap.made THEN { "timeout" } ELSE { })
  /\ sent' = NoRequest
  /\ UNCHANGED << form, ext, soap, default, output, errno, live, reported, leaky >>

\* srm_set_timeout_connect, srm_set_timeout_sendreceive: for contexts to come.
SetDefaultTimeout(t) ==
  /\ Call
  /\ default' = t
  /\ UNCHANGED << context, output, errno, live, history >>

-----------------------------------------------------------------------------
(* Requests *)

\* Mutant: the hook is set although there is no extension to read.
ConnectionHooked ==
  [ made    |-> TRUE,
    creds   |-> IF ext THEN settings.creds ELSE "none",
    alive   |-> ext /\ settings.alive,
    hook    |-> TRUE,
    timeout |-> settings.timeout ]

\* The connection srm_context_soap_init makes.
NewConnection ==
  [ made    |-> TRUE,
    creds   |-> IF ext THEN settings.creds ELSE "none",
    alive   |-> ext /\ settings.alive,
    hook    |-> ext,
    timeout |-> settings.timeout ]

Unloadable == ~soap.made /\ ext /\ settings.creds = "unreadable"

\* srm_context_soap_init, and the request with what srm_post_header adds to it.
Connect ==
  /\ Call
  /\ form # "none" /\ output = NoOutput
  /\ ~Unloadable
  /\ soap' = IF soap.made THEN soap ELSE NewConnection
  /\ sent' = [ made |-> TRUE,
               settings |-> [ creds   |-> soap'.creds,
                              header  |-> IF soap'.hook THEN settings.header ELSE "unset",
                              agent   |-> IF soap'.hook THEN settings.agent ELSE "unset",
                              alive   |-> soap'.alive,
                              timeout |-> soap'.timeout ] ]
  /\ UNCHANGED << form, ext, settings, default, asked, late >>

Connected == Plus(live, [ k \in MemoryKinds |-> Count(k = "connection" /\ ~soap.made) ])

\* The request returns: the errno it leaves, its output, and what it lost.
Answered(e, o, n) ==
  /\ errno' = e /\ reported' = e /\ output' = o
  /\ live' = Plus(Connected, [ k \in MemoryKinds |->
                                 CASE k = "version" -> Count(o.version)
                                   [] k = "extra"   -> Count(o.extra)
                                   [] k = "string"  -> o.strings + n
                                   [] OTHER         -> 0 ])
  /\ leaky' = leaky \cup (IF n > 0 THEN { "string" } ELSE { })

Ping ==
  /\ Connect
  /\ \/ \E e \in { "ECOMM", "EINVAL" } : Answered(e, NoOutput, 0)
     \/ Answered(errno, [ NoOutput EXCEPT !.version = TRUE ], 0)

\* Strings copied when the copy of a key, or of a value, of entry i fails, and
\* those xping then frees: the ones of the entries i down to 1.
Copied(i, value)  == 2 * i + Count(value)
FreedUpTo(i, value) == IF i = 0 THEN 0 ELSE Copied(i - 1, value)

XPing ==
  /\ Connect
  /\ \/ \E e \in { "ECOMM", "EINVAL" } : Answered(e, NoOutput, 0)
     \/ Answered(errno, [ NoOutput EXCEPT !.version = TRUE ], 0)
     \/ \E n \in 0 .. 2 : Answered(errno, [ version |-> TRUE, extra |-> TRUE, strings |-> 2 * n ], 0)
     \/ /\ MayLose
        /\ \E i \in 0 .. 1, value \in BOOLEAN :
             Answered("EINVAL", NoOutput, Copied(i, value) - FreedUpTo(i, value))

\* srm_xping_output_free, or the application's own free after a ping.
FreeOutput ==
  /\ Call
  /\ output # NoOutput
  /\ output' = NoOutput
  /\ live' = Minus(live, OwnedOf({ "version", "extra", "string" }))
  /\ UNCHANGED << context, default, errno, history >>

Init ==
  /\ form = "none" /\ ext = FALSE /\ settings = Blank(NoTimeout) /\ soap = NoSoap
  /\ step = "nothing" /\ srm_ifce_errno = "OK"
  /\ default = NoTimeout /\ output = NoOutput /\ errno = "OK"
  /\ live = Just({ }) /\ asked = Blank(NoTimeout) /\ late = { } /\ sent = NoRequest
  /\ reported = "OK" /\ leaky = { }

\* Credentials that cannot be loaded leave no connection, and the request goes on
\* to use it: the process ends, and another begins.
Crash ==
  /\ Idle
  /\ form # "none" /\ output = NoOutput /\ Unloadable
  /\ form' = "none" /\ ext' = FALSE /\ settings' = Blank(NoTimeout) /\ soap' = NoSoap
  /\ default' = NoTimeout /\ output' = NoOutput /\ errno' = "OK"
  /\ step' = "nothing" /\ srm_ifce_errno' = "OK"
  /\ live' = Just({ }) /\ asked' = Blank(NoTimeout) /\ late' = { } /\ sent' = NoRequest
  /\ reported' = "OK" /\ leaky' = { }

Next ==
  \/ \E b \in BOOLEAN : ContextNew(b) \/ ContextInit2(b)
  \/ ContextInit
  \/ \E t \in TIMEOUTS : ContextBare(t) \/ SetTimeouts(t) \/ SetDefaultTimeout(t)
  \/ ContextFree \/ Close \/ Restore \/ Release
  \/ Abandon
  \/ \E c \in AllCreds : SetCredentials(c)
  \/ \E v \in Values : SetHttpHeader(v) \/ SetUserAgent(v)
  \/ SetDesiredRequestTime
  \/ Ping \/ XPing \/ FreeOutput
  \/ Crash

Spec == Init /\ [][Next]_vars

-----------------------------------------------------------------------------
(* Properties *)

\* A request carries what the application asked for: its credentials and its
\* keep-alive always; a header or a user agent unless it came after a connection
\* that was made without an extension; the time-outs unless they came after the
\* connection.
SentAsAsked ==
  sent.made =>
    \A f \in { "creds", "alive", "header", "agent", "timeout" } \ late :
      sent.settings[f] = asked[f]

\* Whatever the order of the calls: nothing is freed that is still in use, and
\* nothing is lost but a first set of credentials that is replaced, the first
\* extension of init2, what a context of the old kind holds, and strings of an
\* xping that failed.
NothingElseLost ==
  \A k \in MemoryKinds :
    /\ live[k] >= Owned[k]
    /\ live[k] > Owned[k] => k \in leaky

\* Closing a connection may leave any errno; when the application has the thread
\* again, errno is what its last request left, whatever was set or freed since.
ErrnoKept == Idle => errno = reported
=============================================================================
