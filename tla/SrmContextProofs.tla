--------------------------- MODULE SrmContextProofs ---------------------------
(***************************************************************************)
(* Proofs about SrmContext, for any credentials, time-outs and number of   *)
(* blocks an application may lose: types, what a request carries, what is  *)
(* freed, and the errno that closing a connection must not change.         *)
(***************************************************************************)
EXTENDS SrmContext, TLAPS

USE ContextAssumption

-----------------------------------------------------------------------------
(* Types *)

\* TypeOK without the count of blocks.
Shape ==
  /\ form \in Forms
  /\ ext \in BOOLEAN
  /\ settings \in Settings /\ asked \in Settings
  /\ soap \in Connections /\ (soap.hook => soap.made)
  /\ Idle /\ soap.hook => ext
  /\ step \in Steps /\ srm_ifce_errno \in Errnos
  /\ default \in TIMEOUTS
  /\ output \in [ version : BOOLEAN, extra : BOOLEAN, strings : 0 .. 4 ]
  /\ errno \in Errnos /\ reported \in Errnos
  /\ late \subseteq { "header", "agent", "timeout" }
  /\ sent.made \in BOOLEAN /\ sent.settings \in Settings
  /\ leaky \subseteq MemoryKinds

\* The values a context starts from have their types.
LEMMA Defaults ==
  /\ NoTimeout \in TIMEOUTS
  /\ \A t \in TIMEOUTS : Blank(t) \in Settings
  /\ NoSoap \in Connections /\ NoSoap.made = FALSE /\ NoSoap.hook = FALSE
  /\ NoOutput \in [ version : BOOLEAN, extra : BOOLEAN, strings : 0 .. 4 ]
  /\ NoRequest.made = FALSE /\ NoRequest.settings \in Settings
  /\ "OK" \in Errnos
<1>1. NoTimeout \in TIMEOUTS
  BY DEF NoTimeout
<1>2. \A t \in TIMEOUTS : Blank(t) \in Settings
  BY DEF Blank, Settings, AllCreds, Values
<1>3. NoSoap \in Connections /\ NoSoap.made = FALSE /\ NoSoap.hook = FALSE
  BY <1>1 DEF NoSoap, Connections, AllCreds
<1>4. NoOutput \in [ version : BOOLEAN, extra : BOOLEAN, strings : 0 .. 4 ]
  BY DEF NoOutput
<1>5. NoRequest.made = FALSE /\ NoRequest.settings \in Settings
  BY <1>1, <1>2 DEF NoRequest
<1> QED
  BY <1>1, <1>2, <1>3, <1>4, <1>5 DEF Errnos

-----------------------------------------------------------------------------
(* What a request carries *)

\* Without an extension there is nothing to carry but the time-outs.
Bare ==
  ~ext => /\ settings.creds = "none" /\ ~settings.alive
          /\ settings.header = "unset" /\ settings.agent = "unset"

\* A context that is not there holds nothing.
Absent ==
  form = "none" => /\ ~ext /\ ~soap.made
                   /\ settings.creds = "none" /\ settings.header = "unset"

\* The connection has the settings of the moment it was made, which are those of
\* now but for the late ones, unless it is being closed.
Kept ==
  /\ asked = settings
  /\ ~soap.made => late = { }
  /\ ~Idle => ~sent.made
  /\ Idle /\ soap.made =>
       /\ soap.creds = settings.creds /\ soap.alive = settings.alive
       /\ "timeout" \notin late => soap.timeout = settings.timeout
       /\ ~soap.hook /\ "header" \notin late => settings.header = "unset"
       /\ ~soap.hook /\ "agent" \notin late => settings.agent = "unset"

SettingsInv == Bare /\ Absent /\ Kept /\ SentAsAsked

-----------------------------------------------------------------------------
(* Closing a connection *)

\* The errno of the last request is in errno, or in the local variable of
\* srm_soap_free while the connection is closed.
ErrnoHeld ==
  IF step \in { "close", "restore" } THEN srm_ifce_errno = reported ELSE errno = reported

\* What srm_context_free and srm_soap_free have already done.
FreedSoFar ==
  /\ form = "freed" => /\ ~Idle /\ ~ext
                       /\ settings.creds = "none" /\ settings.header = "unset"
  /\ step \in { "restore", "release" } => ~soap.made
  /\ step = "release" => form = "freed"

ClosingInv == ErrnoHeld /\ FreedSoFar

\* A call that closes nothing leaves errno to be read, and the context as it is or
\* gone.
LEMMA CallKeepsClosing ==
  ASSUME ClosingInv, Call, form' # "freed", errno' = reported'
  PROVE  ClosingInv'
<1>1. step = "nothing" /\ step' = "nothing"
  BY DEF Call, Idle, closing
<1>2. ErrnoHeld'
  BY <1>1 DEF ErrnoHeld
<1>3. FreedSoFar'
  BY <1>1 DEF FreedSoFar
<1> QED
  BY <1>2, <1>3 DEF ClosingInv

\* What a call that leaves context and errno alone needs of that.
LEMMA QuietCallKeepsClosing ==
  ASSUME ClosingInv, Call, form' = form, errno' = errno, reported' = reported
  PROVE  ClosingInv'
<1>1. step = "nothing"
  BY DEF Call, Idle
<1>2. form # "freed" /\ errno = reported
  BY <1>1 DEF ClosingInv, ErrnoHeld, FreedSoFar, Idle
<1> QED
  BY <1>2, CallKeepsClosing

-----------------------------------------------------------------------------
(* Steps that keep types and settings *)

\* No request was sent with the present settings: what the next one carries is
\* only decided then.
LEMMA NothingSent ==
  sent' = NoRequest => SentAsAsked'
BY Defaults DEF SentAsAsked

LEMMA FreshKeeps ==
  ASSUME Shape, NEW f \in Forms \ { "none" }, NEW e \in BOOLEAN, NEW s \in Settings,
         Fresh(f, e, s), leaky' \subseteq MemoryKinds,
         ~e => s = Blank(s.timeout)
  PROVE  Shape' /\ SettingsInv'
<1> USE Defaults DEF Fresh, Call, Idle, closing
<1>1. Shape'
  BY DEF Shape
<1>2. Bare'
  BY DEF Bare, Blank
<1>3. Absent'
  BY DEF Absent
<1>4. Kept'
  BY DEF Kept
<1> QED
  BY <1>1, <1>2, <1>3, <1>4, NothingSent DEF SettingsInv

LEMMA GoneKeeps ==
  ASSUME Shape, Gone, step' \in Steps, srm_ifce_errno' \in Errnos,
         leaky' \subseteq MemoryKinds
  PROVE  Shape' /\ SettingsInv'
<1> USE Defaults DEF Gone
<1>1. Shape'
  BY DEF Shape, Forms
<1>2. Bare' /\ Absent'
  BY DEF Bare, Absent, Blank
<1>3. Kept'
  BY DEF Kept
<1> QED
  BY <1>1, <1>2, <1>3, NothingSent DEF SettingsInv

\* Other credentials come when the connection made with the old ones is closed, or
\* when there is none.
LEMMA SetCredentialsKeeps ==
  ASSUME Shape, SettingsInv, NEW c \in AllCreds, SetCredentials(c)
  PROVE  Shape' /\ SettingsInv'
<1> USE Defaults DEF SetCredentials, SettingsInv, SoapFree, Idle
<1>1. Shape'
  <2>1. settings' \in Settings /\ asked' \in Settings
    BY DEF Shape, Settings
  <2>2. step' \in Steps /\ srm_ifce_errno' \in Errnos
    BY DEF Shape, Steps
  <2>3. leaky' \subseteq MemoryKinds
    BY DEF Shape, MemoryKinds
  <2> QED
    BY <2>1, <2>2, <2>3 DEF Shape
<1>2. Bare' /\ Absent'
  BY DEF Bare, Absent
<1>3. Kept'
  BY DEF Kept
<1> QED
  BY <1>1, <1>2, <1>3, NothingSent

\* The context goes before the connection is closed.
LEMMA ContextFreeSettings ==
  ASSUME Shape, SettingsInv, ContextFree
  PROVE  Shape' /\ SettingsInv'
<1> USE Defaults DEF ContextFree, SettingsInv, SoapFree, Idle
<1>1. Shape'
  <2>1. settings.timeout \in TIMEOUTS
    BY DEF Shape, Settings
  <2>2. step' \in { "close", "release" } /\ srm_ifce_errno' \in Errnos
    BY DEF Shape
  <2> QED
    BY <2>1, <2>2 DEF Shape, Forms, Steps
<1>2. Bare' /\ Absent'
  BY DEF Bare, Absent, Blank
<1>3. Kept'
  BY DEF Kept
<1> QED
  BY <1>1, <1>2, <1>3, NothingSent

\* Without the connection nothing has come too late for it.
LEMMA CloseSettings ==
  ASSUME Shape, SettingsInv, Close
  PROVE  Shape' /\ SettingsInv'
<1> USE Defaults DEF Close, SettingsInv, Idle
<1>1. Shape'
  BY DEF Shape, Steps
<1>2. Bare' /\ Absent'
  BY DEF Bare, Absent
<1>3. Kept'
  BY DEF Kept
<1>4. SentAsAsked'
  BY DEF Kept, SentAsAsked
<1> QED
  BY <1>1, <1>2, <1>3, <1>4

LEMMA RestoreSettings ==
  ASSUME Shape, SettingsInv, ClosingInv, Restore
  PROVE  Shape' /\ SettingsInv'
<1> USE Defaults DEF Restore, SettingsInv, Idle, context, history
<1>1. ~soap.made
  BY DEF ClosingInv, FreedSoFar
<1>2. Shape'
  BY <1>1 DEF Shape, Steps
<1>3. Bare' /\ Absent'
  BY DEF Bare, Absent
<1>4. Kept' /\ SentAsAsked'
  BY <1>1 DEF Kept, SentAsAsked
<1> QED
  BY <1>2, <1>3, <1>4

\* A header or a user agent is sent along by the hook, or came too late for it.
LEMMA SentByHookKeeps ==
  ASSUME Shape, SettingsInv, NEW f \in { "header", "agent" }, NEW v \in Values,
         SentByHook(f, v)
  PROVE  Shape' /\ SettingsInv'
<1> USE Defaults DEF SentByHook, SettingsInv, Call, Idle, closing
<1>1. Shape'
  <2>1. settings' \in Settings /\ asked' \in Settings
    BY DEF Shape, Settings
  <2> QED
    BY <2>1 DEF Shape
<1>2. Bare' /\ Absent'
  BY DEF Bare, Absent
<1>3. Kept'
  <2>1. CASE f = "header"
    <3>1. settings' = [ settings EXCEPT !.header = v ] /\ asked' = [ asked EXCEPT !.header = v ]
      BY <2>1
    <3>2. /\ settings'.creds = settings.creds /\ settings'.alive = settings.alive
          /\ settings'.timeout = settings.timeout /\ settings'.agent = settings.agent
      BY <3>1 DEF Shape, Settings
    <3> QED
      BY <2>1, <3>1, <3>2 DEF Kept, Shape
  <2>2. CASE f = "agent"
    <3>1. settings' = [ settings EXCEPT !.agent = v ] /\ asked' = [ asked EXCEPT !.agent = v ]
      BY <2>2
    <3>2. /\ settings'.creds = settings.creds /\ settings'.alive = settings.alive
          /\ settings'.timeout = settings.timeout /\ settings'.header = settings.header
      BY <3>1 DEF Shape, Settings
    <3> QED
      BY <2>2, <3>1, <3>2 DEF Kept, Shape
  <2> QED
    BY <2>1, <2>2
<1> QED
  BY <1>1, <1>2, <1>3, NothingSent

LEMMA SetTimeoutsKeeps ==
  ASSUME Shape, SettingsInv, NEW t \in TIMEOUTS, SetTimeouts(t)
  PROVE  Shape' /\ SettingsInv'
<1> USE Defaults DEF SetTimeouts, SettingsInv, Call, Idle, closing
<1>1. settings' \in Settings /\ asked' \in Settings
  BY DEF Shape, Settings
<1>2. Shape'
  BY <1>1 DEF Shape
<1>3. /\ settings'.creds = settings.creds /\ settings'.alive = settings.alive
      /\ settings'.agent = settings.agent /\ settings'.header = settings.header
  BY DEF Shape, Settings
<1>4. Bare' /\ Absent'
  BY <1>3 DEF Bare, Absent
<1>5. Kept'
  BY <1>3 DEF Kept
<1> QED
  BY <1>2, <1>4, <1>5, NothingSent

\* A step that leaves the settings and the connection alone.
LEMMA UntouchedKeeps ==
  ASSUME Shape, SettingsInv, UNCHANGED << form, settings, soap, closing, errno, history >>,
         ext' = ext \/ (ext' = TRUE /\ form # "none"),
         default' \in TIMEOUTS,
         output' \in [ version : BOOLEAN, extra : BOOLEAN, strings : 0 .. 4 ]
  PROVE  Shape' /\ SettingsInv'
<1> USE DEF history, closing, Idle
<1>1. Shape'
  <2>1. /\ form' = form /\ settings' = settings /\ soap' = soap /\ errno' = errno
        /\ asked' = asked /\ late' = late /\ sent' = sent /\ reported' = reported
        /\ leaky' = leaky /\ step' = step /\ srm_ifce_errno' = srm_ifce_errno
    OBVIOUS
  <2>2. ext' \in BOOLEAN /\ (step' = "nothing" /\ soap'.hook => ext')
    <3>1. CASE ext' = ext
      BY <2>1, <3>1, Zenon DEF Shape
    <3>2. CASE ext' = TRUE
      BY <3>2
    <3> QED
      BY <3>1, <3>2
  <2> QED
    BY <2>1, <2>2, Zenon DEF Shape
<1>2. Bare' /\ Absent' /\ Kept' /\ SentAsAsked'
  BY DEF SettingsInv, Bare, Absent, Kept, SentAsAsked
<1> QED
  BY <1>1, <1>2 DEF SettingsInv

\* A request carries what the connection was made with, and the header and the
\* user agent of now.
LEMMA ConnectKeeps ==
  ASSUME Shape, SettingsInv, Connect,
         errno' \in Errnos, reported' \in Errnos, leaky' \subseteq MemoryKinds,
         output' \in [ version : BOOLEAN, extra : BOOLEAN, strings : 0 .. 4 ]
  PROVE  Shape' /\ SettingsInv'
<1>1. /\ soap' = (IF soap.made THEN soap ELSE NewConnection)
      /\ sent' = [ made |-> TRUE,
                   settings |-> [ creds   |-> soap'.creds,
                                  header  |-> IF soap'.hook THEN settings.header ELSE "unset",
                                  agent   |-> IF soap'.hook THEN settings.agent ELSE "unset",
                                  alive   |-> soap'.alive,
                                  timeout |-> soap'.timeout ] ]
      /\ UNCHANGED << form, ext, settings, default, asked, late >>
      /\ form # "none"
      /\ step = "nothing" /\ step' = step /\ srm_ifce_errno' = srm_ifce_errno
  BY DEF Connect, Call, Idle, closing
<1>2. soap' \in Connections /\ (soap'.hook => ext') /\ soap'.made
  BY <1>1 DEF Shape, Idle, NewConnection, Connections, Settings, AllCreds
<1>3. sent'.made \in BOOLEAN /\ sent'.settings \in Settings
  BY <1>1, <1>2 DEF Shape, Settings, Connections, Values
<1>4. Shape'
  BY <1>1, <1>2, <1>3 DEF Shape
<1>5. Bare' /\ Absent'
  BY <1>1 DEF SettingsInv, Bare, Absent
<1>6. Kept'
  <2>1. CASE soap.made
    BY <1>1, <2>1 DEF SettingsInv, Kept, Idle
  <2>2. CASE ~soap.made
    <3>1. /\ soap' = NewConnection /\ late' = { } /\ asked' = settings'
          /\ settings' = settings
      BY <1>1, <2>2 DEF SettingsInv, Kept
    <3>2. /\ soap'.creds = settings.creds /\ soap'.alive = settings.alive
          /\ soap'.timeout = settings.timeout
          /\ ~soap'.hook => settings.header = "unset" /\ settings.agent = "unset"
      BY <3>1 DEF NewConnection, SettingsInv, Bare, Shape, Settings
    <3> QED
      BY <1>1, <1>2, <3>1, <3>2 DEF Kept, Idle
  <2> QED
    BY <2>1, <2>2
<1>7. SentAsAsked'
  BY <1>1, <1>2, <1>6 DEF Kept, SentAsAsked, Idle
<1> QED
  BY <1>4, <1>5, <1>6, <1>7 DEF SettingsInv

\* XPing and ping return an errno of theirs and a well-formed output.
LEMMA AnsweredTypes ==
  ASSUME Shape, NEW e \in Errnos, NEW n,
         NEW o \in [ version : BOOLEAN, extra : BOOLEAN, strings : 0 .. 4 ],
         Answered(e, o, n)
  PROVE  /\ errno' \in Errnos /\ reported' \in Errnos /\ leaky' \subseteq MemoryKinds
         /\ output' \in [ version : BOOLEAN, extra : BOOLEAN, strings : 0 .. 4 ]
         /\ errno' = reported'
BY DEF Shape, Answered, MemoryKinds

\* What the two requests may come down to.
LEMMA RequestOutcome ==
  ASSUME Shape, Ping \/ XPing
  PROVE  /\ Connect
         /\ \E e \in Errnos, o \in [ version : BOOLEAN, extra : BOOLEAN, strings : 0 .. 4 ],
               n \in 0 .. 3 : Answered(e, o, n)
<1> DEFINE Outputs == [ version : BOOLEAN, extra : BOOLEAN, strings : 0 .. 4 ]
<1>1. { "ECOMM", "EINVAL" } \subseteq Errnos /\ errno \in Errnos
  BY DEF Errnos, Shape
<1>2. NoOutput \in Outputs /\ [ NoOutput EXCEPT !.version = TRUE ] \in Outputs
  <2>1. NoOutput \in Outputs
    BY Defaults
  <2> QED
    BY <2>1, Zenon
<1>2a. ASSUME NEW n \in 0 .. 2
      PROVE  [ version |-> TRUE, extra |-> TRUE, strings |-> 2 * n ] \in Outputs
  <2>1. 2 * n \in 0 .. 4
    OBVIOUS
  <2> QED
    BY <2>1, Zenon
<1>3. \A i \in 0 .. 1, value \in BOOLEAN : Copied(i, value) - FreedUpTo(i, value) \in 0 .. 3
  BY DEF Copied, FreedUpTo, Count
<1>4. 0 \in 0 .. 3
  OBVIOUS
<1> HIDE DEF Outputs
<1>5. CASE Ping
  <2>1. Connect
    BY <1>5 DEF Ping
  <2>2. \/ \E e \in { "ECOMM", "EINVAL" } : Answered(e, NoOutput, 0)
        \/ Answered(errno, [ NoOutput EXCEPT !.version = TRUE ], 0)
    BY <1>5, Zenon DEF Ping
  <2>3. \E e \in Errnos, o \in Outputs, n \in 0 .. 3 : Answered(e, o, n)
    BY <1>1, <1>2, <1>4, <2>2, Zenon
  <2> QED
    BY <2>1, <2>3 DEF Outputs
<1>6. CASE XPing
  <2>1. Connect
    BY <1>6 DEF XPing
  <2>2. \/ \E e \in { "ECOMM", "EINVAL" } : Answered(e, NoOutput, 0)
        \/ Answered(errno, [ NoOutput EXCEPT !.version = TRUE ], 0)
        \/ \E n \in 0 .. 2 :
             Answered(errno, [ version |-> TRUE, extra |-> TRUE, strings |-> 2 * n ], 0)
        \/ \E i \in 0 .. 1, value \in BOOLEAN :
             Answered("EINVAL", NoOutput, Copied(i, value) - FreedUpTo(i, value))
    BY <1>6, Zenon DEF XPing
  <2>3. \E e \in Errnos, o \in Outputs, n \in 0 .. 3 : Answered(e, o, n)
    BY <1>1, <1>2, <1>2a, <1>3, <1>4, <2>2, Zenon
  <2> QED
    BY <2>1, <2>3 DEF Outputs
<1> QED
  BY <1>5, <1>6

-----------------------------------------------------------------------------
(* Memory *)

LEMMA Counts ==
  /\ Count(TRUE) = 1 /\ Count(FALSE) = 0
  /\ \A b \in BOOLEAN : Count(b) \in 0 .. 1
BY DEF Count

LEMMA CountIf ==
  ASSUME NEW b
  PROVE  Count(b) = (IF b THEN 1 ELSE 0)
BY DEF Count

\* What there is to free of each kind.
OwnedTable ==
  /\ Owned \in [ MemoryKinds -> Nat ]
  /\ Owned["context"] = Count(form \in { "new", "freed" })
  /\ Owned["endpoint"] = Count(form \in { "new", "freed" })
  /\ Owned["extension"] = Count(ext)
  /\ Owned["credentials"] = Count(settings.creds # "none")
  /\ Owned["header"] = Count(settings.header # "unset")
  /\ Owned["connection"] = Count(soap.made)
  /\ Owned["version"] = Count(output.version)
  /\ Owned["extra"] = Count(output.extra)
  /\ Owned["string"] = output.strings

LEMMA OwnedNow == Shape => OwnedTable
<1> SUFFICES ASSUME Shape PROVE OwnedTable
  OBVIOUS
<1>1. output.strings \in Nat
  BY DEF Shape
<1>2. \A b : Count(b) \in Nat
  BY DEF Count
<1>3. ASSUME NEW k \in MemoryKinds PROVE Owned[k] \in Nat
  BY <1>1, <1>2 DEF Owned, MemoryKinds
<1> QED
  BY <1>3 DEF OwnedTable, Owned, MemoryKinds

LEMMA OwnedNext == Shape' => OwnedTable'
<1> SUFFICES ASSUME Shape' PROVE OwnedTable'
  OBVIOUS
<1>1. output'.strings \in Nat
  BY DEF Shape
<1>2. \A b : Count(b) \in Nat
  BY DEF Count
<1>3. ASSUME NEW k \in MemoryKinds PROVE Owned[k]' \in Nat
  BY <1>1, <1>2 DEF Owned, MemoryKinds
<1> QED
  BY <1>3 DEF OwnedTable, Owned, MemoryKinds

\* What the invariant says of the memory.
MemoryInv == live \in [ MemoryKinds -> Nat ] /\ NothingElseLost

\* The books of a step: what it frees was there, and what it loses is known to be
\* lost.
LEMMA Accounts ==
  ASSUME MemoryInv, OwnedTable, OwnedTable',
         NEW lost \in [ MemoryKinds -> Nat ],
         live' = [ k \in MemoryKinds |-> live'[k] ],
         \A k \in MemoryKinds : live'[k] = live[k] + Owned'[k] - Owned[k] + lost[k],
         leaky \subseteq leaky',
         \A k \in MemoryKinds : lost[k] > 0 => k \in leaky'
  PROVE  MemoryInv'
<1>1. ASSUME NEW k \in MemoryKinds
      PROVE  /\ live'[k] \in Nat /\ live'[k] >= Owned'[k]
             /\ live'[k] > Owned'[k] => k \in leaky'
  <2>1. /\ live[k] >= Owned[k] /\ (live[k] > Owned[k] => k \in leaky)
        /\ live[k] \in Nat /\ Owned[k] \in Nat
    BY DEF MemoryInv, NothingElseLost, OwnedTable
  <2>2. PICK x \in Nat : live[k] = Owned[k] + x
    <3>1. live[k] - Owned[k] \in Nat /\ live[k] = Owned[k] + (live[k] - Owned[k])
      BY <2>1
    <3> QED
      BY <3>1
  <2>3. PICK n \in Nat : Owned'[k] = n
    BY DEF OwnedTable
  <2>4. PICK y \in Int : live'[k] = y /\ y = n + x + lost[k]
    BY <2>1, <2>2, <2>3
  <2>5. y \in Nat /\ y >= n /\ (y > n => x > 0 \/ lost[k] > 0)
    BY <2>2, <2>3, <2>4
  <2>6. x > 0 => k \in leaky'
    BY <2>1, <2>2
  <2> QED
    BY <2>3, <2>4, <2>5, <2>6
<1>2. live' \in [ MemoryKinds -> Nat ]
  BY <1>1
<1>3. NothingElseLost'
  BY <1>1 DEF NothingElseLost
<1> QED
  BY <1>2, <1>3 DEF MemoryInv

\* A step that loses nothing.
LEMMA Balanced ==
  ASSUME MemoryInv, OwnedTable, OwnedTable',
         live' = [ k \in MemoryKinds |-> live'[k] ],
         \A k \in MemoryKinds : live'[k] = live[k] + Owned'[k] - Owned[k],
         leaky \subseteq leaky'
  PROVE  MemoryInv'
<1> DEFINE none == [ k \in MemoryKinds |-> 0 ]
<1>1. none \in [ MemoryKinds -> Nat ] /\ \A k \in MemoryKinds : none[k] = 0
  OBVIOUS
<1>2. ASSUME NEW k \in MemoryKinds
      PROVE  live'[k] = live[k] + Owned'[k] - Owned[k] + none[k]
  <2>1. PICK n \in Nat : Owned'[k] = n
    BY DEF OwnedTable
  <2>2. live[k] \in Nat /\ Owned[k] \in Nat
    BY DEF OwnedTable, MemoryInv
  <2>3. live'[k] = live[k] + n - Owned[k]
    BY <2>1
  <2>4. live[k] + n - Owned[k] + 0 = live[k] + n - Owned[k]
    BY <2>1, <2>2
  <2> QED
    BY <1>1, <2>1, <2>3, <2>4
<1> HIDE DEF none
<1> QED
  BY <1>1, <1>2, Accounts

\* The terms of the books, kind by kind.
LEMMA Terms ==
  ASSUME NEW k \in MemoryKinds
  PROVE  /\ \A x, y : Plus(x, y)[k] = x[k] + y[k] /\ Minus(x, y)[k] = x[k] - y[k]
         /\ \A K : Just(K)[k] = Count(k \in K)
         /\ \A K : OwnedOf(K)[k] = IF k \in K THEN Owned[k] ELSE 0
         /\ Extended[k] = live[k] + Count(k = "extension" /\ ~ext)
         /\ Connected[k] = live[k] + Count(k = "connection" /\ ~soap.made)
BY DEF Plus, Minus, Just, OwnedOf, Extended, Connected

\* The books are kept on one set of kinds.
LEMMA Functions ==
  /\ \A x, y : Plus(x, y) = [ k \in MemoryKinds |-> Plus(x, y)[k] ]
  /\ \A x, y : Minus(x, y) = [ k \in MemoryKinds |-> Minus(x, y)[k] ]
BY DEF Plus, Minus

LEMMA ContextNewMemory ==
  ASSUME Shape, Shape', Absent, MemoryInv, NEW alive \in BOOLEAN, ContextNew(alive)
  PROVE  MemoryInv'
<1> DEFINE K == { "context", "endpoint", "extension" }
<1>1. /\ form = "none" /\ ext = FALSE /\ soap.made = FALSE
      /\ settings.creds = "none" /\ settings.header = "unset"
  BY DEF ContextNew, Fresh, Absent, Shape
<1>2. /\ form' = "new" /\ ext' = TRUE /\ soap'.made = FALSE
      /\ settings'.creds = "none" /\ settings'.header = "unset"
      /\ output' = output /\ leaky' = leaky
      /\ live' = Plus(live, Just(K))
  BY Defaults DEF ContextNew, Fresh, Blank
<1>3. OwnedTable /\ OwnedTable'
  BY OwnedNow, OwnedNext
<1>4. ASSUME NEW k \in MemoryKinds
      PROVE  live'[k] = live[k] + Owned'[k] - Owned[k]
  <2>1. live'[k] = live[k] + Count(k \in K)
    BY <1>2, Terms
  <2> QED
    BY <1>1, <1>2, <1>3, <2>1 DEF OwnedTable, MemoryKinds, MemoryInv, Count
<1> QED
  BY <1>2, <1>3, <1>4, Functions, Balanced

LEMMA ContextInitMemory ==
  ASSUME Shape, Shape', Absent, MemoryInv, ContextInit
  PROVE  MemoryInv'
<1>1. /\ form = "none" /\ ext = FALSE /\ soap.made = FALSE
      /\ settings.creds = "none" /\ settings.header = "unset"
  BY DEF ContextInit, Fresh, Absent, Shape
<1>2. /\ form' = "init" /\ ext' = TRUE /\ soap'.made = FALSE
      /\ settings'.creds = "none" /\ settings'.header = "unset"
      /\ output' = output /\ leaky' = leaky
      /\ live' = Plus(live, Just({ "extension" }))
  BY Defaults DEF ContextInit, Fresh, Blank
<1>3. OwnedTable /\ OwnedTable'
  BY OwnedNow, OwnedNext
<1>4. ASSUME NEW k \in MemoryKinds
      PROVE  live'[k] = live[k] + Owned'[k] - Owned[k]
  <2>1. live'[k] = live[k] + Count(k \in { "extension" })
    BY <1>2, Terms
  <2> QED
    BY <1>1, <1>2, <1>3, <2>1 DEF OwnedTable, MemoryKinds, MemoryInv, Count
<1> QED
  BY <1>2, <1>3, <1>4, Functions, Balanced

LEMMA ContextBareMemory ==
  ASSUME Shape, Shape', Absent, MemoryInv, NEW t \in TIMEOUTS, ContextBare(t)
  PROVE  MemoryInv'
<1>1. /\ form = "none" /\ ext = FALSE /\ soap.made = FALSE
      /\ settings.creds = "none" /\ settings.header = "unset"
  BY DEF ContextBare, Fresh, Absent, Shape
<1>2. /\ form' = "bare" /\ ext' = FALSE /\ soap'.made = FALSE
      /\ settings'.creds = "none" /\ settings'.header = "unset"
      /\ output' = output /\ leaky' = leaky /\ live' = live
  BY Defaults DEF ContextBare, Fresh, Blank
<1>3. OwnedTable /\ OwnedTable'
  BY OwnedNow, OwnedNext
<1>4. ASSUME NEW k \in MemoryKinds
      PROVE  live'[k] = live[k] + Owned'[k] - Owned[k]
  BY <1>1, <1>2, <1>3 DEF OwnedTable, MemoryKinds, MemoryInv, Count
<1>5. live' = [ k \in MemoryKinds |-> live'[k] ]
  BY <1>2 DEF MemoryInv
<1> QED
  BY <1>2, <1>3, <1>4, <1>5, Balanced

\* The first extension of init2 is the one that is lost.
LEMMA ContextInit2Memory ==
  ASSUME Shape, Shape', Absent, MemoryInv, NEW alive \in BOOLEAN, ContextInit2(alive)
  PROVE  MemoryInv'
<1> DEFINE lost == [ k \in MemoryKinds |-> IF k = "extension" THEN 1 ELSE 0 ]
<1>1. /\ form = "none" /\ ext = FALSE /\ soap.made = FALSE
      /\ settings.creds = "none" /\ settings.header = "unset"
  BY DEF ContextInit2, Fresh, Absent, Shape
<1>2. /\ form' = "init" /\ ext' = TRUE /\ soap'.made = FALSE
      /\ settings'.creds = "none" /\ settings'.header = "unset"
      /\ output' = output /\ leaky' = leaky \cup { "extension" }
      /\ live' = Plus(Plus(live, Just({ "extension" })), Just({ "extension" }))
  BY Defaults DEF ContextInit2, Fresh, Blank
<1>3. OwnedTable /\ OwnedTable'
  BY OwnedNow, OwnedNext
<1>4. ASSUME NEW k \in MemoryKinds
      PROVE  live'[k] = live[k] + Owned'[k] - Owned[k] + lost[k]
  <2>1. live'[k] = live[k] + Count(k \in { "extension" }) + Count(k \in { "extension" })
    BY <1>2, Terms
  <2> QED
    BY <1>1, <1>2, <1>3, <2>1 DEF OwnedTable, MemoryKinds, MemoryInv, Count
<1>5. /\ lost \in [ MemoryKinds -> Nat ]
      /\ \A k \in MemoryKinds : lost[k] > 0 => k \in leaky'
  BY <1>2
<1> HIDE DEF lost
<1> QED
  BY <1>2, <1>3, <1>4, <1>5, Functions, Accounts

\* The extension, with what it holds, is freed first.
LEMMA ContextFreeMemory ==
  ASSUME Shape, Shape', MemoryInv, ContextFree
  PROVE  MemoryInv'
<1> DEFINE K == { "extension", "credentials", "header" }
<1>1. /\ form = "new" /\ form' = "freed" /\ ext' = FALSE /\ soap' = soap
      /\ settings'.creds = "none" /\ settings'.header = "unset"
      /\ output' = output /\ leaky' = leaky
      /\ live' = Minus(live, OwnedOf(K))
  BY Defaults DEF ContextFree, ExtensionKinds, Blank
<1>2. OwnedTable /\ OwnedTable'
  BY OwnedNow, OwnedNext
<1>3. ASSUME NEW k \in MemoryKinds
      PROVE  live'[k] = live[k] + Owned'[k] - Owned[k]
  <2>1. live'[k] = live[k] - (IF k \in K THEN Owned[k] ELSE 0)
    BY <1>1, Terms
  <2> QED
    BY <1>1, <1>2, <2>1 DEF OwnedTable, MemoryKinds, MemoryInv, Count
<1>4. live' = [ k \in MemoryKinds |-> live'[k] ]
  BY <1>1, Functions
<1> HIDE DEF K
<1> QED
  BY <1>1, <1>2, <1>3, <1>4, Balanced

\* Then the connection.
LEMMA CloseMemory ==
  ASSUME Shape, Shape', MemoryInv, Close
  PROVE  MemoryInv'
<1> DEFINE K == { "connection" }
<1>1. /\ form' = form /\ ext' = ext /\ settings' = settings /\ soap'.made = FALSE
      /\ output' = output /\ leaky' = leaky
      /\ live' = Minus(live, OwnedOf(K))
  BY Defaults DEF Close
<1>2. OwnedTable /\ OwnedTable'
  BY OwnedNow, OwnedNext
<1>3. ASSUME NEW k \in MemoryKinds
      PROVE  live'[k] = live[k] + Owned'[k] - Owned[k]
  <2>1. live'[k] = live[k] - (IF k \in K THEN Owned[k] ELSE 0)
    BY <1>1, Terms
  <2> QED
    BY <1>1, <1>2, <2>1 DEF OwnedTable, MemoryKinds, MemoryInv, Count
<1>4. live' = [ k \in MemoryKinds |-> live'[k] ]
  BY <1>1, Functions
<1> HIDE DEF K
<1> QED
  BY <1>1, <1>2, <1>3, <1>4, Balanced

\* Then the rest of the context.
LEMMA ReleaseMemory ==
  ASSUME Shape, Shape', MemoryInv, ClosingInv, Release
  PROVE  MemoryInv'
<1> DEFINE K == { "context", "endpoint" }
<1>1. /\ form = "freed" /\ ext = FALSE /\ soap.made = FALSE
      /\ settings.creds = "none" /\ settings.header = "unset"
      /\ form' = "none" /\ ext' = FALSE /\ soap'.made = FALSE
      /\ settings'.creds = "none" /\ settings'.header = "unset"
      /\ output' = output /\ leaky' = leaky
      /\ live' = Minus(live, OwnedOf(K))
  BY Defaults DEF Shape, ClosingInv, FreedSoFar, Release, Gone, Blank
<1>2. OwnedTable /\ OwnedTable'
  BY OwnedNow, OwnedNext
<1>3. ASSUME NEW k \in MemoryKinds
      PROVE  live'[k] = live[k] + Owned'[k] - Owned[k]
  <2>1. live'[k] = live[k] - (IF k \in K THEN Owned[k] ELSE 0)
    BY <1>1, Terms
  <2> QED
    BY <1>1, <1>2, <2>1 DEF OwnedTable, MemoryKinds, MemoryInv, Count
<1>4. live' = [ k \in MemoryKinds |-> live'[k] ]
  BY <1>1, Functions
<1> HIDE DEF K
<1> QED
  BY <1>1, <1>2, <1>3, <1>4, Balanced

\* A context on the application's own memory loses what it holds.
LEMMA AbandonMemory ==
  ASSUME Shape, Shape', MemoryInv, Abandon
  PROVE  MemoryInv'
<1> DEFINE K == ExtensionKinds \cup { "connection" }
           lost == [ k \in MemoryKinds |-> IF k \in K THEN Owned[k] ELSE 0 ]
<1>1. /\ form \notin { "new", "freed" } /\ form' = "none" /\ ext' = FALSE /\ soap'.made = FALSE
      /\ settings'.creds = "none" /\ settings'.header = "unset"
      /\ output' = output /\ live' = live
      /\ leaky' = leaky \cup { k \in K : Owned[k] > 0 }
  BY Defaults DEF Abandon, Gone, Blank
<1>2. OwnedTable /\ OwnedTable'
  BY OwnedNow, OwnedNext
<1>3. ASSUME NEW k \in MemoryKinds
      PROVE  live'[k] = live[k] + Owned'[k] - Owned[k] + lost[k]
  BY <1>1, <1>2 DEF OwnedTable, MemoryKinds, MemoryInv, ExtensionKinds, Count
<1>4. /\ lost \in [ MemoryKinds -> Nat ]
      /\ \A k \in MemoryKinds : lost[k] > 0 => k \in leaky'
  BY <1>1, <1>2 DEF OwnedTable
<1>5. live' = [ k \in MemoryKinds |-> live'[k] ]
  BY <1>1 DEF MemoryInv
<1> HIDE DEF lost
<1> QED
  BY <1>1, <1>2, <1>3, <1>4, <1>5, Accounts

\* The credentials of before are lost.
LEMMA SetCredentialsMemory ==
  ASSUME Shape, Shape', MemoryInv, NEW c \in AllCreds, SetCredentials(c)
  PROVE  MemoryInv'
<1> DEFINE added == [ k \in MemoryKinds |-> Count(k = "credentials" /\ c # "none") ]
           lost  == [ k \in MemoryKinds |-> IF k = "credentials" THEN Owned[k] ELSE 0 ]
<1>1. /\ form' = form /\ ext' = TRUE /\ soap' = soap
      /\ settings'.creds = c /\ settings'.header = settings.header
      /\ output' = output
      /\ leaky' = leaky \cup (IF settings.creds # "none" THEN { "credentials" } ELSE { })
      /\ live' = Plus(Extended, added)
  BY Defaults DEF SetCredentials, Shape, Settings
<1>2. OwnedTable /\ OwnedTable'
  BY OwnedNow, OwnedNext
<1>3. ASSUME NEW k \in MemoryKinds
      PROVE  live'[k] = live[k] + Owned'[k] - Owned[k] + lost[k]
  <2>1. live'[k] = live[k] + Count(k = "extension" /\ ~ext)
                      + Count(k = "credentials" /\ c # "none")
    <3>1. added[k] = Count(k = "credentials" /\ c # "none")
      OBVIOUS
    <3> HIDE DEF added
    <3>2. live'[k] = Extended[k] + added[k]
      BY <1>1, Terms
    <3>3. Extended[k] = live[k] + Count(k = "extension" /\ ~ext)
      BY Terms
    <3> QED
      BY <3>1, <3>2, <3>3, Zenon
  <2> QED
    BY <1>1, <1>2, <2>1 DEF OwnedTable, MemoryKinds, MemoryInv, Count
<1>4. /\ lost \in [ MemoryKinds -> Nat ]
      /\ \A k \in MemoryKinds : lost[k] > 0 => k \in leaky'
  <2>1. lost \in [ MemoryKinds -> Nat ]
    BY <1>2 DEF OwnedTable
  <2>2. ASSUME NEW k \in MemoryKinds, lost[k] > 0 PROVE k \in leaky'
    <3>1. k = "credentials" /\ Count(settings.creds # "none") > 0
      BY <1>2, <2>2 DEF OwnedTable
    <3>2. settings.creds # "none"
      BY <3>1 DEF Count
    <3> QED
      BY <1>1, <3>1, <3>2
  <2> QED
    BY <2>1, <2>2
<1>5. live' = [ k \in MemoryKinds |-> live'[k] ]
  BY <1>1, Functions
<1> HIDE DEF lost, added
<1> QED
  BY <1>1, <1>2, <1>3, <1>4, <1>5, Accounts

\* A header that is replaced is freed.
LEMMA SetHttpHeaderMemory ==
  ASSUME Shape, Shape', MemoryInv, NEW v \in Values, SetHttpHeader(v)
  PROVE  MemoryInv'
<1> DEFINE added == [ k \in MemoryKinds |-> Count(k = "header" /\ v # "unset") ]
<1>1. /\ form' = form /\ ext' = TRUE /\ soap' = soap
      /\ settings'.creds = settings.creds /\ settings'.header = v
      /\ output' = output /\ leaky' = leaky
      /\ live' = Minus(Plus(Extended, added), OwnedOf({ "header" }))
  BY DEF SetHttpHeader, SentByHook, Shape, Settings
<1>2. OwnedTable /\ OwnedTable'
  BY OwnedNow, OwnedNext
<1>3. ASSUME NEW k \in MemoryKinds
      PROVE  live'[k] = live[k] + Owned'[k] - Owned[k]
  <2>1. live'[k] = (live[k] + Count(k = "extension" /\ ~ext)
                      + Count(k = "header" /\ v # "unset"))
                     - (IF k \in { "header" } THEN Owned[k] ELSE 0)
    <3>1. added[k] = Count(k = "header" /\ v # "unset")
      OBVIOUS
    <3> HIDE DEF added
    <3>2. live'[k] = Plus(Extended, added)[k] - OwnedOf({ "header" })[k]
      BY <1>1, Terms
    <3>3. live'[k] = (Extended[k] + added[k]) - OwnedOf({ "header" })[k]
      BY <3>2, Terms
    <3>4. Extended[k] = live[k] + Count(k = "extension" /\ ~ext)
      BY Terms
    <3>5. live'[k] = ((live[k] + Count(k = "extension" /\ ~ext)) + added[k])
                       - OwnedOf({ "header" })[k]
      BY <3>3, <3>4, Zenon
    <3>6. OwnedOf({ "header" })[k] = (IF k \in { "header" } THEN Owned[k] ELSE 0)
      BY Terms
    <3> DEFINE freed == IF k \in { "header" } THEN Owned[k] ELSE 0
    <3>7. OwnedOf({ "header" })[k] = freed
      BY <3>6
    <3> HIDE DEF freed
    <3>8. live'[k] = (live[k] + Count(k = "extension" /\ ~ext) + added[k]) - freed
      BY <3>5, <3>7, Zenon
    <3> QED
      BY <3>1, <3>8, Zenon DEF freed
  <2> QED
    BY <1>1, <1>2, <2>1 DEF OwnedTable, MemoryKinds, MemoryInv, Count
<1>4. live' = [ k \in MemoryKinds |-> live'[k] ]
  BY <1>1, Functions
<1> HIDE DEF added
<1> QED
  BY <1>1, <1>2, <1>3, <1>4, Balanced

\* The other setters add the extension when there is none.
LEMMA ExtendedMemory ==
  ASSUME Shape, Shape', MemoryInv,
         form' = form, ext' = TRUE, soap' = soap, output' = output, leaky' = leaky,
         settings'.creds = settings.creds, settings'.header = settings.header,
         live' = Extended
  PROVE  MemoryInv'
<1>1. OwnedTable /\ OwnedTable'
  BY OwnedNow, OwnedNext
<1>2. ASSUME NEW k \in MemoryKinds
      PROVE  live'[k] = live[k] + Owned'[k] - Owned[k]
  <2>1. live'[k] = live[k] + Count(k = "extension" /\ ~ext)
    BY Terms
  <2> QED
    BY <1>1, <2>1 DEF OwnedTable, MemoryKinds, MemoryInv, Count
<1>3. live' = [ k \in MemoryKinds |-> live'[k] ]
  BY Functions DEF Extended
<1> QED
  BY <1>1, <1>2, <1>3, Balanced

\* A step that allocates and frees nothing.
LEMMA SameMemory ==
  ASSUME MemoryInv,
         form' = form, ext' = ext, soap' = soap, output' = output, leaky' = leaky,
         settings'.creds = settings.creds, settings'.header = settings.header,
         live' = live
  PROVE  MemoryInv'
<1>1. Owned' = Owned
  BY DEF Owned
<1> QED
  BY <1>1 DEF MemoryInv, NothingElseLost

\* A request makes the connection if there is none, hands its output over, and may
\* lose strings.
LEMMA AnsweredMemory ==
  ASSUME Shape, Shape', MemoryInv, Connect,
         NEW e \in Errnos, NEW n \in 0 .. 3,
         NEW o \in [ version : BOOLEAN, extra : BOOLEAN, strings : 0 .. 4 ],
         Answered(e, o, n)
  PROVE  MemoryInv'
<1> DEFINE added == [ k \in MemoryKinds |->
                        CASE k = "version" -> Count(o.version)
                          [] k = "extra"   -> Count(o.extra)
                          [] k = "string"  -> o.strings + n
                          [] OTHER         -> 0 ]
           lost  == [ k \in MemoryKinds |-> IF k = "string" THEN n ELSE 0 ]
<1>1. /\ form' = form /\ ext' = ext /\ settings' = settings
      /\ soap'.made = TRUE
      /\ output.version = FALSE /\ output.extra = FALSE /\ output.strings = 0
      /\ output' = o
      /\ leaky' = leaky \cup (IF n > 0 THEN { "string" } ELSE { })
      /\ live' = Plus(Connected, added)
  BY DEF Connect, Answered, NewConnection, NoOutput, Shape, Connections
<1>2. OwnedTable /\ OwnedTable'
  BY OwnedNow, OwnedNext
<1>3. ASSUME NEW k \in MemoryKinds
      PROVE  live'[k] = live[k] + Owned'[k] - Owned[k] + lost[k]
  <2>1. live'[k] = live[k] + Count(k = "connection" /\ ~soap.made) + added[k]
    BY <1>1, Terms
  <2>2. /\ k = "version" => added[k] = Count(o.version)
        /\ k = "extra" => added[k] = Count(o.extra)
        /\ k = "string" => added[k] = o.strings + n
        /\ k \notin { "version", "extra", "string" } => added[k] = 0
    OBVIOUS
  <2>3. o.strings \in Nat
    OBVIOUS
  <2> HIDE DEF added
  <2> QED
    BY <1>1, <1>2, <2>1, <2>2, <2>3 DEF OwnedTable, MemoryKinds, MemoryInv, Count
<1>4. /\ lost \in [ MemoryKinds -> Nat ]
      /\ \A k \in MemoryKinds : lost[k] > 0 => k \in leaky'
  BY <1>1
<1>5. live' = [ k \in MemoryKinds |-> live'[k] ]
  BY <1>1, Functions
<1> HIDE DEF lost, added
<1> QED
  BY <1>1, <1>2, <1>3, <1>4, <1>5, Accounts

LEMMA FreeOutputMemory ==
  ASSUME Shape, Shape', MemoryInv, FreeOutput
  PROVE  MemoryInv'
<1> DEFINE K == { "version", "extra", "string" }
<1>1. /\ form' = form /\ ext' = ext /\ settings' = settings /\ soap' = soap
      /\ output'.version = FALSE /\ output'.extra = FALSE /\ output'.strings = 0
      /\ leaky' = leaky
      /\ live' = Minus(live, OwnedOf(K))
  BY DEF FreeOutput, NoOutput, context, history
<1>2. OwnedTable /\ OwnedTable'
  BY OwnedNow, OwnedNext
<1>3. ASSUME NEW k \in MemoryKinds
      PROVE  live'[k] = live[k] + Owned'[k] - Owned[k]
  <2>1. live'[k] = live[k] - (IF k \in K THEN Owned[k] ELSE 0)
    BY <1>1, Terms
  <2> QED
    BY <1>1, <1>2, <2>1 DEF OwnedTable, MemoryKinds, MemoryInv, Count
<1>4. live' = [ k \in MemoryKinds |-> live'[k] ]
  BY <1>1, Functions
<1> HIDE DEF K
<1> QED
  BY <1>1, <1>2, <1>3, <1>4, Balanced

\* Nothing is allocated, and nothing owned, in a process that begins.
LEMMA BeginInv ==
  ASSUME form = "none", ext = FALSE, settings = Blank(NoTimeout), soap = NoSoap,
         default \in TIMEOUTS, output = NoOutput, errno = "OK", reported = "OK",
         live = Just({ }), asked = Blank(NoTimeout), late = { }, sent = NoRequest,
         leaky = { }, step = "nothing", srm_ifce_errno = "OK"
  PROVE  Shape /\ SettingsInv /\ MemoryInv /\ ClosingInv
<1> USE Defaults
<1>1. Shape
  BY DEF Shape, Forms, Steps
<1>2. Bare /\ Absent /\ Kept /\ SentAsAsked
  BY DEF Bare, Absent, Kept, SentAsAsked, Blank
<1>3. live \in [ MemoryKinds -> Nat ]
  BY DEF Just, Count
<1>4. ASSUME NEW k \in MemoryKinds PROVE live[k] = 0 /\ Owned[k] = 0
  <2>1. live[k] = 0
    BY DEF Just, Count
  <2>2. OwnedTable
    BY <1>1, OwnedNow
  <2>3. output.version = FALSE /\ output.extra = FALSE /\ output.strings = 0
    BY DEF NoOutput
  <2>4. settings.creds = "none" /\ settings.header = "unset"
        /\ form \notin { "new", "freed" }
    BY DEF Blank
  <2> QED
    BY <2>1, <2>2, <2>3, <2>4 DEF OwnedTable, MemoryKinds, Count
<1>5. NothingElseLost
  BY <1>4 DEF NothingElseLost
<1> QED
  BY <1>1, <1>2, <1>3, <1>5 DEF SettingsInv, MemoryInv, ClosingInv, ErrnoHeld, FreedSoFar

LEMMA BeginInvNext ==
  ASSUME form' = "none", ext' = FALSE, settings' = Blank(NoTimeout), soap' = NoSoap,
         default' \in TIMEOUTS, output' = NoOutput, errno' = "OK", reported' = "OK",
         live' = Just({ }), asked' = Blank(NoTimeout), late' = { }, sent' = NoRequest,
         leaky' = { }, step' = "nothing", srm_ifce_errno' = "OK"
  PROVE  Shape' /\ SettingsInv' /\ MemoryInv' /\ ClosingInv'
<1> USE Defaults
<1>1. Shape'
  BY DEF Shape, Forms, Steps
<1>2. Bare' /\ Absent' /\ Kept' /\ SentAsAsked'
  BY DEF Bare, Absent, Kept, SentAsAsked, Blank
<1>3. live' \in [ MemoryKinds -> Nat ]
  BY DEF Just, Count
<1>4. ASSUME NEW k \in MemoryKinds PROVE live'[k] = 0 /\ Owned'[k] = 0
  <2>1. live'[k] = 0
    BY DEF Just, Count
  <2>2. OwnedTable'
    BY <1>1, OwnedNext
  <2>3. output'.version = FALSE /\ output'.extra = FALSE /\ output'.strings = 0
    BY DEF NoOutput
  <2>4. settings'.creds = "none" /\ settings'.header = "unset"
        /\ form' \notin { "new", "freed" }
    BY DEF Blank
  <2> QED
    BY <2>1, <2>2, <2>3, <2>4 DEF OwnedTable, MemoryKinds, Count
<1>5. NothingElseLost'
  BY <1>4 DEF NothingElseLost
<1> QED
  BY <1>1, <1>2, <1>3, <1>5 DEF SettingsInv, MemoryInv, ClosingInv, ErrnoHeld, FreedSoFar

-----------------------------------------------------------------------------
(* The inductive invariant *)

IInv == Shape /\ SettingsInv /\ MemoryInv /\ ClosingInv

LEMMA InvImplies == IInv => TypeOK /\ SentAsAsked /\ NothingElseLost /\ ErrnoKept
BY DEF IInv, Shape, SettingsInv, MemoryInv, ClosingInv, ErrnoHeld, TypeOK, ErrnoKept, Idle

LEMMA InitInv == Init => IInv
BY BeginInv, Defaults DEF Init, IInv

LEMMA CrashKeeps == Crash => IInv'
BY BeginInvNext, Defaults DEF Crash, IInv

LEMMA ContextNewKeeps ==
  ASSUME IInv, NEW alive \in BOOLEAN, ContextNew(alive)
  PROVE  IInv'
<1>1. Shape /\ Absent /\ MemoryInv /\ ClosingInv /\ default \in TIMEOUTS
  BY DEF IInv, SettingsInv, Shape
<1>2. [ Blank(default) EXCEPT !.alive = alive ] \in Settings
  BY <1>1, Defaults DEF Settings
<1>3. Shape' /\ SettingsInv'
  <2>1. Fresh("new", TRUE, [ Blank(default) EXCEPT !.alive = alive ]) /\ leaky' = leaky
    BY DEF ContextNew
  <2>2. leaky' \subseteq MemoryKinds
    BY <1>1, <2>1 DEF Shape
  <2> QED
    BY <1>1, <1>2, <2>1, <2>2, FreshKeeps DEF Forms
<1>4. MemoryInv'
  BY <1>1, <1>3, ContextNewMemory
<1>5. ClosingInv'
  BY <1>1, CallKeepsClosing DEF ContextNew, Fresh, Call, Idle, ClosingInv, ErrnoHeld
<1> QED
  BY <1>3, <1>4, <1>5 DEF IInv

LEMMA ContextInitKeeps ==
  ASSUME IInv, ContextInit
  PROVE  IInv'
<1>1. Shape /\ Absent /\ MemoryInv /\ ClosingInv /\ default \in TIMEOUTS
  BY DEF IInv, SettingsInv, Shape
<1>2. Shape' /\ SettingsInv'
  <2>1. Fresh("init", TRUE, Blank(default)) /\ leaky' = leaky
    BY DEF ContextInit
  <2>2. leaky' \subseteq MemoryKinds
    BY <1>1, <2>1 DEF Shape
  <2> QED
    BY <1>1, <2>1, <2>2, Defaults, FreshKeeps DEF Forms
<1>3. MemoryInv'
  BY <1>1, <1>2, ContextInitMemory
<1>4. ClosingInv'
  BY <1>1, CallKeepsClosing DEF ContextInit, Fresh, Call, Idle, ClosingInv, ErrnoHeld
<1> QED
  BY <1>2, <1>3, <1>4 DEF IInv

LEMMA ContextInit2Keeps ==
  ASSUME IInv, NEW alive \in BOOLEAN, ContextInit2(alive)
  PROVE  IInv'
<1>1. Shape /\ Absent /\ MemoryInv /\ ClosingInv /\ default \in TIMEOUTS
  BY DEF IInv, SettingsInv, Shape
<1>2. [ Blank(default) EXCEPT !.alive = alive ] \in Settings
  BY <1>1, Defaults DEF Settings
<1>3. Shape' /\ SettingsInv'
  <2>1. /\ Fresh("init", TRUE, [ Blank(default) EXCEPT !.alive = alive ])
        /\ leaky' = leaky \cup { "extension" }
    BY DEF ContextInit2
  <2>2. leaky' \subseteq MemoryKinds
    BY <1>1, <2>1 DEF Shape, MemoryKinds
  <2> QED
    BY <1>1, <1>2, <2>1, <2>2, FreshKeeps DEF Forms
<1>4. MemoryInv'
  BY <1>1, <1>3, ContextInit2Memory
<1>5. ClosingInv'
  BY <1>1, CallKeepsClosing DEF ContextInit2, Fresh, Call, Idle, ClosingInv, ErrnoHeld
<1> QED
  BY <1>3, <1>4, <1>5 DEF IInv

LEMMA ContextBareKeeps ==
  ASSUME IInv, NEW t \in TIMEOUTS, ContextBare(t)
  PROVE  IInv'
<1>1. Shape /\ Absent /\ MemoryInv /\ ClosingInv
  BY DEF IInv, SettingsInv
<1>2. Shape' /\ SettingsInv'
  <2>1. Fresh("bare", FALSE, Blank(t)) /\ leaky' = leaky
    BY DEF ContextBare
  <2>2. leaky' \subseteq MemoryKinds
    BY <1>1, <2>1 DEF Shape
  <2>3. Blank(t) \in Settings /\ Blank(t) = Blank(Blank(t).timeout)
    BY Defaults DEF Blank
  <2> QED
    BY <1>1, <2>1, <2>2, <2>3, FreshKeeps DEF Forms
<1>3. MemoryInv'
  BY <1>1, <1>2, ContextBareMemory
<1>4. ClosingInv'
  BY <1>1, CallKeepsClosing DEF ContextBare, Fresh, Call, Idle, ClosingInv, ErrnoHeld
<1> QED
  BY <1>2, <1>3, <1>4 DEF IInv

LEMMA ContextFreeKeeps ==
  ASSUME IInv, ContextFree
  PROVE  IInv'
<1>1. Shape /\ SettingsInv /\ MemoryInv /\ ClosingInv
  BY DEF IInv
<1>2. Shape' /\ SettingsInv'
  BY <1>1, ContextFreeSettings
<1>3. MemoryInv'
  BY <1>1, <1>2, ContextFreeMemory
<1>4. ClosingInv'
  <2>1. errno = reported
    BY <1>1 DEF ContextFree, Idle, ClosingInv, ErrnoHeld
  <2>2. /\ form' = "freed" /\ ext' = FALSE /\ settings' = Blank(settings.timeout)
        /\ soap' = soap /\ errno' = errno /\ reported' = reported
        /\ IF soap.made THEN step' = "close" /\ srm_ifce_errno' = errno
                        ELSE step' = "release"
    BY DEF ContextFree, SoapFree
  <2> QED
    BY <2>1, <2>2 DEF ClosingInv, ErrnoHeld, FreedSoFar, Idle, Blank
<1> QED
  BY <1>2, <1>3, <1>4 DEF IInv

LEMMA CloseKeeps ==
  ASSUME IInv, Close
  PROVE  IInv'
<1>1. Shape /\ SettingsInv /\ MemoryInv /\ ClosingInv
  BY DEF IInv
<1>2. Shape' /\ SettingsInv'
  BY <1>1, CloseSettings
<1>3. MemoryInv'
  BY <1>1, <1>2, CloseMemory
<1>4. ClosingInv'
  BY <1>1, Defaults DEF Close, ClosingInv, ErrnoHeld, FreedSoFar, Idle
<1> QED
  BY <1>2, <1>3, <1>4 DEF IInv

LEMMA RestoreKeeps ==
  ASSUME IInv, Restore
  PROVE  IInv'
<1>1. Shape /\ SettingsInv /\ MemoryInv /\ ClosingInv
  BY DEF IInv
<1>2. Shape' /\ SettingsInv'
  BY <1>1, RestoreSettings
<1>3. MemoryInv'
  BY <1>1, SameMemory DEF Restore, context, history
<1>4. ClosingInv'
  BY <1>1 DEF Restore, context, history, ClosingInv, ErrnoHeld, FreedSoFar, Idle
<1> QED
  BY <1>2, <1>3, <1>4 DEF IInv

LEMMA ReleaseKeeps ==
  ASSUME IInv, Release
  PROVE  IInv'
<1>1. Shape /\ MemoryInv /\ ClosingInv
  BY DEF IInv
<1>2. Gone /\ step = "release" /\ step' = "nothing" /\ UNCHANGED << srm_ifce_errno, leaky >>
  BY DEF Release
<1>3. Shape' /\ SettingsInv'
  BY <1>1, <1>2, GoneKeeps DEF Shape, Steps
<1>4. MemoryInv'
  BY <1>1, <1>3, ReleaseMemory
<1>5. ClosingInv'
  BY <1>1, <1>2 DEF Gone, ClosingInv, ErrnoHeld, FreedSoFar
<1> QED
  BY <1>3, <1>4, <1>5 DEF IInv

LEMMA AbandonKeeps ==
  ASSUME IInv, Abandon
  PROVE  IInv'
<1>1. Shape /\ MemoryInv /\ ClosingInv
  BY DEF IInv
<1>2. /\ Call /\ Gone
      /\ leaky' = leaky \cup { k \in ExtensionKinds \cup { "connection" } : Owned[k] > 0 }
  BY DEF Abandon
<1>3. leaky' \subseteq MemoryKinds
  BY <1>1, <1>2 DEF Shape, MemoryKinds, ExtensionKinds
<1>4. Shape' /\ SettingsInv'
  BY <1>1, <1>2, <1>3, GoneKeeps DEF Shape, Call, closing
<1>5. MemoryInv'
  BY <1>1, <1>4, AbandonMemory
<1>6. ClosingInv'
  BY <1>1, <1>2, CallKeepsClosing DEF Gone, Call, Idle, ClosingInv, ErrnoHeld
<1> QED
  BY <1>4, <1>5, <1>6 DEF IInv

LEMMA SettersKeep ==
  ASSUME IInv,
         \/ \E c \in AllCreds : SetCredentials(c)
         \/ \E v \in Values : SetHttpHeader(v) \/ SetUserAgent(v)
         \/ \E t \in TIMEOUTS : SetTimeouts(t)
  PROVE  IInv'
<1>1. Shape /\ SettingsInv /\ MemoryInv /\ ClosingInv
  BY DEF IInv
<1>2. ASSUME NEW c \in AllCreds, SetCredentials(c) PROVE IInv'
  <2>1. Shape' /\ SettingsInv'
    BY <1>1, <1>2, SetCredentialsKeeps
  <2>2. MemoryInv'
    BY <1>1, <1>2, <2>1, SetCredentialsMemory
  <2>3. ClosingInv'
    <3>1. step = "nothing" /\ errno = reported /\ form # "freed"
      BY <1>1, <1>2 DEF SetCredentials, Idle, ClosingInv, ErrnoHeld, FreedSoFar
    <3>2. /\ form' = form /\ errno' = errno /\ reported' = reported
          /\ IF soap.made THEN step' = "close" /\ srm_ifce_errno' = errno
                          ELSE step' = "nothing"
      BY <1>2 DEF SetCredentials, SoapFree
    <3> QED
      BY <3>1, <3>2 DEF ClosingInv, ErrnoHeld, FreedSoFar
  <2> QED
    BY <2>1, <2>2, <2>3 DEF IInv
<1>3. ASSUME NEW v \in Values, SetHttpHeader(v) PROVE IInv'
  <2>1. SentByHook("header", v)
    BY <1>3 DEF SetHttpHeader
  <2>2. Shape' /\ SettingsInv'
    BY <1>1, <2>1, SentByHookKeeps
  <2>3. MemoryInv'
    BY <1>1, <1>3, <2>2, SetHttpHeaderMemory
  <2>4. ClosingInv'
    BY <1>1, <2>1, QuietCallKeepsClosing DEF SentByHook
  <2> QED
    BY <2>2, <2>3, <2>4 DEF IInv
<1>4. ASSUME NEW v \in Values, SetUserAgent(v) PROVE IInv'
  <2>1. SentByHook("agent", v) /\ live' = Extended
    BY <1>4 DEF SetUserAgent
  <2>2. Shape' /\ SettingsInv'
    BY <1>1, <2>1, SentByHookKeeps
  <2>3. settings'.creds = settings.creds /\ settings'.header = settings.header
    BY <1>1, <2>1 DEF SentByHook, Shape, Settings
  <2>4. MemoryInv'
    BY <1>1, <2>1, <2>2, <2>3, ExtendedMemory DEF SentByHook
  <2>5. ClosingInv'
    BY <1>1, <2>1, QuietCallKeepsClosing DEF SentByHook
  <2> QED
    BY <2>2, <2>4, <2>5 DEF IInv
<1>5. ASSUME NEW t \in TIMEOUTS, SetTimeouts(t) PROVE IInv'
  <2>1. Shape' /\ SettingsInv'
    BY <1>1, <1>5, SetTimeoutsKeeps
  <2>2. settings'.creds = settings.creds /\ settings'.header = settings.header
    BY <1>1, <1>5 DEF SetTimeouts, Shape, Settings
  <2>3. MemoryInv'
    BY <1>1, <1>5, <2>2, SameMemory DEF SetTimeouts
  <2>4. ClosingInv'
    BY <1>1, <1>5, QuietCallKeepsClosing DEF SetTimeouts
  <2> QED
    BY <2>1, <2>3, <2>4 DEF IInv
<1> QED
  BY <1>2, <1>3, <1>4, <1>5

LEMMA OthersKeep ==
  ASSUME IInv,
         SetDesiredRequestTime \/ FreeOutput \/ \E t \in TIMEOUTS : SetDefaultTimeout(t)
  PROVE  IInv'
<1>1. Shape /\ SettingsInv /\ MemoryInv /\ ClosingInv
  BY DEF IInv
<1>2. default \in TIMEOUTS
      /\ output \in [ version : BOOLEAN, extra : BOOLEAN, strings : 0 .. 4 ]
  BY <1>1 DEF Shape
<1>3. CASE SetDesiredRequestTime
  <2>1. /\ form # "none" /\ ext' = TRUE /\ live' = Extended
        /\ UNCHANGED << form, settings, soap, default, output, errno, history >>
        /\ Call
    BY <1>3 DEF SetDesiredRequestTime
  <2>2. Shape' /\ SettingsInv'
    BY <1>1, <1>2, <2>1, UntouchedKeeps DEF Call
  <2>3. MemoryInv'
    BY <1>1, <2>1, <2>2, ExtendedMemory DEF history
  <2>4. ClosingInv'
    BY <1>1, <2>1, QuietCallKeepsClosing DEF context, history
  <2> QED
    BY <2>2, <2>3, <2>4 DEF IInv
<1>4. CASE FreeOutput
  <2>1. /\ output' = NoOutput
        /\ UNCHANGED << context, default, errno, history >>
        /\ Call
    BY <1>4 DEF FreeOutput
  <2>2. Shape' /\ SettingsInv'
    <3>1. UNCHANGED << form, settings, soap, closing, errno, history >> /\ ext' = ext
      BY <2>1 DEF context, Call
    <3>2. /\ default' \in TIMEOUTS
          /\ output' \in [ version : BOOLEAN, extra : BOOLEAN, strings : 0 .. 4 ]
      BY <1>2, <2>1, Defaults
    <3>3. ext' = ext \/ (ext' = TRUE /\ form # "none")
      BY <3>1, Zenon
    <3> QED
      BY <1>1, <3>1, <3>2, <3>3, UntouchedKeeps
  <2>3. MemoryInv'
    BY <1>1, <1>4, <2>2, FreeOutputMemory
  <2>4. ClosingInv'
    BY <1>1, <2>1, QuietCallKeepsClosing DEF context, history
  <2> QED
    BY <2>2, <2>3, <2>4 DEF IInv
<1>5. ASSUME NEW t \in TIMEOUTS, SetDefaultTimeout(t) PROVE IInv'
  <2>1. default' = t /\ Call /\ UNCHANGED << context, output, errno, live, history >>
    BY <1>5 DEF SetDefaultTimeout
  <2>2. Shape' /\ SettingsInv'
    <3>1. UNCHANGED << form, settings, soap, closing, errno, history >> /\ ext' = ext
      BY <2>1 DEF context, Call
    <3>2. /\ default' \in TIMEOUTS
          /\ output' \in [ version : BOOLEAN, extra : BOOLEAN, strings : 0 .. 4 ]
      BY <1>2, <2>1
    <3>3. ext' = ext \/ (ext' = TRUE /\ form # "none")
      BY <3>1, Zenon
    <3> QED
      BY <1>1, <3>1, <3>2, <3>3, UntouchedKeeps
  <2>3. MemoryInv'
    BY <1>1, <2>1, SameMemory DEF context, history
  <2>4. ClosingInv'
    BY <1>1, <2>1, QuietCallKeepsClosing DEF context, history
  <2> QED
    BY <2>2, <2>3, <2>4 DEF IInv
<1> QED
  BY <1>3, <1>4, <1>5

LEMMA RequestsKeep ==
  ASSUME IInv, Ping \/ XPing
  PROVE  IInv'
<1>1. Shape /\ SettingsInv /\ MemoryInv /\ ClosingInv
  BY DEF IInv
<1>2. Connect
  BY <1>1, RequestOutcome
<1>3. PICK e \in Errnos, o \in [ version : BOOLEAN, extra : BOOLEAN, strings : 0 .. 4 ],
           n \in 0 .. 3 : Answered(e, o, n)
  BY <1>1, RequestOutcome
<1>4. /\ errno' \in Errnos /\ reported' \in Errnos /\ leaky' \subseteq MemoryKinds
      /\ output' \in [ version : BOOLEAN, extra : BOOLEAN, strings : 0 .. 4 ]
      /\ errno' = reported'
  BY <1>1, <1>3, AnsweredTypes
<1>5. Shape' /\ SettingsInv'
  BY <1>1, <1>2, <1>4, ConnectKeeps
<1>6. MemoryInv'
  BY <1>1, <1>2, <1>3, <1>5, AnsweredMemory
<1>7. ClosingInv'
  <2>1. Call /\ form' = form /\ form # "freed"
    BY <1>1, <1>2 DEF Connect, Call, ClosingInv, FreedSoFar
  <2> QED
    BY <1>1, <1>4, <2>1, CallKeepsClosing
<1> QED
  BY <1>5, <1>6, <1>7 DEF IInv

LEMMA StutterKeeps == IInv /\ UNCHANGED vars => IInv'
<1> SUFFICES ASSUME IInv, UNCHANGED vars PROVE IInv'
  OBVIOUS
<1>1. UNCHANGED << context, closing, default, output, errno, live, history >>
  BY DEF vars
<1>2. Shape /\ SettingsInv /\ MemoryInv /\ ClosingInv /\ default \in TIMEOUTS
      /\ output \in [ version : BOOLEAN, extra : BOOLEAN, strings : 0 .. 4 ]
  BY DEF IInv, Shape
<1>3. Shape' /\ SettingsInv'
  <2>1. UNCHANGED << form, settings, soap, closing, errno, history >> /\ ext' = ext
    BY <1>1 DEF context
  <2>2. /\ default' \in TIMEOUTS
        /\ output' \in [ version : BOOLEAN, extra : BOOLEAN, strings : 0 .. 4 ]
    BY <1>1, <1>2
  <2>3. ext' = ext \/ (ext' = TRUE /\ form # "none")
    BY <2>1, Zenon
  <2> QED
    BY <1>2, <2>1, <2>2, <2>3, UntouchedKeeps
<1>4. MemoryInv'
  BY <1>1, <1>2, SameMemory DEF context, history
<1>5. ClosingInv'
  BY <1>1, <1>2 DEF context, closing, history, ClosingInv, ErrnoHeld, FreedSoFar, Idle
<1> QED
  BY <1>3, <1>4, <1>5 DEF IInv

LEMMA NextInv == IInv /\ [Next]_vars => IInv'
<1> SUFFICES ASSUME IInv, Next PROVE IInv'
  BY StutterKeeps
<1> QED
  BY ContextNewKeeps, ContextInitKeeps, ContextInit2Keeps, ContextBareKeeps,
     ContextFreeKeeps, CloseKeeps, RestoreKeeps, ReleaseKeeps, AbandonKeeps,
     SettersKeep, OthersKeep, RequestsKeep, CrashKeeps
     DEF Next

LEMMA Inductive == Spec => []IInv
BY InitInv, NextInv, PTL DEF Spec

\* The context, its connection, the output and the history keep their types, and the
\* hook of a connection always has an extension to read.
THEOREM TypeCorrect == Spec => []TypeOK
BY Inductive, InvImplies, PTL

\* Whatever the order of settings and requests: a request carries the credentials
\* and the keep-alive that were asked for, and all the rest that did not come after
\* the connection it needed.
THEOREM AskedIsSent == Spec => []SentAsAsked
BY Inductive, InvImplies, PTL

\* Whatever the order of the calls: nothing is freed that is in use, and only the
\* known kinds of blocks are lost.
THEOREM MemoryAccounted == Spec => []NothingElseLost
BY Inductive, InvImplies, PTL

\* Whatever errno closing a connection leaves: when srm_set_credentials or
\* srm_context_free returns, errno is again that of the last request.
THEOREM ErrnoSurvives == Spec => []ErrnoKept
BY Inductive, InvImplies, PTL
=============================================================================
