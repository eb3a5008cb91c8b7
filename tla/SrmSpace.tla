------------------------------ MODULE SrmSpace ------------------------------
(***************************************************************************)
(* Space management: the operations on space tokens, and the choice of a   *)
(* space for a put that comes with a description of one.  The client asks  *)
(* for the tokens of the description, then for their sizes, picks one, and *)
(* uses it: other users change the spaces between any two of these steps.  *)
(***************************************************************************)
EXTENDS Integers, Sequences, FiniteSets, SrmStatus

CONSTANTS
  TOKENS,     \* space tokens of the server
  MAX_SIZE,   \* the largest space (bound)
  NEEDS,      \* sizes the application needs
  MARGIN,     \* SRM_SIZE_MARGIN
  REFUSALS,   \* codes with which the server refuses an operation
  NoToken     \* a NULL token

\* What other code left in errno when a call is made.
PriorErrnos == { "OK", "ENOENT" }

\* The refusals are those whose errno tells them from the errno of before.
ASSUME SpaceAssumption ==
  /\ MAX_SIZE \in Nat /\ MARGIN \in Nat \ { 0 } /\ NEEDS \subseteq Nat
  /\ IsFiniteSet(TOKENS) /\ NoToken \notin TOKENS
  /\ REFUSALS \subseteq
       { c \in StatusCodes \ { "SUCCESS" } : statuscode2errno(c) \notin PriorErrnos \cup { "ENOSPC" } }

\* A token that names no space.
Gone == -1

\* A SOAP call that failed; NoStatus is a reply without its returnStatus.
Lost == "Lost"

ChoosingOps == { "getbestspacetoken", "prepare_to_put" }
Ops == ChoosingOps \cup { "getspacetokens", "getspacemd", "reservespace",
                          "releasespace", "purgefromspace" }

\* The lists of tokens the server may send, or the application may ask about.
TokenLists ==
  { s \in UNION { [ 1 .. n -> TOKENS ] : n \in 0 .. Cardinality(TOKENS) } :
      \A j, k \in DOMAIN s : s[j] = s[k] => j = k }

\* An srm_spacemd; one the reply did not fill in has no token and no sizes.
Details == [ token : TOKENS \cup { NoToken }, unused : 0 .. MAX_SIZE ]
Blank   == [ token |-> NoToken, unused |-> 0 ]

VARIABLES
  space,    \* server: unused size of every space, or Gone
  pc,       \* "idle", or the next step of the call: "tokens", "md", "pick", "put"
  op,       \* the current, or last, operation
  needed,   \* neededsize
  target,   \* the token to release or purge
  tokens,   \* spacetokens of getspacetokens, or the ones given to getspacemd
  md,       \* the array srmv2_getspacemd fills in
  scan,     \* the loop of getbestspacetoken: i, numtoken (0: none), unusedsize
  result,   \* what the call returned: the number, the token, and errno
  prior,    \* history: errno when the call was made
  lost,     \* history: the last SOAP call failed
  touched   \* history: others changed a space since the call, or since its sizes were read

client  == << pc, op, needed, target, tokens, md, scan, result >>
history == << prior, lost, touched >>
vars == << space, client, history >>

Start == [ i |-> 1, numtoken |-> 0, unusedsize |-> -1 ]

TypeOK ==
  /\ space \in [ TOKENS -> { Gone } \cup 0 .. MAX_SIZE ]
  /\ pc \in { "idle", "tokens", "md", "pick", "put" }
  /\ op \in Ops
  /\ needed \in NEEDS \cup { 0 }
  /\ target \in TOKENS \cup { NoToken }
  /\ tokens \in Seq(TOKENS)
  /\ md \in Seq(Details)
  /\ md # << >> => Len(md) = Len(tokens)
  /\ scan.i \in 1 .. Len(md) + 1
  /\ scan.numtoken \in 0 .. Len(md)
  /\ scan.unusedsize \in -1 .. MAX_SIZE
  /\ pc = "put" => result.token \in TOKENS
  /\ result.ret \in { -1, 0, 1 }
  /\ result.token \in TOKENS \cup { NoToken }
  /\ result.errno \in Errnos
  /\ prior \in PriorErrnos
  /\ lost \in BOOLEAN /\ touched \in BOOLEAN

errno == result.errno

-----------------------------------------------------------------------------
(* The server (external) *)

Live == { t \in TOKENS : space[t] # Gone }

Bare(c) == [ code |-> c, present |-> FALSE, list |-> << >> ]
Bares   == { Bare(c) : c \in REFUSALS \cup { Lost, NoStatus, "SUCCESS" } }

\* srmGetSpaceTokens: the spaces it knows of, in any order, or none.
TokenAnswers ==
  Bares \cup
  { [ code |-> "SUCCESS", present |-> TRUE, list |-> s ] :
      s \in { l \in TokenLists : \A k \in DOMAIN l : l[k] \in Live } }

\* srmGetSpaceMetaData on one token: nothing, no size, the size, or an error.
Kinds == { "blank", "nosize", "sized" } \cup REFUSALS
Entry(t, kind) ==
  [ token  |-> IF kind = "blank" THEN NoToken ELSE t,
    unused |-> IF kind = "sized" /\ t \in Live THEN space[t] ELSE 0,
    code   |-> IF kind \in REFUSALS THEN kind ELSE "SUCCESS" ]

\* The entries come as they were asked for, or in another order.
Orders(s) == { s, [ k \in DOMAIN s |-> s[Len(s) + 1 - k] ] }

DetailAnswers(s) ==
  Bares \cup
  { [ code |-> "SUCCESS", present |-> TRUE, list |-> l ] :
      l \in { << >> } \cup UNION { { [ k \in DOMAIN o |-> Entry(o[k], f[k]) ] :
                                       f \in [ DOMAIN o -> Kinds ] } : o \in Orders(s) } }

-----------------------------------------------------------------------------
(* What an answer makes of a call *)

Fail(e)    == [ ret |-> -1, token |-> NoToken, errno |-> e ]
Ok(n, t)   == [ ret |-> n, token |-> t, errno |-> "OK" ]
Refused(c) == Fail(IF c \in { Lost, NoStatus } THEN "ECOMM" ELSE statuscode2errno(c))

\* A failed SOAP call leaves errno as it was: its result is dropped.
srmv2_getspacetokens(r) ==
  CASE r.code = Lost      -> Fail(errno)
    [] r.code \notin { Lost, "SUCCESS" } -> Refused(r.code)
    [] r.code = "SUCCESS" /\ ~r.present  -> Fail("ECOMM")
    [] r.present /\ r.list = << >>       -> Fail("EINVAL")
    [] OTHER              -> Ok(0, NoToken)

\* Entries without a token are skipped, whatever their status.
Broken(l) == { k \in DOMAIN l : l[k].token # NoToken /\ l[k].code # "SUCCESS" }

\* Mutant: the error of a space does not reach errno.
MdErrnoDropped(r) ==
  CASE r.code # "SUCCESS"               -> Refused(r.code)
    [] r.code = "SUCCESS" /\ ~r.present -> Fail("ECOMM")
    [] r.present /\ r.list = << >>      -> Fail("EINVAL")
    [] Broken(r.list) # { }             -> Fail(errno)
    [] OTHER                            -> Ok(0, NoToken)

\* The first space with an error ends the call.
srmv2_getspacemd(r) ==
  CASE r.code # "SUCCESS"               -> Refused(r.code)
    [] r.code = "SUCCESS" /\ ~r.present -> Fail("ECOMM")
    [] r.present /\ r.list = << >>      -> Fail("EINVAL")
    [] Broken(r.list) # { }             ->
         LET k == CHOOSE j \in Broken(r.list) : \A n \in Broken(r.list) : j <= n
         IN  Fail(srm_call_err(r.list[k].code, "none"))
    [] OTHER                            -> Ok(0, NoToken)

\* What is copied of an entry.
Detail(e) == [ token |-> e.token, unused |-> e.unused ]

-----------------------------------------------------------------------------
(* Actions *)

\* Every operation begins so, in the application.
Begin(o, n, t, s) ==
  /\ pc = "idle"
  /\ op' = o /\ needed' = n /\ target' = t /\ tokens' = s
  /\ md' = << >> /\ scan' = Start
  /\ touched' = FALSE

\* The call ends with r.
Return(r) == pc' = "idle" /\ result' = r
Continue(step) == pc' = step /\ UNCHANGED result

\* getspacetokens; getbestspacetoken, alone or in a put with a description.
CallTokens ==
  \E o \in ChoosingOps \cup { "getspacetokens" }, e \in PriorErrnos :
    /\ \E n \in IF o \in ChoosingOps THEN NEEDS ELSE { 0 } : Begin(o, n, NoToken, << >>)
    /\ pc' = "tokens"
    /\ result' = [ Ok(0, NoToken) EXCEPT !.errno = e ]
    /\ prior' = e
    /\ lost' = FALSE
    /\ UNCHANGED space

\* getspacemd on tokens the application knows; on none it fails.
CallMd ==
  \E s \in TokenLists, e \in PriorErrnos :
    /\ Begin("getspacemd", 0, NoToken, s)
    /\ IF s = << >> THEN Return(Fail("EINVAL"))
                    ELSE pc' = "md" /\ result' = [ Ok(0, NoToken) EXCEPT !.errno = e ]
    /\ prior' = e
    /\ lost' = FALSE
    /\ UNCHANGED space

\* Mutant: a put takes the first token of the description.
FirstToken(s) == Len(s) >= 1

\* The only token of a description is taken without a look at its size.
OnlyToken(s) == Len(s) = 1

\* Mutant: a put without a token is made nevertheless.
ChosenOrNot(r) ==
  IF op = "prepare_to_put" THEN pc' = "put" /\ result' = r ELSE Return(r)

\* A token for a put goes into its request; without one the put is not made.
Chosen(r) ==
  IF op = "prepare_to_put" /\ r.token # NoToken
  THEN pc' = "put" /\ result' = r
  ELSE Return(r)

GetSpaceTokens ==
  /\ pc = "tokens"
  /\ \E a \in TokenAnswers :
       LET r == srmv2_getspacetokens(a)
       IN  /\ tokens' = a.list
           /\ lost' = (a.code = Lost)
           /\ CASE r.ret = -1 \/ op = "getspacetokens"     -> Return(r)
                [] r.ret = 0 /\ op \in ChoosingOps /\ OnlyToken(a.list) ->
                     Chosen(Ok(0, a.list[1]))
                [] OTHER                                   -> Continue("md")
  /\ UNCHANGED << space, op, needed, target, md, scan, prior, touched >>

GetSpaceMd ==
  /\ pc = "md"
  /\ \E a \in DetailAnswers(tokens) :
       LET r == srmv2_getspacemd(a)
       IN  /\ lost' = (a.code = Lost)
           /\ IF r.ret = 0 THEN md' = [ k \in DOMAIN a.list |-> Detail(a.list[k]) ]
                           ELSE UNCHANGED md
           /\ IF r.ret = 0 /\ op \in ChoosingOps THEN Continue("pick") ELSE Return(r)
  /\ touched' = FALSE
  /\ UNCHANGED << space, op, needed, target, tokens, scan, prior >>

\* Mutant: a space of exactly the size needed is left out.
FitsStrictly(d) == d.unused > needed + MARGIN

Fits(d) == d.unused >= needed + MARGIN

\* Mutant: the size of the best token so far is not kept.
ScanKeepsNoSize ==
  /\ pc = "pick" /\ scan.i <= Len(md)
  /\ LET d      == md[scan.i]
         better == Fits(d) /\ (scan.numtoken = 0 \/ d.unused < scan.unusedsize)
     IN  scan' = [ scan EXCEPT !.i = @ + 1, !.numtoken = IF better THEN scan.i ELSE @ ]
  /\ UNCHANGED << space, pc, op, needed, target, tokens, md, result, history >>

\* One round of the loop: the least of the spaces that fit, the first of equals.
Scan ==
  /\ pc = "pick" /\ scan.i <= Len(md)
  /\ LET d      == md[scan.i]
         better == Fits(d) /\ (scan.numtoken = 0 \/ d.unused < scan.unusedsize)
     IN  scan' = [ i          |-> scan.i + 1,
                   numtoken   |-> IF better THEN scan.i ELSE scan.numtoken,
                   unusedsize |-> IF better THEN d.unused ELSE scan.unusedsize ]
  /\ UNCHANGED << space, pc, op, needed, target, tokens, md, result, history >>

Pick ==
  /\ pc = "pick" /\ scan.i > Len(md)
  /\ Chosen(IF scan.numtoken = 0 THEN Fail("EINVAL") ELSE Ok(0, md[scan.numtoken].token))
  /\ UNCHANGED << space, op, needed, target, tokens, md, scan, history >>

\* srmPrepareToPut into the space: it fits, or it does not, or other reasons.
Put ==
  /\ pc = "put"
  /\ LET t == result.token
     IN  \/ /\ space[t] >= needed
            /\ space' = [ space EXCEPT ![t] = @ - needed ]
            /\ \E r \in { Ok(1, t), [ Fail("ECOMM") EXCEPT !.token = t ] } : Return(r)
         \/ /\ space[t] < needed
            /\ Return([ Fail("ENOSPC") EXCEPT !.token = t ])
            /\ UNCHANGED space
         \/ /\ \E c \in REFUSALS \cup { Lost } : Return([ Refused(c) EXCEPT !.token = t ])
            /\ UNCHANGED space
  /\ UNCHANGED << op, needed, target, tokens, md, scan, history >>

\* A whole operation of one SOAP call, which may fail after it was carried out.
Whole(o, t, r, w, e) ==
  /\ Begin(o, 0, t, << >>)
  /\ Return(r) /\ space' = w
  /\ prior' = e

\* reservespace looks at nothing of the reply but its token: a queued reservation,
\* or a refusal, is an error of communication, and so is a descriptor left out.
ReserveSpace ==
  \E e \in PriorErrnos :
    \/ /\ Whole("reservespace", NoToken, Fail("EINVAL"), space, e)
       /\ lost' = FALSE
    \/ /\ Whole("reservespace", NoToken, Fail("ECOMM"), space, e)
       /\ lost' \in BOOLEAN
    \/ \E t \in TOKENS \ Live, n \in 0 .. MAX_SIZE :
         /\ lost' \in BOOLEAN
         /\ Whole("reservespace", NoToken, IF lost' THEN Fail("ECOMM") ELSE Ok(0, t),
                  [ space EXCEPT ![t] = n ], e)

\* releasespace does not look at the reply.
ReleaseSpace ==
  \E e \in PriorErrnos :
    \/ /\ Whole("releasespace", NoToken, Fail("EINVAL"), space, e)
       /\ lost' = FALSE
    \/ \E t \in TOKENS : \E w \in { space, [ space EXCEPT ![t] = Gone ] } :
         /\ lost' \in BOOLEAN
         /\ Whole("releasespace", t, IF lost' THEN Fail("ECOMM") ELSE Ok(0, NoToken), w, e)

\* Mutant: the list of statuses is enough.
PurgeByList(c, list) ==
  CASE c \in { Lost, NoStatus } -> Fail("ECOMM")
    [] c \notin { Lost, NoStatus } /\ ~list -> Fail(srm_call_err(c, "none"))
    [] OTHER -> Ok(1, NoToken)

\* purgefromspace returns the number of statuses.
srmv2_purgefromspace(c, list) ==
  CASE c \in { Lost, NoStatus } -> Fail("ECOMM")
    [] c \notin { Lost, NoStatus } /\ (c # "SUCCESS" \/ ~list) -> Fail(srm_call_err(c, "none"))
    [] OTHER -> Ok(1, NoToken)

PurgeFromSpace ==
  \E e \in PriorErrnos :
    \/ /\ Whole("purgefromspace", NoToken, Fail("EINVAL"), space, e)
       /\ lost' = FALSE
    \/ \E t \in TOKENS, c \in REFUSALS \cup { Lost, NoStatus }, list \in BOOLEAN :
         /\ Whole("purgefromspace", t, srmv2_purgefromspace(c, list), space, e)
         /\ lost' = (c = Lost)
    \/ \E t \in Live, c \in { "SUCCESS", Lost, NoStatus }, list \in BOOLEAN :
         /\ Whole("purgefromspace", t, srmv2_purgefromspace(c, list),
                  [ space EXCEPT ![t] = MAX_SIZE ], e)
         /\ lost' = (c = Lost)

\* Other users write to a space, free it, reserve or release it.  Between two calls
\* this changes nothing a call can tell from another initial state.
Elsewhere ==
  /\ pc # "idle"
  /\ \E t \in TOKENS, n \in { Gone } \cup 0 .. MAX_SIZE :
       n # space[t] /\ space' = [ space EXCEPT ![t] = n ]
  /\ touched' = TRUE
  /\ UNCHANGED << client, prior, lost >>

Init ==
  /\ space \in [ TOKENS -> { Gone } \cup 0 .. MAX_SIZE ]
  /\ pc = "idle" /\ op = "releasespace" /\ needed = 0 /\ target = NoToken
  /\ tokens = << >> /\ md = << >> /\ scan = Start
  /\ result = Ok(0, NoToken)
  /\ prior = "OK" /\ lost = FALSE /\ touched = FALSE

Next ==
  \/ CallTokens \/ CallMd \/ GetSpaceTokens \/ GetSpaceMd \/ Scan \/ Pick \/ Put
  \/ ReserveSpace \/ ReleaseSpace \/ PurgeFromSpace
  \/ Elsewhere

Spec == Init /\ [][Next]_vars

-----------------------------------------------------------------------------
(* Properties *)

\* A token was chosen by its size, and nobody changed the spaces since.
ChosenBySize ==
  /\ op \in ChoosingOps /\ pc \in { "idle", "put" }
  /\ result.token # NoToken /\ Len(tokens) > 1

\* "the spacetoken with the least free space, but a bit more than needed": the
\* token names a live space that has room for the files and the margin, and no
\* space whose size was told has less room that would do.
LeastThatFits ==
  ChosenBySize /\ ~touched /\ result.ret = 0 =>
    /\ space[result.token] >= needed + MARGIN
    /\ \A k \in DOMAIN md :
         md[k].unused >= needed + MARGIN => space[result.token] <= md[k].unused

\* When the sizes were read and no token is returned, no space of the
\* description whose size was told has room.
NoneFits ==
  /\ op \in ChoosingOps /\ pc = "idle" /\ md # << >> /\ ~touched
  /\ result.token = NoToken
  => \A k \in DOMAIN md : md[k].unused > 0 => space[md[k].token] < needed + MARGIN

\* A put with a description is refused for lack of space only if the space was
\* changed after its size was read, or if it is the only one of the description,
\* whose size nobody looks at.
PutFits ==
  op = "prepare_to_put" /\ pc = "idle" /\ errno = "ENOSPC" => touched \/ Len(tokens) = 1

\* A call that fails has an errno of its own, except when the SOAP call of
\* getspacetokens fails: then the application is told what errno was before.
FailureExplained ==
  pc = "idle" /\ result.ret = -1 =>
    \/ errno \notin PriorErrnos
    \/ errno = prior /\ lost /\ tokens = << >>
       /\ op \in ChoosingOps \cup { "getspacetokens" }

\* A reservation that succeeds gave a space, and a purge that succeeds emptied
\* one.  (A release promises nothing: its reply is not looked at.)
SuccessMeansDone ==
  pc = "idle" /\ result.ret >= 0 =>
    /\ op = "reservespace" => result.token \in Live
    /\ op = "purgefromspace" => space[target] = MAX_SIZE
=============================================================================
