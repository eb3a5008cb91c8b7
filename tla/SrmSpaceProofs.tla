---------------------------- MODULE SrmSpaceProofs ----------------------------
(***************************************************************************)
(* The properties of SrmSpace, for every finite set of tokens, sizes of    *)
(* spaces, needs, positive margin and set of refusals.                     *)
(***************************************************************************)
EXTENDS SrmSpace, FiniteSetTheorems, WellFoundedInduction, TLAPS

USE SpaceAssumption

-----------------------------------------------------------------------------
(* The invariant *)

\* What the steps of a call find.
CallInv ==
  /\ pc # "idle" => op \in ChoosingOps \cup { "getspacetokens", "getspacemd" }
  /\ pc = "tokens" => op \in ChoosingOps \cup { "getspacetokens" } /\ errno = prior
  /\ pc \in { "tokens", "md" } => md = << >> /\ scan = Start
  /\ pc = "pick" => op \in ChoosingOps
  /\ pc = "put" => op = "prepare_to_put" /\ result.ret = 0

\* The sizes were read and the call has not used one of the spaces.
SizesKnown ==
  /\ op \in ChoosingOps
  /\ pc \in { "pick", "put" } \/ (pc = "idle" /\ (result.ret = 0 \/ result.token = NoToken))

\* A size that was told is that of the space, until others change it.
MdInv ==
  SizesKnown =>
    \A k \in DOMAIN md :
      md[k].unused > 0 =>
        /\ md[k].token \in TOKENS
        /\ ~touched => space[md[k].token] = md[k].unused

\* The k-th of the entries before n is the least that fits.
Least(k, n) ==
  /\ k \in DOMAIN md /\ Fits(md[k])
  /\ \A j \in DOMAIN md : j < n /\ Fits(md[j]) => md[k].unused <= md[j].unused

\* The loop has found the least of the entries it went through, if one fits.
ScanInv ==
  pc = "pick" =>
    \/ /\ scan.numtoken = 0
       /\ \A j \in DOMAIN md : j < scan.i => ~Fits(md[j])
    \/ /\ scan.numtoken # 0
       /\ Least(scan.numtoken, scan.i)
       /\ scan.unusedsize = md[scan.numtoken].unused

\* What the loop ended with.
ChosenInv ==
  /\ op \in ChoosingOps /\ pc \in { "idle", "put" }
  /\ result.ret = 0 /\ result.token # NoToken /\ Len(tokens) # 1
  => \E k \in DOMAIN md : result.token = md[k].token /\ Least(k, Len(md) + 1)

NotChosenInv ==
  op \in ChoosingOps /\ pc = "idle" /\ result.token = NoToken
  => \A j \in DOMAIN md : ~Fits(md[j])

IInv ==
  /\ TypeOK /\ CallInv /\ MdInv /\ ScanInv /\ ChosenInv /\ NotChosenInv
  /\ PutFits /\ FailureExplained /\ SuccessMeansDone

-----------------------------------------------------------------------------
(* Codes, results and answers *)

LEMMA Constants ==
  /\ NoStatus = "NoStatus" /\ Lost = "Lost"
  /\ PriorErrnos = { "OK", "ENOENT" }
  /\ MAX_SIZE \in Nat /\ MARGIN \in Nat /\ MARGIN > 0 /\ NEEDS \subseteq Nat
BY DEF NoStatus, Lost, PriorErrnos

\* A refusal has an errno of its own, as the status of a request or of a space.
LEMMA RefusalErrno ==
  ASSUME NEW c \in REFUSALS
  PROVE  /\ c \in StatusCodes /\ c # "SUCCESS" /\ c # NoStatus /\ c # Lost
         /\ statuscode2errno(c) \in Errnos
         /\ statuscode2errno(c) \notin PriorErrnos \cup { "ENOSPC" }
         /\ srm_call_err(c, "none") \in Errnos
         /\ srm_call_err(c, "none") \notin PriorErrnos \cup { "ENOSPC" }
<1>1. c \in StatusCodes /\ c # "SUCCESS"
      /\ statuscode2errno(c) \notin PriorErrnos \cup { "ENOSPC" }
  OBVIOUS
<1>2. c # NoStatus /\ c # Lost
  BY <1>1 DEF StatusCodes, NoStatus, Lost
<1>3. statuscode2errno(c) \in Errnos
  BY DEF statuscode2errno, Errnos
<1>4. statuscode_and_msg_to_errno(c, "none") = statuscode2errno(c)
  BY DEF statuscode_and_msg_to_errno
<1>5. srm_call_err(c, "none") \in { "ECOMM", statuscode2errno(c) }
  BY <1>4 DEF srm_call_err
<1>6. "ECOMM" \in Errnos /\ "ECOMM" \notin PriorErrnos \cup { "ENOSPC" }
  BY DEF Errnos, PriorErrnos
<1> QED
  BY <1>1, <1>2, <1>3, <1>5, <1>6

\* A failure that was seen by the call itself.
Failure(r) ==
  /\ r = [ ret |-> -1, token |-> NoToken, errno |-> r.errno ]
  /\ r.errno \in Errnos
  /\ r.errno \notin PriorErrnos \cup { "ENOSPC" }

LEMMA OwnFailure ==
  /\ \A e \in { "ECOMM", "EINVAL" } : Failure(Fail(e))
  /\ \A c \in REFUSALS \cup { Lost, NoStatus } : Failure(Refused(c))
  /\ \A c \in REFUSALS : Failure(Fail(srm_call_err(c, "none")))
<1>1. ASSUME NEW e \in Errnos, e \notin PriorErrnos \cup { "ENOSPC" }
      PROVE  Failure(Fail(e))
  BY <1>1 DEF Failure, Fail
<1>2. \A e \in { "ECOMM", "EINVAL" } : e \in Errnos /\ e \notin PriorErrnos \cup { "ENOSPC" }
  BY DEF Errnos, PriorErrnos
<1> QED
  BY <1>1, <1>2, RefusalErrno DEF Refused

LEMMA ListsTyped == TokenLists \subseteq Seq(TOKENS)
<1>1. Cardinality(TOKENS) \in Nat
  BY FS_CardinalityType
<1> QED
  BY <1>1 DEF TokenLists

LEMMA BareShape ==
  ASSUME NEW a \in Bares
  PROVE  /\ a.code \in REFUSALS \cup { Lost, NoStatus, "SUCCESS" }
         /\ a.present = FALSE /\ a.list = << >>
BY DEF Bares, Bare

LEMMA TokenAnswerShape ==
  ASSUME NEW a \in TokenAnswers
  PROVE  /\ a.code \in REFUSALS \cup { Lost, NoStatus, "SUCCESS" }
         /\ a.present \in BOOLEAN
         /\ a.list \in Seq(TOKENS)
         /\ ~a.present => a.list = << >>
         /\ a.present => a.code = "SUCCESS"
<1>1. CASE a \in Bares
  <2>1. /\ a.code \in REFUSALS \cup { Lost, NoStatus, "SUCCESS" }
        /\ a.present = FALSE /\ a.list = << >>
    BY <1>1, BareShape, Zenon
  <2>2. << >> \in Seq(TOKENS)
    OBVIOUS
  <2> QED
    BY <2>1, <2>2, Zenon
<1>2. CASE a \notin Bares
  <2>1. PICK s \in TokenLists : a = [ code |-> "SUCCESS", present |-> TRUE, list |-> s ]
    BY <1>2 DEF TokenAnswers
  <2> QED
    BY <2>1, ListsTyped
<1> QED
  BY <1>1, <1>2

\* An entry of a list of sizes: a size that is told is that of the space.
EntryOf(e) ==
  /\ e.token \in TOKENS \cup { NoToken }
  /\ e.unused \in 0 .. MAX_SIZE
  /\ e.code \in REFUSALS \cup { "SUCCESS" }
  /\ e.unused > 0 => e.token \in TOKENS /\ space[e.token] = e.unused

LEMMA EntryShape ==
  ASSUME TypeOK, NEW t \in TOKENS, NEW kind \in Kinds
  PROVE  EntryOf(Entry(t, kind))
<1>1. t \in Live => space[t] \in 0 .. MAX_SIZE
  BY DEF TypeOK, Live, Gone
<1> QED
  BY <1>1, Constants DEF Entry, EntryOf, Kinds

LEMMA DetailAnswerShape ==
  ASSUME TypeOK, NEW a \in DetailAnswers(tokens)
  PROVE  /\ a.code \in REFUSALS \cup { Lost, NoStatus, "SUCCESS" }
         /\ a.present \in BOOLEAN
         /\ ~a.present => a.list = << >>
         /\ a.present => a.code = "SUCCESS"
         /\ a.list = << >> \/ DOMAIN a.list = 1 .. Len(tokens)
         /\ \A k \in DOMAIN a.list : EntryOf(a.list[k])
<1>1. CASE a \in Bares
  <2>1. /\ a.code \in REFUSALS \cup { Lost, NoStatus, "SUCCESS" }
        /\ a.present = FALSE /\ a.list = << >>
    BY <1>1, BareShape, Zenon
  <2>2. DOMAIN << >> = { }
    OBVIOUS
  <2>3. \A k \in DOMAIN a.list : EntryOf(a.list[k])
    BY <2>1, <2>2, Zenon
  <2> QED
    BY <2>1, <2>3, Zenon
<1>2. CASE a = [ code |-> "SUCCESS", present |-> TRUE, list |-> << >> ]
  BY <1>2
<1>3. ASSUME NEW o \in Orders(tokens), NEW f \in [ DOMAIN o -> Kinds ],
             a = [ code |-> "SUCCESS", present |-> TRUE,
                   list |-> [ k \in DOMAIN o |-> Entry(o[k], f[k]) ] ]
      PROVE  /\ a.code = "SUCCESS" /\ a.present = TRUE
             /\ DOMAIN a.list = 1 .. Len(tokens)
             /\ \A k \in DOMAIN a.list : EntryOf(a.list[k])
  <2>1. tokens \in Seq(TOKENS)
    BY DEF TypeOK
  <2>2. DOMAIN o = 1 .. Len(tokens) /\ \A k \in DOMAIN o : o[k] \in TOKENS
    <3>1. DOMAIN tokens = 1 .. Len(tokens) /\ \A k \in 1 .. Len(tokens) : tokens[k] \in TOKENS
      BY <2>1
    <3>2. Len(tokens) \in Nat
      BY <2>1
    <3>3. CASE o = tokens
      BY <3>1, <3>3
    <3>4. CASE o = [ k \in DOMAIN tokens |-> tokens[Len(tokens) + 1 - k] ]
      BY <3>1, <3>2, <3>4
    <3> QED
      BY <3>3, <3>4, Zenon DEF Orders
  <2>3. DOMAIN a.list = DOMAIN o /\ \A k \in DOMAIN o : a.list[k] = Entry(o[k], f[k])
    BY <1>3
  <2>4. \A k \in DOMAIN o : EntryOf(Entry(o[k], f[k]))
    BY <2>2, EntryShape
  <2> QED
    BY <1>3, <2>2, <2>3, <2>4
<1>4. CASE a \notin Bares
  <2>1. PICK l \in { << >> } \cup UNION { { [ k \in DOMAIN o |-> Entry(o[k], f[k]) ] :
                                           f \in [ DOMAIN o -> Kinds ] } : o \in Orders(tokens) } :
          a = [ code |-> "SUCCESS", present |-> TRUE, list |-> l ]
    BY <1>4, Zenon DEF DetailAnswers
  <2>2. CASE l = << >>
    BY <1>2, <2>1, <2>2, Zenon
  <2>3. CASE l # << >>
    <3>1. PICK o \in Orders(tokens) :
            l \in { [ k \in DOMAIN o |-> Entry(o[k], f[k]) ] : f \in [ DOMAIN o -> Kinds ] }
      BY <2>3, Zenon
    <3>2. PICK f \in [ DOMAIN o -> Kinds ] : l = [ k \in DOMAIN o |-> Entry(o[k], f[k]) ]
      BY <3>1, Zenon
    <3>3. a = [ code |-> "SUCCESS", present |-> TRUE,
                list |-> [ k \in DOMAIN o |-> Entry(o[k], f[k]) ] ]
      BY <2>1, <3>2, Zenon
    <3>4. /\ a.code = "SUCCESS" /\ a.present = TRUE
          /\ DOMAIN a.list = 1 .. Len(tokens)
          /\ \A k \in DOMAIN a.list : EntryOf(a.list[k])
      BY <1>3, <3>3, Zenon
    <3> QED
      BY <3>4, Zenon
  <2> QED
    BY <2>2, <2>3
<1> QED
  BY <1>1, <1>4

LEMMA FirstNatural ==
  ASSUME NEW S \in SUBSET Nat, S # { }
  PROVE  \E j \in S : \A n \in S : j <= n
<1>1. OpToRel(<, Nat) = { p \in Nat \X Nat : p[1] < p[2] }
  BY DEF OpToRel
<1>2. IsWellFoundedOn({ p \in Nat \X Nat : p[1] < p[2] }, Nat)
  BY <1>1, NatLessThanWellFounded, Zenon
<1>3. PICK x \in S : \A y \in S : ~(<< y, x >> \in { p \in Nat \X Nat : p[1] < p[2] })
  BY <1>2, WFMin
<1>4. ASSUME NEW y \in S PROVE x <= y
  <2>1. x \in Nat /\ y \in Nat
    OBVIOUS
  <2>2. << y, x >> \in Nat \X Nat /\ << y, x >>[1] = y /\ << y, x >>[2] = x
    BY <2>1
  <2>3. ~(y < x)
    BY <1>3, <2>2, Zenon
  <2> QED
    BY <2>1, <2>3
<1> QED
  BY <1>4

-----------------------------------------------------------------------------
(* What the SOAP calls of a choice come back with *)

LEMMA TokensOutcome ==
  ASSUME NEW a \in TokenAnswers
  PROVE  LET r == srmv2_getspacetokens(a)
         IN  \/ Failure(r)
             \/ r = Fail(errno) /\ a.code = Lost /\ a.list = << >>
             \/ r = Ok(0, NoToken) /\ a.list # << >>
<1>1. /\ a.code \in REFUSALS \cup { Lost, NoStatus, "SUCCESS" }
      /\ a.present \in BOOLEAN
      /\ ~a.present => a.list = << >>
      /\ a.present => a.code = "SUCCESS"
  BY TokenAnswerShape
<1>2. CASE a.code = Lost
  <2>1. srmv2_getspacetokens(a) = Fail(errno)
    BY <1>1, <1>2 DEF srmv2_getspacetokens, Lost
  <2>2. a.list = << >>
    BY <1>1, <1>2 DEF Lost
  <2> QED
    BY <1>2, <2>1, <2>2
<1>3. CASE a.code \notin { Lost, "SUCCESS" }
  <2>1. srmv2_getspacetokens(a) = Refused(a.code)
    BY <1>1, <1>3 DEF srmv2_getspacetokens
  <2>2. Failure(Refused(a.code))
    BY <1>1, <1>3, OwnFailure
  <2> QED
    BY <2>1, <2>2
<1>4. CASE a.code = "SUCCESS" /\ ~a.present
  <2>1. srmv2_getspacetokens(a) = Fail("ECOMM")
    BY <1>4 DEF srmv2_getspacetokens, Lost
  <2> QED
    BY <2>1, OwnFailure
<1>5. CASE a.code = "SUCCESS" /\ a.present
  <2>1. \/ srmv2_getspacetokens(a) = Fail("EINVAL")
        \/ srmv2_getspacetokens(a) = Ok(0, NoToken) /\ a.list # << >>
    BY <1>5 DEF srmv2_getspacetokens, Lost
  <2> QED
    BY <2>1, OwnFailure
<1> QED
  BY <1>1, <1>2, <1>3, <1>4, <1>5

LEMMA MdOutcome ==
  ASSUME TypeOK, NEW a \in DetailAnswers(tokens)
  PROVE  LET r == srmv2_getspacemd(a)
         IN  \/ Failure(r)
             \/ r = Ok(0, NoToken) /\ a.list # << >>
<1>1. /\ a.code \in REFUSALS \cup { Lost, NoStatus, "SUCCESS" }
      /\ a.present \in BOOLEAN
      /\ ~a.present => a.list = << >>
      /\ a.present => a.code = "SUCCESS"
      /\ a.list = << >> \/ DOMAIN a.list = 1 .. Len(tokens)
      /\ \A k \in DOMAIN a.list : EntryOf(a.list[k])
  BY DetailAnswerShape
<1>2. a.list = << >> => Broken(a.list) = { }
  BY DEF Broken
<1>3. CASE a.code # "SUCCESS"
  <2>1. srmv2_getspacemd(a) = Refused(a.code)
    BY <1>1, <1>2, <1>3 DEF srmv2_getspacemd
  <2>2. Failure(Refused(a.code))
    BY <1>1, <1>3, OwnFailure
  <2> QED
    BY <2>1, <2>2
<1>4. CASE a.code = "SUCCESS" /\ (~a.present \/ a.list = << >>)
  <2>1. srmv2_getspacemd(a) \in { Fail("ECOMM"), Fail("EINVAL") }
    BY <1>1, <1>2, <1>4 DEF srmv2_getspacemd
  <2> QED
    BY <2>1, OwnFailure
<1>5. CASE a.code = "SUCCESS" /\ a.present /\ a.list # << >> /\ Broken(a.list) # { }
  <2> DEFINE k == CHOOSE j \in Broken(a.list) : \A n \in Broken(a.list) : j <= n
  <2>1. Broken(a.list) \in SUBSET Nat
    <3>1. Len(tokens) \in Nat
      BY DEF TypeOK
    <3> QED
      BY <1>1, <1>5, <3>1 DEF Broken
  <2>2. k \in Broken(a.list)
    BY <1>5, <2>1, FirstNatural, Zenon
  <2>3. a.list[k].code \in REFUSALS
    BY <1>1, <2>2 DEF Broken, EntryOf
  <2>4. srmv2_getspacemd(a) = Fail(srm_call_err(a.list[k].code, "none"))
    BY <1>5 DEF srmv2_getspacemd
  <2> HIDE DEF k
  <2> QED
    BY <2>3, <2>4, OwnFailure
<1>6. CASE a.code = "SUCCESS" /\ a.present /\ a.list # << >> /\ Broken(a.list) = { }
  BY <1>6 DEF srmv2_getspacemd
<1> QED
  BY <1>1, <1>3, <1>4, <1>5, <1>6

\* A failure and a success, for what the invariant asks of them.
LEMMA ResultFields ==
  /\ \A r : Failure(r) => /\ r.ret = -1 /\ r.token = NoToken
                          /\ r.errno \in Errnos \ (PriorErrnos \cup { "ENOSPC" })
  /\ \A e : Fail(e).ret = -1 /\ Fail(e).token = NoToken /\ Fail(e).errno = e
  /\ \A n, t : Ok(n, t).ret = n /\ Ok(n, t).token = t /\ Ok(n, t).errno = "OK"
  /\ \A e : [ Ok(0, NoToken) EXCEPT !.errno = e ].ret = 0
            /\ [ Ok(0, NoToken) EXCEPT !.errno = e ].token = NoToken
            /\ [ Ok(0, NoToken) EXCEPT !.errno = e ].errno = e
<1>1. ASSUME NEW r, Failure(r)
      PROVE  /\ r.ret = -1 /\ r.token = NoToken
             /\ r.errno \in Errnos \ (PriorErrnos \cup { "ENOSPC" })
  BY <1>1 DEF Failure
<1>2. \A e : Fail(e).ret = -1 /\ Fail(e).token = NoToken /\ Fail(e).errno = e
  BY DEF Fail
<1>3. \A n, t : Ok(n, t).ret = n /\ Ok(n, t).token = t /\ Ok(n, t).errno = "OK"
  BY DEF Ok
<1>4. \A e : [ Ok(0, NoToken) EXCEPT !.errno = e ].ret = 0
             /\ [ Ok(0, NoToken) EXCEPT !.errno = e ].token = NoToken
             /\ [ Ok(0, NoToken) EXCEPT !.errno = e ].errno = e
  BY DEF Ok
<1> QED
  BY <1>1, <1>2, <1>3, <1>4, Zenon

-----------------------------------------------------------------------------
(* The actions keep the invariant *)

LEMMA Beginning ==
  /\ << >> \in Seq(Details) /\ << >> \in Seq(TOKENS)
  /\ Len(<< >>) = 0 /\ DOMAIN << >> = { }
  /\ Start.i = 1 /\ Start.numtoken = 0 /\ Start.unusedsize = -1
  /\ Start.i \in 1 .. Len(<< >>) + 1 /\ Start.numtoken \in 0 .. Len(<< >>)
  /\ Start.unusedsize \in -1 .. MAX_SIZE
<1>1. /\ << >> \in Seq(Details) /\ << >> \in Seq(TOKENS)
      /\ Len(<< >>) = 0 /\ DOMAIN << >> = { }
  OBVIOUS
<1>2. Start.i = 1 /\ Start.numtoken = 0 /\ Start.unusedsize = -1
  BY DEF Start
<1> QED
  BY <1>1, <1>2, Constants

\* A call that begins with o and goes to p, without having read a size.
LEMMA BeginKeeps ==
  ASSUME IInv, NEW o \in Ops, NEW n \in NEEDS \cup { 0 }, NEW t \in TOKENS \cup { NoToken },
         NEW s \in Seq(TOKENS), Begin(o, n, t, s), prior' \in PriorErrnos, lost' \in BOOLEAN,
         space' \in [ TOKENS -> { Gone } \cup 0 .. MAX_SIZE ],
         pc' \in { "idle", "tokens", "md" },
         result'.ret \in { -1, 0, 1 }, result'.token \in TOKENS \cup { NoToken },
         result'.errno \in Errnos,
         CallInv',
         o \in ChoosingOps => pc' = "tokens",
         FailureExplained', SuccessMeansDone'
  PROVE  IInv'
<1>1. /\ op' = o /\ needed' = n /\ target' = t /\ tokens' = s
      /\ md' = << >> /\ scan' = Start /\ touched' = FALSE
  BY DEF Begin
<1>2. TypeOK'
  BY <1>1, Beginning DEF TypeOK
<1>3. MdInv' /\ ScanInv' /\ ChosenInv' /\ NotChosenInv' /\ PutFits'
  BY <1>1, Beginning DEF MdInv, SizesKnown, ScanInv, ChosenInv, NotChosenInv, PutFits, ChoosingOps
<1> QED
  BY <1>2, <1>3 DEF IInv

LEMMA InitInv == Init => IInv
<1> SUFFICES ASSUME Init PROVE IInv
  OBVIOUS
<1>1. /\ pc = "idle" /\ op = "releasespace" /\ needed = 0 /\ target = NoToken
      /\ tokens = << >> /\ md = << >> /\ scan = Start
      /\ result = Ok(0, NoToken) /\ prior = "OK" /\ lost = FALSE /\ touched = FALSE
      /\ space \in [ TOKENS -> { Gone } \cup 0 .. MAX_SIZE ]
  BY DEF Init
<1>2. result.ret = 0 /\ result.token = NoToken /\ result.errno = "OK"
  BY <1>1, ResultFields
<1>3. "OK" \in Errnos /\ "OK" \in PriorErrnos
  BY DEF Errnos, PriorErrnos
<1>4. TypeOK
  BY <1>1, <1>2, <1>3, Beginning DEF TypeOK, Ops
<1>5. CallInv /\ MdInv /\ ScanInv /\ ChosenInv /\ NotChosenInv
  BY <1>1, <1>2 DEF CallInv, MdInv, SizesKnown, ScanInv, ChosenInv, NotChosenInv, ChoosingOps
<1>6. PutFits /\ FailureExplained /\ SuccessMeansDone
  BY <1>1, <1>2 DEF PutFits, FailureExplained, SuccessMeansDone
<1> QED
  BY <1>4, <1>5, <1>6 DEF IInv

LEMMA CallTokensKeeps == IInv /\ CallTokens => IInv'
<1> SUFFICES ASSUME IInv, CallTokens PROVE IInv'
  OBVIOUS
<1>1. PICK o \in ChoosingOps \cup { "getspacetokens" }, e \in PriorErrnos :
        /\ \E n \in IF o \in ChoosingOps THEN NEEDS ELSE { 0 } : Begin(o, n, NoToken, << >>)
        /\ pc' = "tokens"
        /\ result' = [ Ok(0, NoToken) EXCEPT !.errno = e ]
        /\ prior' = e
        /\ lost' = FALSE
        /\ UNCHANGED space
  BY DEF CallTokens
<1>2. PICK n \in NEEDS \cup { 0 } : Begin(o, n, NoToken, << >>)
  BY <1>1
<1>3. result'.ret = 0 /\ result'.token = NoToken /\ result'.errno = e
  BY <1>1, ResultFields
<1>4. e \in Errnos
  BY DEF Errnos, PriorErrnos
<1>5. CallInv'
  BY <1>1, <1>2, <1>3 DEF CallInv, Begin, errno
<1>6. FailureExplained' /\ SuccessMeansDone'
  BY <1>1 DEF FailureExplained, SuccessMeansDone
<1>7. o \in Ops
  BY DEF Ops
<1>8. space' \in [ TOKENS -> { Gone } \cup 0 .. MAX_SIZE ]
  BY <1>1 DEF IInv, TypeOK
<1> QED
  BY <1>1, <1>2, <1>3, <1>4, <1>5, <1>6, <1>7, <1>8, Beginning, BeginKeeps

LEMMA CallMdKeeps == IInv /\ CallMd => IInv'
<1> SUFFICES ASSUME IInv, CallMd PROVE IInv'
  OBVIOUS
<1>1. PICK s \in TokenLists, e \in PriorErrnos :
        /\ Begin("getspacemd", 0, NoToken, s)
        /\ IF s = << >> THEN Return(Fail("EINVAL"))
                        ELSE pc' = "md" /\ result' = [ Ok(0, NoToken) EXCEPT !.errno = e ]
        /\ prior' = e
        /\ lost' = FALSE
        /\ UNCHANGED space
  BY DEF CallMd
<1>2. \/ /\ pc' = "idle" /\ result'.ret = -1 /\ result'.token = NoToken
         /\ result'.errno = "EINVAL"
      \/ /\ pc' = "md" /\ result'.ret = 0 /\ result'.token = NoToken
         /\ result'.errno = e
  BY <1>1, ResultFields DEF Return
<1>3. e \in Errnos /\ "EINVAL" \in Errnos /\ "EINVAL" \notin PriorErrnos
  BY DEF Errnos, PriorErrnos
<1>4. CallInv'
  BY <1>1, <1>2 DEF CallInv, Begin
<1>5. FailureExplained' /\ SuccessMeansDone'
  BY <1>2, <1>3 DEF FailureExplained, SuccessMeansDone, errno
<1>6. "getspacemd" \in Ops /\ "getspacemd" \notin ChoosingOps /\ s \in Seq(TOKENS)
  BY ListsTyped DEF Ops, ChoosingOps
<1>7. space' \in [ TOKENS -> { Gone } \cup 0 .. MAX_SIZE ]
  BY <1>1 DEF IInv, TypeOK
<1> QED
  BY <1>1, <1>2, <1>3, <1>4, <1>5, <1>6, <1>7, BeginKeeps

\* The end of a choice, before or after the sizes were read.
LEMMA ChosenCases ==
  ASSUME NEW r, Chosen(r)
  PROVE  /\ result' = r
         /\ \/ pc' = "put" /\ op = "prepare_to_put" /\ r.token # NoToken
            \/ pc' = "idle"
BY DEF Chosen, Return

LEMMA GetSpaceTokensKeeps == IInv /\ GetSpaceTokens => IInv'
<1> SUFFICES ASSUME IInv, GetSpaceTokens PROVE IInv'
  OBVIOUS
<1>1. PICK a \in TokenAnswers :
        LET r == srmv2_getspacetokens(a)
        IN  /\ tokens' = a.list
            /\ lost' = (a.code = Lost)
            /\ CASE r.ret = -1 \/ op = "getspacetokens" -> Return(r)
                 [] r.ret = 0 /\ op \in ChoosingOps /\ OnlyToken(a.list) ->
                      Chosen(Ok(0, a.list[1]))
                 [] OTHER -> Continue("md")
  BY DEF GetSpaceTokens
<1> DEFINE r == srmv2_getspacetokens(a)
<1>2. /\ UNCHANGED << space, op, needed, target, md, scan, prior, touched >>
      /\ pc = "tokens" /\ md = << >> /\ scan = Start
      /\ op \in ChoosingOps \cup { "getspacetokens" } /\ "getspacetokens" \notin ChoosingOps
      /\ errno = prior
      /\ TypeOK
  BY DEF GetSpaceTokens, IInv, CallInv, ChoosingOps
<1>3. /\ a.list \in Seq(TOKENS)
      /\ lost' \in BOOLEAN
  BY <1>1, TokenAnswerShape
<1>4. \/ r.ret = -1 /\ r.token = NoToken /\ r.errno \in Errnos \ (PriorErrnos \cup { "ENOSPC" })
      \/ /\ r.ret = -1 /\ r.token = NoToken /\ r.errno = prior /\ a.code = Lost /\ a.list = << >>
      \/ r.ret = 0 /\ r.token = NoToken /\ r.errno = "OK" /\ a.list # << >>
  BY <1>2, TokensOutcome, ResultFields
<1> HIDE DEF r
\* What there is to show of a call that goes to another step.
<1>5. /\ op' = op /\ md' = << >> /\ scan' = Start /\ prior' = prior /\ tokens' = a.list
      /\ touched' = touched /\ needed' = needed /\ target' = target /\ space' = space
  BY <1>1, <1>2
<1>6. MdInv'
  BY <1>5, Beginning DEF MdInv
<1>7. prior \in PriorErrnos /\ prior \in Errnos /\ "OK" \in Errnos
  BY <1>2 DEF TypeOK, PriorErrnos, Errnos
<1>8. ASSUME pc' \in { "idle", "md", "put" }, result'.ret \in { -1, 0, 1 },
             result'.token \in TOKENS \cup { NoToken }, result'.errno \in Errnos,
             pc' = "put" => result'.token \in TOKENS
      PROVE  TypeOK'
  BY <1>2, <1>3, <1>5, <1>8, Beginning DEF TypeOK
<1>9. CASE r.ret = -1 \/ op = "getspacetokens"
  <2>1. Return(r)
    BY <1>1, <1>2, <1>9 DEF r
  <2>2. pc' = "idle" /\ result' = r
    BY <2>1 DEF Return
  <2>3. TypeOK'
    BY <1>4, <1>7, <1>8, <2>2
  <2>4. CallInv' /\ ScanInv' /\ ChosenInv' /\ NotChosenInv'
    BY <1>2, <1>4, <1>5, <1>9, <2>2, Beginning DEF CallInv, ScanInv, ChosenInv, NotChosenInv
  <2>5. PutFits'
    BY <1>2, <1>4, <1>5, <1>7, <2>2, Constants DEF PutFits, errno
  <2>6. FailureExplained'
    <3>1. a.code = Lost => lost'
      BY <1>1, Zenon
    <3> QED
      BY <1>2, <1>4, <1>5, <2>2, <3>1 DEF FailureExplained, errno
  <2>7. SuccessMeansDone'
    BY <1>2, <1>5 DEF SuccessMeansDone, ChoosingOps
  <2> QED
    BY <1>6, <2>3, <2>4, <2>5, <2>6, <2>7 DEF IInv
<1>10. CASE r.ret = 0 /\ op \in ChoosingOps /\ OnlyToken(a.list)
  <2>1. Chosen(Ok(0, a.list[1]))
    BY <1>1, <1>2, <1>10 DEF r
  <2>2. /\ result'.ret = 0 /\ result'.token = a.list[1] /\ result'.errno = "OK"
        /\ \/ pc' = "put" /\ op = "prepare_to_put"
           \/ pc' = "idle"
    BY <2>1, ChosenCases, ResultFields
  <2>3. a.list[1] \in TOKENS /\ Len(a.list) = 1
    BY <1>3, <1>10 DEF OnlyToken
  <2>4. TypeOK'
    BY <1>7, <1>8, <2>2, <2>3
  <2>5. CallInv' /\ ScanInv' /\ ChosenInv' /\ NotChosenInv'
    BY <1>2, <1>5, <1>10, <2>2, <2>3, Beginning
       DEF CallInv, ScanInv, ChosenInv, NotChosenInv
  <2>6. PutFits' /\ FailureExplained' /\ SuccessMeansDone'
    BY <1>2, <1>5, <1>10, <2>2 DEF PutFits, FailureExplained, SuccessMeansDone, errno, ChoosingOps
  <2> QED
    BY <1>6, <2>4, <2>5, <2>6 DEF IInv
<1>11. CASE ~(r.ret = -1 \/ op = "getspacetokens")
            /\ ~(r.ret = 0 /\ op \in ChoosingOps /\ OnlyToken(a.list))
  <2>1. Continue("md")
    BY <1>1, <1>11 DEF r
  <2>2. pc' = "md" /\ result' = result
    BY <2>1 DEF Continue
  <2>3. TypeOK'
    BY <1>2, <1>8, <2>2 DEF TypeOK
  <2>4. CallInv' /\ ScanInv' /\ ChosenInv' /\ NotChosenInv'
    BY <1>2, <1>5, <1>11, <2>2 DEF CallInv, ScanInv, ChosenInv, NotChosenInv
  <2>5. PutFits' /\ FailureExplained' /\ SuccessMeansDone'
    BY <2>2 DEF PutFits, FailureExplained, SuccessMeansDone
  <2> QED
    BY <1>6, <2>3, <2>4, <2>5 DEF IInv
<1> QED
  BY <1>9, <1>10, <1>11

LEMMA GetSpaceMdKeeps == IInv /\ GetSpaceMd => IInv'
<1> SUFFICES ASSUME IInv, GetSpaceMd PROVE IInv'
  OBVIOUS
<1>1. PICK a \in DetailAnswers(tokens) :
        LET r == srmv2_getspacemd(a)
        IN  /\ lost' = (a.code = Lost)
            /\ IF r.ret = 0 THEN md' = [ k \in DOMAIN a.list |-> Detail(a.list[k]) ]
                            ELSE UNCHANGED md
            /\ IF r.ret = 0 /\ op \in ChoosingOps THEN Continue("pick") ELSE Return(r)
  BY DEF GetSpaceMd
<1> DEFINE r == srmv2_getspacemd(a)
<1>2. /\ UNCHANGED << space, op, needed, target, tokens, scan, prior >>
      /\ touched' = FALSE
      /\ pc = "md" /\ md = << >> /\ scan = Start
      /\ op \in ChoosingOps \cup { "getspacetokens", "getspacemd" }
      /\ TypeOK
  BY DEF GetSpaceMd, IInv, CallInv
<1>3. /\ op' = op /\ scan' = Start /\ tokens' = tokens /\ prior' = prior
      /\ needed' = needed /\ target' = target /\ space' = space
  BY <1>2
<1>4. /\ a.list = << >> \/ DOMAIN a.list = 1 .. Len(tokens)
      /\ \A k \in DOMAIN a.list : EntryOf(a.list[k])
  BY <1>2, DetailAnswerShape
<1>5. \/ r.ret = -1 /\ r.token = NoToken /\ r.errno \in Errnos \ (PriorErrnos \cup { "ENOSPC" })
      \/ r.ret = 0 /\ r.token = NoToken /\ r.errno = "OK" /\ a.list # << >>
  BY <1>2, MdOutcome, ResultFields
<1> HIDE DEF r
<1>6. lost' \in BOOLEAN
  BY <1>1
<1>7. "OK" \in Errnos /\ Len(tokens) \in Nat
  BY <1>2 DEF TypeOK, Errnos
\* The array that was filled in, or is still empty.
<1>8. /\ md' \in Seq(Details)
      /\ md' # << >> => Len(md') = Len(tokens)
      /\ \A k \in DOMAIN md' :
           md'[k].unused > 0 => md'[k].token \in TOKENS /\ space[md'[k].token] = md'[k].unused
      /\ r.ret # 0 => md' = << >>
  <2>1. CASE r.ret = 0
    <3>1. md' = [ k \in DOMAIN a.list |-> Detail(a.list[k]) ]
      BY <1>1, <2>1 DEF r
    <3>2. DOMAIN a.list = 1 .. Len(tokens)
      BY <1>4, <1>5, <2>1
    <3>3. \A k \in 1 .. Len(tokens) :
            /\ Detail(a.list[k]) \in Details
            /\ Detail(a.list[k]).token = a.list[k].token
            /\ Detail(a.list[k]).unused = a.list[k].unused
            /\ EntryOf(a.list[k])
      BY <1>4, <3>2 DEF Detail, Details, EntryOf
    <3>4. md' \in Seq(Details) /\ Len(md') = Len(tokens)
      BY <1>7, <3>1, <3>2, <3>3
    <3>5. \A k \in DOMAIN md' : k \in 1 .. Len(tokens) /\ md'[k] = Detail(a.list[k])
      BY <3>1, <3>2
    <3> QED
      BY <2>1, <3>3, <3>4, <3>5 DEF EntryOf
  <2>2. CASE r.ret # 0
    <3>1. md' = << >>
      BY <1>1, <1>2, <2>2 DEF r
    <3> QED
      BY <2>2, <3>1, Beginning
  <2> QED
    BY <2>1, <2>2
<1>9. MdInv'
  BY <1>3, <1>8 DEF MdInv
<1>10. ASSUME pc' \in { "idle", "pick" }, result'.ret \in { -1, 0, 1 },
              result'.token \in TOKENS \cup { NoToken }, result'.errno \in Errnos
       PROVE  TypeOK'
  <2>1. Len(md') \in Nat
    BY <1>8
  <2>2. scan'.i \in 1 .. Len(md') + 1 /\ scan'.numtoken \in 0 .. Len(md')
        /\ scan'.unusedsize \in -1 .. MAX_SIZE
    BY <1>3, <2>1, Beginning
  <2> QED
    BY <1>2, <1>3, <1>6, <1>8, <1>10, <2>2 DEF TypeOK
<1>11. CASE r.ret = 0 /\ op \in ChoosingOps
  <2>1. pc' = "pick" /\ result' = result
    BY <1>1, <1>11 DEF r, Continue
  <2>2. TypeOK'
    BY <1>2, <1>10, <2>1 DEF TypeOK
  <2>3. CallInv' /\ ChosenInv' /\ NotChosenInv'
    BY <1>3, <1>11, <2>1 DEF CallInv, ChosenInv, NotChosenInv, ChoosingOps
  <2>4. ScanInv'
    <3>1. scan'.numtoken = 0 /\ scan'.i = 1
      BY <1>3, Beginning
    <3>2. \A j \in DOMAIN md' : j \in 1 .. Len(md')
      BY <1>8
    <3> QED
      BY <1>8, <3>1, <3>2 DEF ScanInv
  <2>5. PutFits' /\ FailureExplained' /\ SuccessMeansDone'
    BY <2>1 DEF PutFits, FailureExplained, SuccessMeansDone
  <2> QED
    BY <1>9, <2>2, <2>3, <2>4, <2>5 DEF IInv
<1>12. CASE ~(r.ret = 0 /\ op \in ChoosingOps)
  <2>1. pc' = "idle" /\ result' = r
    BY <1>1, <1>12 DEF r, Return
  <2>2. TypeOK'
    BY <1>5, <1>7, <1>10, <2>1
  <2>3. CallInv' /\ ScanInv' /\ ChosenInv'
    BY <1>3, <1>5, <1>12, <2>1 DEF CallInv, ScanInv, ChosenInv
  <2>4. NotChosenInv'
    BY <1>3, <1>8, <1>12, <2>1, Beginning DEF NotChosenInv
  <2>5. PutFits' /\ FailureExplained'
    BY <1>5, <2>1, Constants DEF PutFits, FailureExplained, errno
  <2>6. SuccessMeansDone'
    BY <1>2, <1>3 DEF SuccessMeansDone, ChoosingOps
  <2> QED
    BY <1>9, <2>2, <2>3, <2>4, <2>5, <2>6 DEF IInv
<1> QED
  BY <1>11, <1>12

LEMMA SizesTyped ==
  ASSUME TypeOK
  PROVE  /\ md \in Seq(Details) /\ Len(md) \in Nat /\ DOMAIN md = 1 .. Len(md)
         /\ \A k \in 1 .. Len(md) : md[k].unused \in 0 .. MAX_SIZE
<1>1. md \in Seq(Details)
  BY DEF TypeOK
<1>2. /\ Len(md) \in Nat /\ DOMAIN md = 1 .. Len(md)
      /\ \A k \in 1 .. Len(md) : md[k] \in Details
  BY <1>1
<1> QED
  BY <1>1, <1>2 DEF Details

LEMMA ScanKeeps == IInv /\ Scan => IInv'
<1> SUFFICES ASSUME IInv, Scan PROVE IInv'
  OBVIOUS
<1> DEFINE d == md[scan.i]
           better == Fits(d) /\ (scan.numtoken = 0 \/ d.unused < scan.unusedsize)
<1>1. /\ pc = "pick" /\ scan.i <= Len(md)
      /\ scan' = [ i          |-> scan.i + 1,
                   numtoken   |-> IF better THEN scan.i ELSE scan.numtoken,
                   unusedsize |-> IF better THEN d.unused ELSE scan.unusedsize ]
      /\ UNCHANGED << space, pc, op, needed, target, tokens, md, result, history >>
  BY DEF Scan
<1>2. /\ UNCHANGED << space, pc, op, needed, target, tokens, md, result, prior, lost, touched >>
      /\ TypeOK
  BY <1>1 DEF history, IInv
<1>3. /\ scan'.i = scan.i + 1
      /\ better => scan'.numtoken = scan.i /\ scan'.unusedsize = d.unused
      /\ ~better => scan'.numtoken = scan.numtoken /\ scan'.unusedsize = scan.unusedsize
  BY <1>1
<1>4. /\ md \in Seq(Details) /\ Len(md) \in Nat /\ DOMAIN md = 1 .. Len(md)
      /\ scan.i \in 1 .. Len(md) /\ scan.numtoken \in 0 .. Len(md)
      /\ scan.unusedsize \in -1 .. MAX_SIZE
      /\ \A k \in 1 .. Len(md) : md[k].unused \in 0 .. MAX_SIZE
  BY <1>1, <1>2, SizesTyped DEF TypeOK
<1>5. d.unused \in 0 .. MAX_SIZE
  BY <1>4
<1> HIDE DEF better
<1>6. TypeOK'
  <2>1. scan'.i \in 1 .. Len(md) + 1 /\ scan'.numtoken \in 0 .. Len(md)
        /\ scan'.unusedsize \in -1 .. MAX_SIZE
    BY <1>3, <1>4, <1>5, Constants
  <2> QED
    BY <1>2, <2>1 DEF TypeOK
<1>7. CallInv' /\ MdInv' /\ ChosenInv' /\ NotChosenInv'
  BY <1>1, <1>2 DEF IInv, CallInv, MdInv, SizesKnown, ChosenInv, NotChosenInv
<1>8. PutFits' /\ FailureExplained' /\ SuccessMeansDone'
  BY <1>1, <1>2 DEF PutFits, FailureExplained, SuccessMeansDone
<1>9. ScanInv'
  <2>1. \A j \in DOMAIN md : j < scan'.i => j < scan.i \/ j = scan.i
    BY <1>3, <1>4
  <2>2. \A k, n : Least(k, n)' <=> Least(k, n)
    BY <1>2 DEF Least, Fits
  <2>3. \/ /\ scan.numtoken = 0
           /\ \A j \in DOMAIN md : j < scan.i => ~Fits(md[j])
        \/ /\ scan.numtoken # 0
           /\ Least(scan.numtoken, scan.i)
           /\ scan.unusedsize = md[scan.numtoken].unused
    BY <1>1 DEF IInv, ScanInv
  <2>4. CASE better
    <3>1. Fits(d) /\ (scan.numtoken = 0 \/ d.unused < scan.unusedsize)
      BY <2>4 DEF better
    <3>2. \A j \in DOMAIN md : j < scan'.i /\ Fits(md[j]) => d.unused <= md[j].unused
      BY <1>4, <2>1, <2>3, <3>1 DEF Least
    <3>3. Least(scan'.numtoken, scan'.i) /\ scan'.numtoken # 0
          /\ scan'.unusedsize = md[scan'.numtoken].unused
      BY <1>3, <1>4, <2>4, <3>1, <3>2 DEF Least
    <3> QED
      BY <1>2, <2>2, <3>3 DEF ScanInv
  <2>5. CASE ~better /\ scan.numtoken = 0
    <3>1. ~Fits(d)
      BY <2>5 DEF better
    <3>2. \A e : Fits(e)' <=> Fits(e)
      BY <1>2 DEF Fits
    <3> QED
      BY <1>2, <1>3, <2>1, <2>3, <2>5, <3>1, <3>2 DEF ScanInv
  <2>6. CASE ~better /\ scan.numtoken # 0
    <3>1. Fits(d) => ~(d.unused < scan.unusedsize)
      BY <2>6 DEF better
    <3>2. Least(scan.numtoken, scan.i) /\ scan.unusedsize = md[scan.numtoken].unused
      BY <2>3, <2>6
    <3>3. \A j \in DOMAIN md : j < scan'.i /\ Fits(md[j])
                                 => md[scan.numtoken].unused <= md[j].unused
      BY <1>4, <1>5, <2>1, <3>1, <3>2 DEF Least
    <3>4. Least(scan'.numtoken, scan'.i) /\ scan'.numtoken # 0
          /\ scan'.unusedsize = md[scan'.numtoken].unused
      BY <1>3, <2>6, <3>2, <3>3 DEF Least
    <3> QED
      BY <1>2, <2>2, <3>4 DEF ScanInv
  <2> QED
    BY <2>4, <2>5, <2>6
<1> QED
  BY <1>6, <1>7, <1>8, <1>9 DEF IInv

LEMMA PickKeeps == IInv /\ Pick => IInv'
<1> SUFFICES ASSUME IInv, Pick PROVE IInv'
  OBVIOUS
<1> DEFINE k == scan.numtoken
           r == IF k = 0 THEN Fail("EINVAL") ELSE Ok(0, md[k].token)
<1>1. /\ pc = "pick" /\ scan.i > Len(md) /\ Chosen(r)
      /\ UNCHANGED << space, op, needed, target, tokens, md, scan, prior, lost, touched >>
  BY DEF Pick, history
<1>2. TypeOK /\ op \in ChoosingOps
  BY <1>1 DEF IInv, CallInv
<1>3. /\ md \in Seq(Details) /\ Len(md) \in Nat /\ DOMAIN md = 1 .. Len(md)
      /\ \A j \in DOMAIN md : j < scan.i /\ j < Len(md) + 1
      /\ \A j \in DOMAIN md : md[j].unused \in 0 .. MAX_SIZE
      /\ needed \in Nat
  <2>1. needed \in Nat /\ scan.i \in Int
    BY <1>2, Constants DEF TypeOK
  <2>2. /\ md \in Seq(Details) /\ Len(md) \in Nat /\ DOMAIN md = 1 .. Len(md)
        /\ \A j \in 1 .. Len(md) : md[j].unused \in 0 .. MAX_SIZE
    BY <1>2, SizesTyped
  <2>3. \A j \in 1 .. Len(md) : j < scan.i /\ j < Len(md) + 1
    BY <1>1, <2>1, <2>2
  <2> QED
    BY <2>1, <2>2, <2>3
<1>4. result' = r /\ (\/ pc' = "put" /\ op = "prepare_to_put" /\ r.token # NoToken
                      \/ pc' = "idle")
  BY <1>1, ChosenCases
<1>5. \A e : Fits(e)' <=> Fits(e)
  BY <1>1 DEF Fits
\* No entry fits, or the least of those that fit was found.
<1>6. \/ /\ k = 0 /\ r.ret = -1 /\ r.token = NoToken /\ r.errno = "EINVAL"
         /\ \A j \in DOMAIN md : ~Fits(md[j])
      \/ /\ k \in DOMAIN md /\ r.ret = 0 /\ r.token = md[k].token /\ r.errno = "OK"
         /\ Least(k, Len(md) + 1)
         /\ r.token \in TOKENS
  <2>1. CASE k = 0
    <3>1. \A j \in DOMAIN md : ~Fits(md[j])
      BY <1>1, <1>3, <2>1 DEF IInv, ScanInv, Least
    <3> QED
      BY <2>1, <3>1, ResultFields
  <2>2. CASE k # 0
    <3>1. Least(k, scan.i)
      BY <1>1, <2>2 DEF IInv, ScanInv
    <3>2. Least(k, Len(md) + 1)
      BY <1>3, <3>1 DEF Least
    <3>3. k \in DOMAIN md /\ md[k].unused > 0
      BY <1>3, <3>1, Constants DEF Least, Fits
    <3>4. md[k].token \in TOKENS
      BY <1>1, <1>2, <3>3 DEF IInv, MdInv, SizesKnown
    <3>5. r = Ok(0, md[k].token)
      BY <2>2
    <3>6. r.ret = 0 /\ r.token = md[k].token /\ r.errno = "OK"
      BY <3>5, ResultFields
    <3> QED
      BY <3>2, <3>3, <3>4, <3>6
  <2> QED
    BY <2>1, <2>2
<1> HIDE DEF k, r
<1>7. "OK" \in Errnos /\ "EINVAL" \in Errnos /\ "EINVAL" \notin PriorErrnos
  BY DEF Errnos, PriorErrnos
<1>8. TypeOK'
  BY <1>1, <1>2, <1>4, <1>6, <1>7 DEF TypeOK
<1>9. CallInv' /\ ScanInv'
  BY <1>1, <1>2, <1>4, <1>6, Constants DEF CallInv, ScanInv
<1>10. MdInv'
  BY <1>1, <1>2 DEF IInv, MdInv, SizesKnown
<1>11. ChosenInv'
  <2>1. \A j : Least(j, Len(md) + 1)' <=> Least(j, Len(md) + 1)
    BY <1>1, <1>5 DEF Least
  <2> QED
    BY <1>1, <1>4, <1>6, <2>1 DEF ChosenInv
<1>12. NotChosenInv'
  BY <1>1, <1>4, <1>5, <1>6, Constants DEF NotChosenInv
<1>13. PutFits' /\ FailureExplained' /\ SuccessMeansDone'
  BY <1>1, <1>2, <1>4, <1>6, <1>7
     DEF PutFits, FailureExplained, SuccessMeansDone, errno, ChoosingOps
<1> QED
  BY <1>8, <1>9, <1>10, <1>11, <1>12, <1>13 DEF IInv

LEMMA PutKeeps == IInv /\ Put => IInv'
<1> SUFFICES ASSUME IInv, Put PROVE IInv'
  OBVIOUS
<1> DEFINE t == result.token
<1>1. /\ pc = "put" /\ op = "prepare_to_put" /\ op \in ChoosingOps
      /\ UNCHANGED << op, needed, target, tokens, md, scan, prior, lost, touched >>
      /\ TypeOK /\ t \in TOKENS /\ result.ret = 0
  BY DEF Put, history, IInv, CallInv, TypeOK, ChoosingOps
<1>2. /\ space \in [ TOKENS -> { Gone } \cup 0 .. MAX_SIZE ]
      /\ needed \in Nat
  BY <1>1, Constants DEF TypeOK
\* The three things that can become of the request.
<1>3. /\ pc' = "idle" /\ result'.ret \in { -1, 1 } /\ result'.token = t
      /\ result'.errno \in Errnos
      /\ result'.ret = -1 => result'.errno \notin PriorErrnos
      /\ result'.errno = "ENOSPC" => space[t] < needed
      /\ space' \in [ TOKENS -> { Gone } \cup 0 .. MAX_SIZE ]
  <2>1. \A e : /\ [ Fail(e) EXCEPT !.token = t ].ret = -1
               /\ [ Fail(e) EXCEPT !.token = t ].token = t
               /\ [ Fail(e) EXCEPT !.token = t ].errno = e
    BY DEF Fail
  <2>2. /\ "OK" \in Errnos /\ "ENOSPC" \in Errnos /\ "ENOSPC" \notin PriorErrnos
        /\ "ECOMM" \in Errnos /\ "ECOMM" \notin PriorErrnos
    BY DEF Errnos, PriorErrnos
  <2>3. CASE /\ space[t] >= needed
             /\ space' = [ space EXCEPT ![t] = @ - needed ]
             /\ \E r \in { Ok(1, t), [ Fail("ECOMM") EXCEPT !.token = t ] } : Return(r)
    <3>1. space[t] - needed \in 0 .. MAX_SIZE
      BY <1>1, <1>2, <2>3, Constants DEF Gone
    <3>2. space' \in [ TOKENS -> { Gone } \cup 0 .. MAX_SIZE ]
      BY <1>2, <2>3, <3>1
    <3>3. pc' = "idle" /\ result' \in { Ok(1, t), [ Fail("ECOMM") EXCEPT !.token = t ] }
      BY <2>3 DEF Return
    <3>4. \/ result'.ret = 1 /\ result'.token = t /\ result'.errno = "OK"
          \/ result'.ret = -1 /\ result'.token = t /\ result'.errno = "ECOMM"
      <4>1. CASE result' = Ok(1, t)
        BY <4>1 DEF Ok
      <4>2. CASE result' = [ Fail("ECOMM") EXCEPT !.token = t ]
        BY <4>2 DEF Fail
      <4> QED
        BY <3>3, <4>1, <4>2
    <3> QED
      BY <2>2, <3>2, <3>3, <3>4
  <2>4. CASE /\ space[t] < needed
             /\ Return([ Fail("ENOSPC") EXCEPT !.token = t ])
             /\ UNCHANGED space
    BY <1>2, <2>1, <2>2, <2>4 DEF Return
  <2>5. CASE /\ \E c \in REFUSALS \cup { Lost } : Return([ Refused(c) EXCEPT !.token = t ])
             /\ UNCHANGED space
    <3>1. PICK c \in REFUSALS \cup { Lost } : Return([ Refused(c) EXCEPT !.token = t ])
      BY <2>5
    <3>2. PICK e : Refused(c) = Fail(e)
      BY DEF Refused
    <3>3. e \in Errnos \ (PriorErrnos \cup { "ENOSPC" })
      BY <3>2, OwnFailure, ResultFields
    <3>4. pc' = "idle" /\ result' = [ Fail(e) EXCEPT !.token = t ]
      BY <3>1, <3>2 DEF Return
    <3> QED
      BY <1>2, <2>1, <2>5, <3>3, <3>4
  <2> QED
    BY <2>3, <2>4, <2>5 DEF Put
<1> HIDE DEF t
<1>4. TypeOK'
  BY <1>1, <1>3 DEF TypeOK
<1>5. CallInv' /\ MdInv' /\ ScanInv' /\ ChosenInv' /\ NotChosenInv'
  BY <1>1, <1>3 DEF CallInv, MdInv, SizesKnown, ScanInv, ChosenInv, NotChosenInv
<1>6. PutFits'
  <2>1. ASSUME space[t] < needed, ~touched, Len(tokens) # 1 PROVE FALSE
    <3>1. t # NoToken
      BY <1>1
    <3>2. PICK k \in DOMAIN md : t = md[k].token /\ Least(k, Len(md) + 1)
      BY <1>1, <2>1, <3>1 DEF IInv, ChosenInv, t
    <3>3. md[k].unused >= needed + MARGIN /\ md[k].unused \in 0 .. MAX_SIZE
      BY <1>1, <3>2, SizesTyped DEF Least, Fits
    <3>4. md[k].unused > 0
      BY <1>2, <3>3, Constants
    <3>5. space[t] = md[k].unused
      BY <1>1, <2>1, <3>2, <3>4 DEF IInv, MdInv, SizesKnown
    <3> QED
      BY <1>2, <2>1, <3>3, <3>5, Constants
  <2> QED
    BY <1>1, <1>3, <2>1 DEF PutFits, errno
<1>7. FailureExplained' /\ SuccessMeansDone'
  BY <1>1, <1>3 DEF FailureExplained, SuccessMeansDone, errno
<1> QED
  BY <1>4, <1>5, <1>6, <1>7 DEF IInv

LEMMA ElsewhereKeeps == IInv /\ Elsewhere => IInv'
<1> SUFFICES ASSUME IInv, Elsewhere PROVE IInv'
  OBVIOUS
<1>1. /\ pc # "idle"
      /\ touched' = TRUE
      /\ UNCHANGED << pc, op, needed, target, tokens, md, scan, result, prior, lost >>
      /\ TypeOK
  BY DEF Elsewhere, client, IInv
<1>2. space' \in [ TOKENS -> { Gone } \cup 0 .. MAX_SIZE ]
  BY <1>1 DEF Elsewhere, TypeOK
<1>3. TypeOK'
  BY <1>1, <1>2 DEF TypeOK
<1>4. CallInv'
  BY <1>1 DEF IInv, CallInv, errno
<1>5. MdInv'
  BY <1>1 DEF IInv, MdInv, SizesKnown
<1>6. ScanInv' /\ ChosenInv' /\ NotChosenInv'
  <2>1. \A k, n : Least(k, n)' <=> Least(k, n)
    BY <1>1 DEF Least, Fits
  <2>2. \A e : Fits(e)' <=> Fits(e)
    BY <1>1 DEF Fits
  <2> QED
    BY <1>1, <2>1, <2>2 DEF IInv, ScanInv, ChosenInv, NotChosenInv
<1>7. PutFits' /\ FailureExplained' /\ SuccessMeansDone'
  BY <1>1 DEF PutFits, FailureExplained, SuccessMeansDone
<1> QED
  BY <1>3, <1>4, <1>5, <1>6, <1>7 DEF IInv

\* An operation of one SOAP call, with a result that says what became of it.
LEMMA WholeKeeps ==
  ASSUME IInv, NEW o \in Ops \ (ChoosingOps \cup { "getspacetokens", "getspacemd" }),
         NEW t \in TOKENS \cup { NoToken }, NEW r, NEW e \in PriorErrnos,
         NEW w \in [ TOKENS -> { Gone } \cup 0 .. MAX_SIZE ],
         Whole(o, t, r, w, e), lost' \in BOOLEAN,
         \/ Failure(r)
         \/ /\ r.ret \in { 0, 1 } /\ r.token \in TOKENS \cup { NoToken } /\ r.errno = "OK"
            /\ o = "reservespace" => r.token \in TOKENS /\ w[r.token] # Gone
            /\ o = "purgefromspace" => w[t] = MAX_SIZE
  PROVE  IInv'
<1>1. /\ Begin(o, 0, t, << >>) /\ pc' = "idle" /\ result' = r /\ space' = w /\ prior' = e
      /\ op' = o /\ target' = t
  BY DEF Whole, Return, Begin
<1>2. /\ result'.ret \in { -1, 0, 1 } /\ result'.token \in TOKENS \cup { NoToken }
      /\ result'.errno \in Errnos
      /\ result'.ret = -1 => result'.errno \notin PriorErrnos
      /\ result'.ret >= 0 =>
           /\ o = "reservespace" => result'.token \in TOKENS /\ space'[result'.token] # Gone
           /\ o = "purgefromspace" => space'[t] = MAX_SIZE
  <2>1. "OK" \in Errnos
    BY DEF Errnos
  <2> QED
    BY <1>1, <2>1, ResultFields
<1>3. CallInv'
  BY <1>1 DEF CallInv
<1>4. FailureExplained' /\ SuccessMeansDone'
  BY <1>1, <1>2 DEF FailureExplained, SuccessMeansDone, errno, Live
<1> QED
  BY <1>1, <1>2, <1>3, <1>4, Beginning, BeginKeeps

LEMMA ReserveSpaceKeeps == IInv /\ ReserveSpace => IInv'
<1> SUFFICES ASSUME IInv, ReserveSpace PROVE IInv'
  OBVIOUS
<1> DEFINE o == "reservespace"
<1>1. o \in Ops \ (ChoosingOps \cup { "getspacetokens", "getspacemd" }) /\ o # "purgefromspace"
  BY DEF Ops, ChoosingOps
<1>2. space \in [ TOKENS -> { Gone } \cup 0 .. MAX_SIZE ]
  BY DEF IInv, TypeOK
<1>3. PICK e \in PriorErrnos :
        \/ /\ Whole(o, NoToken, Fail("EINVAL"), space, e)
           /\ lost' = FALSE
        \/ /\ Whole(o, NoToken, Fail("ECOMM"), space, e)
           /\ lost' \in BOOLEAN
        \/ \E t \in TOKENS \ Live, n \in 0 .. MAX_SIZE :
             /\ lost' \in BOOLEAN
             /\ Whole(o, NoToken, IF lost' THEN Fail("ECOMM") ELSE Ok(0, t),
                      [ space EXCEPT ![t] = n ], e)
  BY DEF ReserveSpace
<1>4. CASE \/ Whole(o, NoToken, Fail("EINVAL"), space, e) /\ lost' \in BOOLEAN
           \/ Whole(o, NoToken, Fail("ECOMM"), space, e) /\ lost' \in BOOLEAN
  <2> HIDE DEF o
  <2> QED
    BY <1>1, <1>2, <1>4, OwnFailure, WholeKeeps
<1>5. ASSUME NEW t \in TOKENS, NEW n \in 0 .. MAX_SIZE, lost' \in BOOLEAN,
             Whole(o, NoToken, IF lost' THEN Fail("ECOMM") ELSE Ok(0, t),
                   [ space EXCEPT ![t] = n ], e)
      PROVE  IInv'
  <2> DEFINE r == IF lost' THEN Fail("ECOMM") ELSE Ok(0, t)
             w == [ space EXCEPT ![t] = n ]
  <2>1. w \in [ TOKENS -> { Gone } \cup 0 .. MAX_SIZE ] /\ w[t] # Gone
    BY <1>2 DEF Gone
  <2>2. \/ Failure(r)
        \/ r.ret = 0 /\ r.token = t /\ r.errno = "OK"
    BY OwnFailure, ResultFields
  <2>3. Whole(o, NoToken, r, w, e)
    BY <1>5
  <2> HIDE DEF o, r, w
  <2> QED
    BY <1>1, <1>5, <2>1, <2>2, <2>3, WholeKeeps
<1> QED
  BY <1>3, <1>4, <1>5

LEMMA ReleaseSpaceKeeps == IInv /\ ReleaseSpace => IInv'
<1> SUFFICES ASSUME IInv, ReleaseSpace PROVE IInv'
  OBVIOUS
<1> DEFINE o == "releasespace"
<1>1. /\ o \in Ops \ (ChoosingOps \cup { "getspacetokens", "getspacemd" })
      /\ o # "purgefromspace" /\ o # "reservespace"
  BY DEF Ops, ChoosingOps
<1>2. space \in [ TOKENS -> { Gone } \cup 0 .. MAX_SIZE ]
  BY DEF IInv, TypeOK
<1>3. PICK e \in PriorErrnos :
        \/ /\ Whole(o, NoToken, Fail("EINVAL"), space, e)
           /\ lost' = FALSE
        \/ \E t \in TOKENS : \E w \in { space, [ space EXCEPT ![t] = Gone ] } :
             /\ lost' \in BOOLEAN
             /\ Whole(o, t, IF lost' THEN Fail("ECOMM") ELSE Ok(0, NoToken), w, e)
  BY DEF ReleaseSpace
<1>4. CASE Whole(o, NoToken, Fail("EINVAL"), space, e) /\ lost' = FALSE
  <2> HIDE DEF o
  <2> QED
    BY <1>1, <1>2, <1>4, OwnFailure, WholeKeeps
<1>5. ASSUME NEW t \in TOKENS, NEW w \in { space, [ space EXCEPT ![t] = Gone ] },
             lost' \in BOOLEAN,
             Whole(o, t, IF lost' THEN Fail("ECOMM") ELSE Ok(0, NoToken), w, e)
      PROVE  IInv'
  <2> DEFINE r == IF lost' THEN Fail("ECOMM") ELSE Ok(0, NoToken)
  <2>1. w \in [ TOKENS -> { Gone } \cup 0 .. MAX_SIZE ]
    BY <1>2
  <2>2. \/ Failure(r)
        \/ r.ret = 0 /\ r.token = NoToken /\ r.errno = "OK"
    BY OwnFailure, ResultFields
  <2>3. Whole(o, t, r, w, e)
    BY <1>5
  <2> HIDE DEF o, r
  <2> QED
    BY <1>1, <1>5, <2>1, <2>2, <2>3, WholeKeeps
<1> QED
  BY <1>3, <1>4, <1>5

\* A purge succeeds only if its request did.
LEMMA PurgeOutcome ==
  ASSUME NEW c \in REFUSALS \cup { "SUCCESS", Lost, NoStatus }, NEW list \in BOOLEAN
  PROVE  LET r == srmv2_purgefromspace(c, list)
         IN  \/ Failure(r)
             \/ r = Ok(1, NoToken) /\ c = "SUCCESS"
<1>1. CASE c \in { Lost, NoStatus }
  <2>1. srmv2_purgefromspace(c, list) = Fail("ECOMM")
    BY <1>1 DEF srmv2_purgefromspace
  <2> QED
    BY <2>1, OwnFailure
<1>2. CASE c \notin { Lost, NoStatus } /\ (c # "SUCCESS" \/ ~list)
  <2>1. srmv2_purgefromspace(c, list) = Fail(srm_call_err(c, "none"))
    BY <1>2 DEF srmv2_purgefromspace
  <2>2. c = "SUCCESS" => srm_call_err(c, "none") = "ECOMM"
    BY DEF srm_call_err
  <2> QED
    BY <1>2, <2>1, <2>2, OwnFailure
<1>3. CASE c = "SUCCESS" /\ list
  BY <1>3 DEF srmv2_purgefromspace, Lost, NoStatus
<1> QED
  BY <1>1, <1>2, <1>3

LEMMA PurgeFromSpaceKeeps == IInv /\ PurgeFromSpace => IInv'
<1> SUFFICES ASSUME IInv, PurgeFromSpace PROVE IInv'
  OBVIOUS
<1> DEFINE o == "purgefromspace"
<1>1. /\ o \in Ops \ (ChoosingOps \cup { "getspacetokens", "getspacemd" })
      /\ o # "reservespace"
  BY DEF Ops, ChoosingOps
<1>2. space \in [ TOKENS -> { Gone } \cup 0 .. MAX_SIZE ]
  BY DEF IInv, TypeOK
<1>3. PICK e \in PriorErrnos :
        \/ /\ Whole(o, NoToken, Fail("EINVAL"), space, e)
           /\ lost' = FALSE
        \/ \E t \in TOKENS, c \in REFUSALS \cup { Lost, NoStatus }, list \in BOOLEAN :
             /\ Whole(o, t, srmv2_purgefromspace(c, list), space, e)
             /\ lost' = (c = Lost)
        \/ \E t \in Live, c \in { "SUCCESS", Lost, NoStatus }, list \in BOOLEAN :
             /\ Whole(o, t, srmv2_purgefromspace(c, list), [ space EXCEPT ![t] = MAX_SIZE ], e)
             /\ lost' = (c = Lost)
  BY DEF PurgeFromSpace
<1>4. CASE Whole(o, NoToken, Fail("EINVAL"), space, e) /\ lost' = FALSE
  <2> HIDE DEF o
  <2> QED
    BY <1>1, <1>2, <1>4, OwnFailure, WholeKeeps
<1>5. ASSUME NEW t \in TOKENS, NEW c \in REFUSALS \cup { "SUCCESS", Lost, NoStatus },
             NEW list \in BOOLEAN, NEW w \in { space, [ space EXCEPT ![t] = MAX_SIZE ] },
             c = "SUCCESS" => w = [ space EXCEPT ![t] = MAX_SIZE ],
             Whole(o, t, srmv2_purgefromspace(c, list), w, e), lost' = (c = Lost)
      PROVE  IInv'
  <2> DEFINE r == srmv2_purgefromspace(c, list)
  <2>1. w \in [ TOKENS -> { Gone } \cup 0 .. MAX_SIZE ] /\ (c = "SUCCESS" => w[t] = MAX_SIZE)
    BY <1>2, <1>5, Constants
  <2>2. \/ Failure(r)
        \/ r.ret = 1 /\ r.token = NoToken /\ r.errno = "OK" /\ c = "SUCCESS"
    BY PurgeOutcome, ResultFields
  <2>3. Whole(o, t, r, w, e) /\ lost' \in BOOLEAN
    BY <1>5
  <2> HIDE DEF o, r
  <2> QED
    BY <1>1, <2>1, <2>2, <2>3, WholeKeeps
<1>6. Live \subseteq TOKENS
  BY DEF Live
<1>7. \A c \in REFUSALS \cup { Lost, NoStatus } : c # "SUCCESS"
  BY RefusalErrno DEF Lost, NoStatus
<1> HIDE DEF o
<1> QED
  BY <1>3, <1>4, <1>5, <1>6, <1>7

LEMMA NextInv == IInv /\ [Next]_vars => IInv'
<1> SUFFICES ASSUME IInv, [Next]_vars PROVE IInv'
  OBVIOUS
<1>1. CASE Next
  BY <1>1, CallTokensKeeps, CallMdKeeps, GetSpaceTokensKeeps, GetSpaceMdKeeps, ScanKeeps,
     PickKeeps, PutKeeps, ReserveSpaceKeeps, ReleaseSpaceKeeps, PurgeFromSpaceKeeps,
     ElsewhereKeeps, Zenon DEF Next
<1>2. CASE UNCHANGED vars
  <2>1. UNCHANGED << space, pc, op, needed, target, tokens, md, scan, result,
                     prior, lost, touched >>
    BY <1>2 DEF vars, client, history
  <2>2. TypeOK' /\ CallInv' /\ MdInv'
    BY <2>1 DEF IInv, TypeOK, CallInv, errno, MdInv, SizesKnown
  <2>3. ScanInv' /\ ChosenInv' /\ NotChosenInv'
    BY <2>1 DEF IInv, ScanInv, ChosenInv, NotChosenInv, Least, Fits
  <2>4. PutFits' /\ FailureExplained' /\ SuccessMeansDone'
    BY <2>1 DEF IInv, PutFits, FailureExplained, SuccessMeansDone, errno, Live
  <2> QED
    BY <2>2, <2>3, <2>4 DEF IInv
<1> QED
  BY <1>1, <1>2

LEMMA Invariance == Spec => []IInv
BY InitInv, NextInv, PTL DEF Spec

-----------------------------------------------------------------------------
(* The theorems *)

\* Every variable keeps its type; a put is made into a space that has a token.
THEOREM TypeCorrect == Spec => []TypeOK
<1>1. IInv => TypeOK
  BY DEF IInv
<1> QED
  BY <1>1, Invariance, PTL

LEMMA InvLeast == IInv => LeastThatFits
<1> SUFFICES ASSUME IInv, ChosenBySize, ~touched, result.ret = 0
             PROVE  /\ space[result.token] >= needed + MARGIN
                    /\ \A j \in DOMAIN md :
                         md[j].unused >= needed + MARGIN => space[result.token] <= md[j].unused
  BY DEF LeastThatFits
<1>1. /\ op \in ChoosingOps /\ pc \in { "idle", "put" } /\ result.token # NoToken
      /\ Len(tokens) # 1
      /\ TypeOK
  <2>1. TypeOK
    BY DEF IInv
  <2>2. Len(tokens) \in Nat
    BY <2>1 DEF TypeOK
  <2>3. /\ op \in ChoosingOps /\ pc \in { "idle", "put" } /\ result.token # NoToken
        /\ Len(tokens) > 1
    BY Zenon DEF ChosenBySize
  <2>4. Len(tokens) # 1
    BY <2>2, <2>3
  <2> QED
    BY <2>1, <2>3, <2>4
<1>2. PICK k \in DOMAIN md : result.token = md[k].token /\ Least(k, Len(md) + 1)
  BY <1>1 DEF IInv, ChosenInv
<1>3. /\ DOMAIN md = 1 .. Len(md) /\ Len(md) \in Nat
      /\ \A j \in DOMAIN md : j < Len(md) + 1
      /\ md[k].unused \in 0 .. MAX_SIZE
      /\ needed \in Nat
  BY <1>1, SizesTyped, Constants DEF TypeOK
<1>4. md[k].unused >= needed + MARGIN /\ md[k].unused > 0
  BY <1>2, <1>3, Constants DEF Least, Fits
<1>5. space[result.token] = md[k].unused
  BY <1>1, <1>2, <1>4 DEF IInv, MdInv, SizesKnown
<1> QED
  BY <1>2, <1>3, <1>4, <1>5 DEF Least, Fits

\* getbestspacetoken returns, and a put uses, the token of the least space that has
\* room for the files and the margin, among those whose size was told.
THEOREM BestIsLeast == Spec => []LeastThatFits
  BY InvLeast, Invariance, PTL

LEMMA InvNone == IInv => NoneFits
<1> SUFFICES ASSUME IInv, op \in ChoosingOps, pc = "idle", ~touched, result.token = NoToken,
                    NEW k \in DOMAIN md, md[k].unused > 0
             PROVE  space[md[k].token] < needed + MARGIN
  BY DEF NoneFits
<1>1. ~Fits(md[k])
  BY DEF IInv, NotChosenInv
<1>2. space[md[k].token] = md[k].unused
  BY DEF IInv, MdInv, SizesKnown
<1>3. md[k].unused \in 0 .. MAX_SIZE /\ needed \in Nat
  BY SizesTyped, Constants DEF IInv, TypeOK
<1> QED
  BY <1>1, <1>2, <1>3, Constants DEF Fits

\* No token is returned only when no space whose size was told has room.
THEOREM NoneIsNone == Spec => []NoneFits
  BY InvNone, Invariance, PTL

\* A put with a description is refused for lack of space only if others changed
\* the spaces after their sizes were read, or if it is the only one.
THEOREM PutFinds == Spec => []PutFits
<1>1. IInv => PutFits
  BY DEF IInv
<1> QED
  BY <1>1, Invariance, PTL

\* Failures have an errno of their own, a lost getspacetokens apart.
THEOREM FailuresExplained == Spec => []FailureExplained
<1>1. IInv => FailureExplained
  BY DEF IInv
<1> QED
  BY <1>1, Invariance, PTL

\* A reservation or a purge that succeeds was carried out.
THEOREM SuccessIsTrue == Spec => []SuccessMeansDone
<1>1. IInv => SuccessMeansDone
  BY DEF IInv
<1> QED
  BY <1>1, Invariance, PTL
=============================================================================
