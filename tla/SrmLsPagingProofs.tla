-------------------------- MODULE SrmLsPagingProofs --------------------------
(***************************************************************************)
(* For every directory, count and number of waits: paging skips no entry,  *)
(* and each step of the library is one that SrmCursor allows.              *)
(***************************************************************************)
EXTENDS SrmLsPaging, TLAPS

USE PagingAssumption

\* What the application knows of.
Known == got \cup told

\* A request is about the offset it was sent with, unless it is asked about after it
\* was served; only that can carry the offset past the directory.
OffsetInv ==
  /\ ~twice => offset <= N
  /\ pc # "idle" => at = offset \/ (twice /\ served /\ offset <= N /\ at <= N)
  /\ token /\ ~served => at = offset
  /\ token /\ at > N => twice
  /\ pc = "ls" => ~token /\ ~served

\* Without a cut or a repetition, what is before the offset is known, and a call
\* that can bring a listing is part of a walk that is not over.
WalkInv ==
  ~cut /\ ~twice =>
    /\ ~finished => 1 .. offset \subseteq Known
    /\ finished => Entries \subseteq Known
    /\ pc # "idle" => ~finished
    /\ token /\ ~served => ~finished

IInv == TypeOK /\ OffsetInv /\ WalkInv

-----------------------------------------------------------------------------
\* The two shapes of an offset and of a list of statuses.
LEMMA ListingShape ==
  ASSUME NEW r \in Listings, at \in 0 .. 2 * N
  PROVE  /\ r.code \in { "SUCCESS", "TOO_MANY_RESULTS" }
         /\ r.entry \in { "null", "plain", "good", "bad" }
         /\ r.paths \in Nat \cup { -1 } /\ r.paths <= N
         /\ r.paths > 0 => at + r.paths <= N
BY DEF Listings, NoPaths

LEMMA StatusShape ==
  ASSUME NEW r \in Listings
  PROVE  Status(r) = "OK" <=> (r.entry \in { "null", "plain" } \/ (r.entry = "good" /\ r.code = "SUCCESS"))
<1>1. /\ r.code \in { "SUCCESS", "TOO_MANY_RESULTS" }
      /\ r.entry \in { "null", "plain", "good", "bad" }
  BY DEF Listings
<1>2. statuscode2errno("INVALID_PATH") # "OK"
  BY DEF statuscode2errno
<1> QED
  BY <1>1, <1>2 DEF Status

\* A page that was handed over whole, or the last one.
LEMMA Delivered ==
  ASSUME IInv, pc # "idle", NEW r \in Listings, Deliver(r), ~cut', ~twice
  PROVE  \/ /\ offset' \in offset .. N /\ ~finished'
            /\ Known' = Known \cup offset + 1 .. offset'
         \/ /\ offset' = 0 /\ finished'
            /\ Known' = Known \cup offset + 1 .. N
<1> DEFINE page == at + 1 .. at + r.paths
           rest == at + 1 .. N
<1>1. /\ at = offset /\ offset \in 0 .. N
      /\ N \in Nat \ {0}
  BY DEF IInv, TypeOK, OffsetInv
<1>2. /\ r.code \in { "SUCCESS", "TOO_MANY_RESULTS" }
      /\ r.entry \in { "null", "plain", "good", "bad" }
      /\ r.paths \in Nat \cup { -1 }
      /\ r.paths > 0 => at + r.paths <= N
  BY ListingShape, <1>1
<1>3. /\ offset' = NextOffset(r)
      /\ got' = got \cup copy_mdfilestatuses(r)
      /\ told' = IF Status(r) = "OK" THEN told
                 ELSE told \cup (IF NextOffset(r) # 0 THEN page ELSE rest)
      /\ finished' = (offset' = 0)
      /\ ~Cuts(r)
  BY DEF Deliver
<1>4. Status(r) = "OK" <=> (r.entry \in { "null", "plain" } \/ (r.entry = "good" /\ r.code = "SUCCESS"))
  BY StatusShape
<1>5. CASE More(r) /\ NextOffset(r) # 0
  <2>1. /\ r.code = "TOO_MANY_RESULTS" /\ r.entry # "null" /\ r.paths \in Nat
        /\ offset' = offset + r.paths
    BY <1>2, <1>3, <1>5 DEF More, NextOffset, NoPaths
  <2>2. Known' = Known \cup page
    BY <1>2, <1>3, <1>4, <1>5, <2>1 DEF Known, copy_mdfilestatuses, NoPaths
  <2>3. offset' \in offset .. N
    BY <1>1, <1>2, <2>1
  <2>4. ~finished'
    BY <1>3, <1>5
  <2>5. page = offset + 1 .. offset'
    BY <1>1, <2>1
  <2> QED
    BY <2>2, <2>3, <2>4, <2>5
<1>6. CASE ~(More(r) /\ NextOffset(r) # 0)
  <2>1. offset' = 0 /\ NextOffset(r) = 0
    BY <1>3, <1>6 DEF NextOffset
  <2>2. CASE Status(r) # "OK"
    <3>1. copy_mdfilestatuses(r) = { }
      BY <2>2 DEF copy_mdfilestatuses
    <3> QED
      BY <1>1, <1>3, <2>1, <2>2, <3>1 DEF Known
  <2>3. CASE Status(r) = "OK" /\ (r.entry = "null" \/ r.paths = NoPaths)
    <3>1. copy_mdfilestatuses(r) = { }
      BY <2>3 DEF copy_mdfilestatuses
    <3>2. ~(at < N)
      BY <1>2, <1>3, <1>4, <2>3 DEF Cuts
    <3>3. offset + 1 .. N = { }
      BY <1>1, <3>2
    <3> QED
      BY <1>3, <2>1, <2>3, <3>1, <3>3 DEF Known
  <2>4. CASE Status(r) = "OK" /\ r.entry # "null" /\ r.paths # NoPaths
    <3>1. copy_mdfilestatuses(r) = page
      BY <2>4 DEF copy_mdfilestatuses
    <3>2. r.paths \in Nat
      BY <1>2, <2>4 DEF NoPaths
    <3>3. page = offset + 1 .. N
      <4>1. CASE r.code = "SUCCESS"
        <5>1. ~(at + r.paths < N)
          BY <1>2, <1>3, <1>4, <2>4, <4>1 DEF Cuts
        <5>2. r.paths > 0 => at + r.paths = N
          BY <1>1, <1>2, <3>2, <5>1
        <5>3. r.paths = 0 => at = N
          BY <1>1, <3>2, <5>1
        <5> QED
          BY <1>1, <3>2, <5>2, <5>3
      <4>2. CASE r.code = "TOO_MANY_RESULTS"
        <5>1. More(r)
          BY <2>4, <4>2 DEF More
        <5>2. offset + r.paths = 0
          BY <2>1, <5>1 DEF NextOffset
        <5>3. at + r.paths # 0
          BY <1>2, <1>3, <1>4, <2>4, <4>2 DEF Cuts
        <5> QED
          BY <1>1, <5>2, <5>3
      <4> QED
        BY <1>2, <4>1, <4>2
    <3> QED
      BY <1>3, <2>1, <2>4, <3>1, <3>3 DEF Known
  <2> QED
    BY <2>2, <2>3, <2>4
<1> QED
  BY <1>5, <1>6

-----------------------------------------------------------------------------
(* The invariant *)

LEMMA InitInv == Init => IInv
<1> SUFFICES ASSUME Init PROVE IInv
  OBVIOUS
<1>1. TypeOK
  <2>1. offset \in -1 .. 2 * N /\ at \in 0 .. 2 * N /\ retries \in 0 .. RETRIES
    BY DEF Init
  <2>2. count \in COUNTS /\ pc = "idle" /\ mode = "sync"
    BY DEF Init
  <2>3. /\ token \in BOOLEAN /\ served \in BOOLEAN
        /\ finished \in BOOLEAN /\ cut \in BOOLEAN /\ twice \in BOOLEAN
    BY DEF Init
  <2>4. got \subseteq Entries /\ told \subseteq Entries
    BY DEF Init
  <2> QED
    BY <2>1, <2>2, <2>3, <2>4 DEF TypeOK
<1>2. OffsetInv
  BY DEF Init, OffsetInv
<1>3. WalkInv
  BY DEF Init, WalkInv, Known
<1> QED
  BY <1>1, <1>2, <1>3 DEF IInv

\* A page moves the offset within the directory, or from an offset that came with
\* the status of a served listing by one page at most.
LEMMA DeliverTyped ==
  ASSUME TypeOK, OffsetInv, pc # "idle", NEW r \in Listings, Deliver(r)
  PROVE  /\ TypeOK'
         /\ OffsetInv'
<1> USE DEF TypeOK
<1>1. /\ at \in 0 .. 2 * N /\ offset \in -1 .. 2 * N
      /\ N \in Nat \ {0}
      /\ at = offset \/ (twice /\ served /\ offset <= N /\ at <= N)
      /\ ~twice => offset <= N
  BY DEF OffsetInv
<1>2. /\ r.paths \in Nat \cup { -1 } /\ r.paths <= N
      /\ r.paths > 0 => at + r.paths <= N
  BY ListingShape, <1>1
<1>3. /\ offset' = NextOffset(r)
      /\ pc' = "idle" /\ served' = TRUE
      /\ finished' = (offset' = 0)
      /\ cut' = (cut \/ Cuts(r))
      /\ got' = got \cup copy_mdfilestatuses(r)
      /\ told' = IF Status(r) = "OK" THEN told
                 ELSE told \cup (IF NextOffset(r) # 0 THEN at + 1 .. at + r.paths ELSE at + 1 .. N)
      /\ UNCHANGED << count, mode, token, at, retries, twice >>
  BY DEF Deliver
<1>4. NextOffset(r) = 0 \/ (NextOffset(r) = offset + r.paths /\ r.paths \in Nat)
  BY <1>2 DEF NextOffset, More, NoPaths
<1>5. /\ offset' \in -1 .. 2 * N
      /\ ~twice => offset' <= N
  BY <1>1, <1>2, <1>3, <1>4
<1>6. at + 1 .. at + r.paths \subseteq Entries
  BY <1>1, <1>2 DEF Entries
<1>7. at + 1 .. N \subseteq Entries
  BY <1>1 DEF Entries
<1>8. got' \subseteq Entries /\ told' \subseteq Entries
  BY <1>3, <1>6, <1>7 DEF copy_mdfilestatuses
<1>9. Cuts(r) \in BOOLEAN /\ finished' \in BOOLEAN /\ cut' \in BOOLEAN
  BY <1>3 DEF Cuts
<1> QED
  BY <1>3, <1>5, <1>8, <1>9 DEF OffsetInv

LEMMA NextInv ==
  ASSUME IInv, [Next]_vars
  PROVE  IInv'
<1> USE DEF IInv, TypeOK
<1>1. CASE Walk
  <2>1. PICK o \in -1 .. N : offset' = o /\ got' = 1 .. o
    BY <1>1 DEF Walk
  <2>2. TypeOK'
    <3>1. offset' \in -1 .. 2 * N /\ at' \in 0 .. 2 * N
      BY <1>1, <2>1 DEF Walk
    <3>2. /\ token' \in BOOLEAN /\ served' \in BOOLEAN
          /\ finished' \in BOOLEAN /\ cut' \in BOOLEAN /\ twice' \in BOOLEAN
      BY <1>1 DEF Walk
    <3>3. got' \subseteq Entries /\ told' \subseteq Entries
      BY <1>1, <2>1 DEF Walk, Entries
    <3> QED
      BY <1>1, <3>1, <3>2, <3>3 DEF Walk
  <2>3. OffsetInv'
    BY <1>1, <2>1 DEF Walk, OffsetInv
  <2>4. WalkInv'
    BY <1>1, <2>1 DEF Walk, WalkInv, Known
  <2> QED
    BY <2>2, <2>3, <2>4
<1>2. CASE CallLs
  <2>1. TypeOK'
    <3>1. CASE offset < 0 \/ count < 0
      BY <1>2, <3>1 DEF CallLs, history
    <3>2. CASE ~(offset < 0 \/ count < 0)
      <4>1. offset \in 0 .. 2 * N
        BY <3>2
      <4>2. /\ at' = offset /\ retries' = 0 /\ ~token' /\ ~served' /\ pc' = "ls"
            /\ token' \in BOOLEAN /\ served' \in BOOLEAN
        BY <1>2, <3>2 DEF CallLs
      <4> QED
        BY <1>2, <4>1, <4>2 DEF CallLs, history
    <3> QED
      BY <3>1, <3>2
  <2>2. OffsetInv'
    BY <1>2 DEF CallLs, OffsetInv, history
  <2>3. WalkInv'
    BY <1>2 DEF CallLs, WalkInv, Known, history
  <2> QED
    BY <2>1, <2>2, <2>3
<1>3. CASE CallStatus
  <2>1. TypeOK'
    <3>1. twice' \in BOOLEAN
      BY <1>3 DEF CallStatus
    <3> QED
      BY <1>3, <3>1 DEF CallStatus, request
  <2>2. OffsetInv'
    BY <1>3 DEF CallStatus, OffsetInv, request
  <2>3. WalkInv'
    BY <1>3 DEF CallStatus, WalkInv, Known, request
  <2> QED
    BY <2>1, <2>2, <2>3
<1>4. CASE Return
  BY <1>4 DEF Return, OffsetInv, WalkInv, Known, request, history
<1>5. CASE Retry
  BY <1>5 DEF Retry, OffsetInv, WalkInv, Known, request, history
<1>6. CASE Queue
  <2>1. TypeOK'
    BY <1>6 DEF Queue, history
  <2>2. OffsetInv'
    BY <1>6 DEF Queue, OffsetInv, history
  <2>3. WalkInv'
    BY <1>6 DEF Queue, WalkInv, OffsetInv, Known, history
  <2> QED
    BY <2>1, <2>2, <2>3
<1>7. CASE Listed
  <2>1. PICK r \in Listings : Deliver(r)
    BY <1>7 DEF Listed
  <2>2. pc # "idle"
    BY <1>7 DEF Listed
  <2>3. TypeOK' /\ OffsetInv'
    BY <2>1, <2>2, DeliverTyped
  <2>4. WalkInv'
    <3> SUFFICES ASSUME ~cut', ~twice'
                 PROVE  WalkInv'
      BY DEF WalkInv
    <3>1. /\ ~cut /\ ~twice
          /\ pc' = "idle" /\ served'
      BY <2>1 DEF Deliver
    <3>2. \/ /\ offset' \in offset .. N /\ ~finished'
             /\ Known' = Known \cup offset + 1 .. offset'
          \/ /\ offset' = 0 /\ finished'
             /\ Known' = Known \cup offset + 1 .. N
      BY <2>1, <2>2, <3>1, Delivered
    <3>3. 1 .. offset \subseteq Known
      BY <2>2, <3>1 DEF WalkInv
    <3> QED
      BY <3>1, <3>2, <3>3 DEF WalkInv, Entries
  <2> QED
    BY <2>3, <2>4
<1>8. CASE UNCHANGED vars
  BY <1>8 DEF vars, request, history, OffsetInv, WalkInv, Known
<1> QED
  BY <1>1, <1>2, <1>3, <1>4, <1>5, <1>6, <1>7, <1>8 DEF Next

\* Every variable of the paging model keeps its type: above all, the offset never
\* leaves the directory but by one page.
THEOREM TypeCorrect == Spec => []TypeOK
<1>1. IInv => TypeOK
  BY DEF IInv
<1> QED
  BY <1>1, InitInv, NextInv, PTL DEF Spec

\* Nothing before the offset of the caller is skipped, and nothing at all in a walk
\* that is over.
THEOREM NoneSkipped == Spec => []NothingSkipped
<1>1. IInv => NothingSkipped
  BY DEF IInv, WalkInv, NothingSkipped, Known
<1> QED
  BY <1>1, InitInv, NextInv, PTL DEF Spec

-----------------------------------------------------------------------------
(* The steps of SrmCursor *)

LEMMA CursorInit == Init => Cursor!Init
BY DEF Init, Cursor!Init

LEMMA CursorStep ==
  ASSUME IInv, IInv', [Next]_vars
  PROVE  [Cursor!Next]_(Cursor!vars)
<1> USE DEF IInv, TypeOK
<1>1. CASE Walk
  <2>1. Cursor!Walk
    BY <1>1 DEF Walk, Cursor!Walk
  <2> QED
    BY <2>1 DEF Cursor!Next
<1>2. CASE CallLs
  <2>1. CASE offset < 0 \/ count < 0
    BY <1>2, <2>1 DEF CallLs, history, Cursor!vars
  <2>2. CASE ~(offset < 0 \/ count < 0)
    <3>1. Cursor!Call
      BY <1>2, <2>2 DEF CallLs, history, Cursor!Call
    <3> QED
      BY <3>1 DEF Cursor!Next
  <2> QED
    BY <2>1, <2>2
<1>3. CASE CallStatus
  <2>1. CASE served
    <3>1. Cursor!Repeat
      BY <1>3, <2>1 DEF CallStatus, Cursor!Repeat
    <3> QED
      BY <3>1 DEF Cursor!Next
  <2>2. CASE ~served
    <3>1. Cursor!Call
      BY <1>3, <2>2 DEF CallStatus, Cursor!Call
    <3> QED
      BY <3>1 DEF Cursor!Next
  <2> QED
    BY <2>1, <2>2
<1>4. CASE Return
  <2>1. Cursor!Empty
    BY <1>4 DEF Return, request, history, Cursor!Empty
  <2> QED
    BY <2>1 DEF Cursor!Next
<1>5. CASE Retry
  BY <1>5 DEF Retry, request, history, Cursor!vars
<1>6. CASE Queue
  <2>1. CASE mode = "sync"
    BY <1>6, <2>1 DEF Queue, history, Cursor!vars
  <2>2. CASE mode # "sync"
    <3>1. Cursor!Empty
      BY <1>6, <2>2 DEF Queue, history, Cursor!Empty
    <3> QED
      BY <3>1 DEF Cursor!Next
  <2> QED
    BY <2>1, <2>2
<1>7. CASE Listed
  <2>1. PICK r \in Listings : Deliver(r)
    BY <1>7 DEF Listed
  <2>2. pc # "idle" /\ pc' = "idle" /\ twice' = twice /\ (cut => cut')
    BY <1>7, <2>1 DEF Listed, Deliver
  <2>3. CASE cut' \/ twice'
    <3>1. got' \cup told' \in SUBSET (1 .. N)
      BY DEF Entries
    <3>2. Cursor!Void
      BY <2>2, <2>3, <3>1 DEF Cursor!Void
    <3> QED
      BY <3>2 DEF Cursor!Next
  <2>4. CASE ~cut' /\ ~twice'
    <3>1. ~finished /\ ~cut /\ ~twice
      BY <2>2, <2>4 DEF WalkInv
    <3>2. \/ /\ offset' \in offset .. N /\ ~finished'
             /\ Known' = Known \cup offset + 1 .. offset'
          \/ /\ offset' = 0 /\ finished'
             /\ Known' = Known \cup offset + 1 .. N
      BY <2>1, <2>2, <2>4, <3>1, Delivered
    <3>3. Cursor!Page \/ Cursor!LastPage
      BY <2>2, <2>4, <3>1, <3>2 DEF Known, Cursor!Page, Cursor!LastPage
    <3> QED
      BY <3>3 DEF Cursor!Next
  <2> QED
    BY <2>3, <2>4
<1>8. CASE UNCHANGED vars
  BY <1>8 DEF vars, request, history, Cursor!vars
<1> QED
  BY <1>1, <1>2, <1>3, <1>4, <1>5, <1>6, <1>7, <1>8 DEF Next

\* Whatever the server makes of the pages, the application sees the cursor of
\* SrmCursor: an error leaves it, a page moves it past what was handed over.
THEOREM CursorKept == Spec => Cursor!Init /\ [][Cursor!Next]_(Cursor!vars)
BY InitInv, NextInv, CursorInit, CursorStep, PTL DEF Spec
=============================================================================
