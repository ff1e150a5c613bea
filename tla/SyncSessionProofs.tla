-------------------------- MODULE SyncSessionProofs --------------------------
(***************************************************************************)
(* Proofs about SyncSession, for every population, feeder file, catchment, *)
(* entity table and bound.                                                 *)
(***************************************************************************)
EXTENDS SyncSession, TLAPS, SequenceTheorems, FiniteSetTheorems, WellFoundedInduction

-----------------------------------------------------------------------------
(* A set of naturals that is not empty has a least element: both loops that  *)
(* run over the entity table have a next entity while one is due.            *)

\* Every nonempty set of naturals has a least element.
LEMMA LeastElement ==
  ASSUME NEW S \in SUBSET Nat, S # {}
  PROVE  \E x \in S : \A y \in S : x <= y
  <1>1. PICK x \in S : \A y \in S : <<y, x>> \notin OpToRel(<, Nat)
    BY NatLessThanWellFounded, WFMin
  <1>2. ASSUME NEW y \in S, y < x
        PROVE  <<y, x>> \in OpToRel(<, Nat)
    BY <1>2 DEF OpToRel
  <1>3. \A y \in S : ~(y < x)
    BY <1>1, <1>2
  <1>4. \A y \in S : x <= y
    BY <1>3
  <1> QED
    BY <1>4

\* Induction, in the form of a set that holds 0 and is closed under successor.
LEMMA NatSetInduction ==
  ASSUME NEW A, A \subseteq Nat, 0 \in A, \A k \in A : k + 1 \in A
  PROVE  A = Nat
  <1>1. SUFFICES ASSUME Nat \ A # {} PROVE FALSE
    OBVIOUS
  <1>2. PICK x \in Nat \ A : \A y \in Nat \ A : x <= y
    BY <1>1, LeastElement
  <1>3. x \in Nat /\ x # 0 /\ x - 1 \in Nat /\ ~(x <= x - 1)
    OBVIOUS
  <1>4. x - 1 \in A
    BY <1>2, <1>3
  <1> QED
    BY <1>3, <1>4

\* While a detail is due, the pull loop has a next one, the first in table order.
LEMMA FirstDueDetail ==
  ASSUME TypeOK, NEW v \in VUs, DueDetails(v) # {}
  PROVE  /\ NextDetail(v) \in DueDetails(v)
         /\ \A o \in DueDetails(v) : NextDetail(v) <= o
  <1>1. DueDetails(v) \in SUBSET Nat
    BY BoundAssumption DEF BoundAssumption, TypeOK, DueDetails
  <1> QED
    BY <1>1, LeastElement DEF NextDetail

\* While a record is due, the push loop has a next entity, the first in table order.
LEMMA FirstDueKind ==
  ASSUME TypeOK, NEW v \in VUs, DueKinds(v) # {}
  PROVE  /\ NextKind(v) \in DueKinds(v)
         /\ \A o \in DueKinds(v) : PushOrder[NextKind(v)] <= PushOrder[o]
  <1> DEFINE places == {PushOrder[k] : k \in DueKinds(v)}
  <1>1. places \in SUBSET Nat /\ places # {}
    BY SeedAssumption DEF SeedAssumption, DueKinds
  <1>2. PICK least \in places : \A place \in places : least <= place
    BY <1>1, LeastElement
  <1>3. \E k \in DueKinds(v) : \A o \in DueKinds(v) : PushOrder[k] <= PushOrder[o]
    BY <1>2
  <1> QED
    BY <1>3 DEF NextKind

-----------------------------------------------------------------------------
(* Type correctness.                                                        *)

\* The run starts well typed.
LEMMA InitTypeOK == Init => TypeOK
  <1>1. CustomerFile[1] \in Row
    BY FileAssumption, EmptySeq DEF FileAssumption
  <1>2. FIRST \in PageInfo /\ 0 \in 0..(MaxPages - 1)
    BY BoundAssumption DEF BoundAssumption, FIRST, PageInfo
  <1> QED
    BY <1>1, <1>2, SeedAssumption
    DEF Init, TypeOK, NothingPushed, Seeds, Counts, ResultRow, Locations, Row, Windows,
        SeedAssumption

\* Whatever row a feeder hands out is a row of its file.
LEMMA CircularRowIsARow ==
  ASSUME TypeOK, NEW r \in CircularRow(fed)
  PROVE  r \in Row
  <1>1. Len(CustomerFile) \in Nat \ {0} /\ fed \in Nat
    BY FileAssumption, EmptySeq DEF FileAssumption, TypeOK
  <1>2. (fed % Len(CustomerFile)) + 1 \in 1..Len(CustomerFile)
    BY <1>1
  <1>3. CustomerFile \in Seq(Row)
    BY FileAssumption DEF FileAssumption
  <1> QED
    BY <1>2, <1>3, ElementOfSeq DEF CircularRow

\* A check's verdict adds at most a phase to the session's failures.
LEMMA VerdictType ==
  ASSUME TypeOK, NEW v \in VUs, NEW phase \in Phases,
         Pass \/ Fail(v, phase) \/ MarkAsFailed(v, phase)
  PROVE  failedAt' \in [VUs -> SUBSET Phases]
  <1>1. failedAt \in [VUs -> SUBSET Phases]
    BY DEF TypeOK
  <1> QED
    BY <1>1 DEF Pass, Fail, MarkAsFailed

\* Turning the page, or starting over, keeps the index below the page count.
LEMMA PageType ==
  ASSUME TypeOK, NEW v \in VUs,
         \/ UNCHANGED page
         \/ \E total \in 0..MaxPages :
               page' = [page EXCEPT ![v] = IF HasMorePages(total, page[v])
                                           THEN @ + 1 ELSE @]
  PROVE  page' \in [VUs -> 0..(MaxPages - 1)]
  <1>1. page \in [VUs -> 0..(MaxPages - 1)]
    BY DEF TypeOK
  <1>2. /\ 0 \in 0..(MaxPages - 1)
        /\ \A total \in 0..MaxPages, index \in 0..(MaxPages - 1) :
             HasMorePages(total, index) => index + 1 \in 0..(MaxPages - 1)
    BY BoundAssumption DEF BoundAssumption, HasMorePages
  <1> QED
    BY <1>1, <1>2

\* A paged loop starts at its first page.
LEMMA FirstPageType ==
  ASSUME TypeOK, NEW v \in VUs,
         page' = [page EXCEPT ![v] = 0], pageInfo' = [pageInfo EXCEPT ![v] = FIRST]
  PROVE  page' \in [VUs -> 0..(MaxPages - 1)] /\ pageInfo' \in [VUs -> PageInfo]
  BY BoundAssumption DEF BoundAssumption, TypeOK, FIRST, PageInfo

\* What a check reads off a page is a PageInfo.
LEMMA PageInfoType ==
  ASSUME TypeOK, NEW v \in VUs,
         \/ UNCHANGED pageInfo
         \/ \E total \in 0..MaxPages, records \in 0..MaxRecords :
               pageInfo' = [pageInfo EXCEPT
                  ![v] = [hasMore |-> HasMorePages(total, page[v]),
                          recordCount |-> records]]
  PROVE  pageInfo' \in [VUs -> PageInfo]
  <1>1. pageInfo \in [VUs -> PageInfo] /\ 0..MaxRecords \subseteq Nat
    BY BoundAssumption DEF BoundAssumption, TypeOK
  <1>2. \A total, index : HasMorePages(total, index) \in BOOLEAN
    BY DEF HasMorePages
  <1> QED
    BY <1>1, <1>2 DEF PageInfo

\* What one page request can come to: a page that arrived, or a failure.
LEMMA PageOutcome ==
  ASSUME TypeOK, NEW v \in VUs, PullPage(v)
  PROVE  /\ NextDetail(v) \in DueDetails(v) /\ NextDetail(v) \in Details
         /\ \/ /\ Pass /\ Goto(v, ExitHereIfFailed(failedAt[v], "count"))
               /\ \E records \in 0..MaxRecords, more \in BOOLEAN :
                     /\ pageInfo' = [pageInfo EXCEPT
                            ![v] = [hasMore |-> more, recordCount |-> records]]
                     /\ served' = [served EXCEPT ![v] = @ + records]
                     /\ pulled' = IF more THEN pulled
                                  ELSE [pulled EXCEPT ![v] = @ \cup {NextDetail(v)}]
            \/ /\ Fail(v, "pull") /\ Goto(v, ExitHereIfFailed(failedAt'[v], "count"))
               /\ UNCHANGED <<pageInfo, served, pulled>>
  <1>1. NextDetail(v) \in DueDetails(v)
    BY FirstDueDetail DEF PullPage
  <1>2. NextDetail(v) \in Details
    BY <1>1 DEF TypeOK, DueDetails
  <1>3. CASE Fail(v, "pull") /\ Goto(v, ExitHereIfFailed(failedAt'[v], "count"))
             /\ UNCHANGED <<pageInfo, served, pulled>>
    BY <1>1, <1>2, <1>3
  <1>4. CASE Pass /\ Goto(v, ExitHereIfFailed(failedAt[v], "count"))
             /\ \E total \in 0..MaxPages, records \in 0..MaxRecords :
                   /\ pageInfo' = [pageInfo EXCEPT
                          ![v] = [hasMore |-> HasMorePages(total, page[v]),
                                  recordCount |-> records]]
                   /\ served' = [served EXCEPT ![v] = @ + records]
                   /\ pulled' = IF HasMorePages(total, page[v]) THEN pulled
                                ELSE [pulled EXCEPT ![v] = @ \cup {NextDetail(v)}]
    <2>1. PICK total \in 0..MaxPages, records \in 0..MaxRecords :
                   /\ pageInfo' = [pageInfo EXCEPT
                          ![v] = [hasMore |-> HasMorePages(total, page[v]),
                                  recordCount |-> records]]
                   /\ served' = [served EXCEPT ![v] = @ + records]
                   /\ pulled' = IF HasMorePages(total, page[v]) THEN pulled
                                ELSE [pulled EXCEPT ![v] = @ \cup {NextDetail(v)}]
      BY <1>4
    <2>2. PICK more \in BOOLEAN : more = HasMorePages(total, page[v])
      <3>1. HasMorePages(total, page[v]) \in BOOLEAN
        BY DEF HasMorePages
      <3> QED
        BY <3>1
    <2>3. /\ pageInfo' = [pageInfo EXCEPT ![v] = [hasMore |-> more, recordCount |-> records]]
          /\ served' = [served EXCEPT ![v] = @ + records]
          /\ pulled' = IF more THEN pulled ELSE [pulled EXCEPT ![v] = @ \cup {NextDetail(v)}]
      BY <2>1, <2>2
    <2> QED
      BY <1>1, <1>2, <1>4, <2>3
  <1> QED
    BY <1>3, <1>4 DEF PullPage, pageVars

\* Every step keeps every variable in its type.
LEMMA StepTypeOK == TypeOK /\ [Next]_vars => TypeOK'
  <1> SUFFICES ASSUME TypeOK, [Next]_vars
               PROVE  TypeOK'
    OBVIOUS
  <1> USE DEF Goto, cacheVars, pushVars, pullVars, pageVars, detailVars, sessionVars, runVars
  <1>1. ASSUME NEW v \in VUs, Arrive(v)
        PROVE  TypeOK'
    <2>1. \A i \in 1..Len(CoTenantFile) : CoTenantFile[i] \in Row
      BY FileAssumption, ElementOfSeq DEF FileAssumption
    <2>2. \A r \in CircularRow(fed) : r \in Row
      BY CircularRowIsARow
    <2>3. row \in [VUs -> Row] /\ fed \in Nat
      BY DEF TypeOK
    <2>4. row' \in [VUs -> Row] /\ fed' \in Nat
      BY <1>1, <2>1, <2>2, <2>3 DEF Arrive
    <2> QED
      BY <1>1, <2>4 DEF Arrive, TypeOK, Locations
  <1>2. ASSUME NEW v \in VUs, CheckStatuses(v)
        PROVE  TypeOK'
    BY <1>2 DEF CheckStatuses, TypeOK, Locations
  <1>3. ASSUME NEW v \in VUs, BootstrapReply(v)
        PROVE  TypeOK'
    <2>1. failedAt' \in [VUs -> SUBSET Phases]
      BY <1>3, VerdictType DEF BootstrapReply, Phases
    <2>2. userSyncStatuses' \in [Accounts -> SUBSET Details]
      <3>1. userSyncStatuses \in [Accounts -> SUBSET Details]
        BY DEF TypeOK
      <3>2. \/ userSyncStatuses' = userSyncStatuses
            \/ \E a : \E tracked \in SUBSET Details : userSyncStatuses' = PutIfAbsent(a, tracked)
        BY <1>3 DEF BootstrapReply
      <3> QED
        BY <3>1, <3>2 DEF PutIfAbsent
    <2> QED
      BY <1>3, <2>1, <2>2 DEF BootstrapReply, TypeOK, Locations
  <1>4. ASSUME NEW v \in VUs, CheckSeed(v)
        PROVE  TypeOK'
    BY <1>4 DEF CheckSeed, TypeOK, Locations
  <1>5. ASSUME NEW v \in VUs, SeedReplies(v)
        PROVE  TypeOK'
    <2>1. failedAt' \in [VUs -> SUBSET Phases]
      BY <1>5, VerdictType DEF SeedReplies, Phases
    <2>2. row[v].user \in Accounts
      BY DEF TypeOK, Row
    <2>3. Holds[row[v].user] \in SUBSET Kinds /\ harvest \in [VUs -> Seeds]
      BY <2>2, SeedAssumption DEF SeedAssumption, TypeOK
    <2>4. harvest' \in [VUs -> Seeds]
      BY <1>5, <2>3 DEF SeedReplies, Seeds
    <2> QED
      BY <1>5, <2>1, <2>4 DEF SeedReplies, TypeOK, Locations
  <1>6. ASSUME NEW v \in VUs, AssembleSeed(v)
        PROVE  TypeOK'
    <2>1. failedAt' \in [VUs -> SUBSET Phases]
      BY <1>6, VerdictType DEF AssembleSeed, Phases
    <2> QED
      BY <1>6, <2>1 DEF AssembleSeed, TypeOK, Locations
  <1>7. ASSUME NEW v \in VUs, TallyMissing(v)
        PROVE  TypeOK'
    <2>1. unseedable \in [SUBSET Kinds -> Nat]
      BY DEF TypeOK
    <2>2. unseedable' \in [SUBSET Kinds -> Nat]
      BY <1>7, <2>1 DEF TallyMissing, Missing
    <2> QED
      BY <1>7, <2>2 DEF TallyMissing, TypeOK, Locations
  <1>8. ASSUME NEW v \in VUs, StoreSeed(v)
        PROVE  TypeOK'
    BY <1>8 DEF StoreSeed, TypeOK, Locations
  <1>9. ASSUME NEW v \in VUs, StartSync(v)
        PROVE  TypeOK'
    <2>1. fullSync' \in [VUs -> BOOLEAN]
      BY <1>9 DEF StartSync, DrawFullSync, TypeOK
    <2>2. pushCounts' \in [VUs -> Counts]
      <3>1. pushCounts \in [VUs -> Counts]
        BY DEF TypeOK
      <3>2. \A seed : DrawPushCounts(seed) \subseteq Counts
        BY BoundAssumption DEF BoundAssumption, DrawPushCounts, Counts
      <3> QED
        BY <1>9, <3>1, <3>2 DEF StartSync
    <2>3. mediaLeft' \in [VUs -> Nat]
      <3>1. mediaLeft \in [VUs -> Nat]
        BY DEF TypeOK
      <3>2. \A counts : DrawMedia(counts) \subseteq Nat
        BY BoundAssumption DEF BoundAssumption, DrawMedia
      <3> QED
        BY <1>9, <3>1, <3>2 DEF StartSync
    <2> QED
      BY <1>9, <2>1, <2>2, <2>3 DEF StartSync, TypeOK, Locations
  <1>10. ASSUME NEW v \in VUs, RequestUploadUrl(v)
        PROVE  TypeOK'
    <2>1. failedAt' \in [VUs -> SUBSET Phases]
      BY <1>10, VerdictType DEF RequestUploadUrl, Phases
    <2>2. mediaLeft \in [VUs -> Nat]
      BY DEF TypeOK
    <2>3. \A left \in Nat : left - UploadGroup(left) \in Nat
      BY BoundAssumption DEF BoundAssumption, UploadGroup
    <2>4. mediaLeft' \in [VUs -> Nat]
      <3>1. mediaLeft[v] - UploadGroup(mediaLeft[v]) \in Nat
        BY <2>2, <2>3
      <3> QED
        BY <1>10, <2>2, <3>1 DEF RequestUploadUrl
    <2> QED
      BY <1>10, <2>1, <2>4 DEF RequestUploadUrl, TypeOK, Locations
  <1>11. ASSUME NEW v \in VUs, MediaDone(v)
        PROVE  TypeOK'
    BY <1>11 DEF MediaDone, TypeOK, Locations
  <1>12. ASSUME NEW v \in VUs, PushRecord(v)
        PROVE  TypeOK'
    <2>1. failedAt' \in [VUs -> SUBSET Phases]
      BY <1>12, VerdictType DEF PushRecord, Phases
    <2>2. NextKind(v) \in Kinds
      BY <1>12, FirstDueKind DEF PushRecord, DueKinds
    <2>3. attempts \in [VUs -> [Kinds -> Nat]] /\ accepted \in [VUs -> [Kinds -> Nat]]
      BY DEF TypeOK, Counts
    <2>4. attempts' \in [VUs -> [Kinds -> Nat]] /\ accepted' \in [VUs -> [Kinds -> Nat]]
      <3>1. PICK k \in Kinds : k = NextKind(v)
        BY <2>2
      <3>2. /\ attempts' = [attempts EXCEPT ![v][k] = @ + 1]
            /\ accepted' = accepted \/ accepted' = [accepted EXCEPT ![v][k] = @ + 1]
        BY <1>12, <3>1 DEF PushRecord
      <3>3. [attempts EXCEPT ![v][k] = @ + 1] \in [VUs -> [Kinds -> Nat]]
        <4>1. [attempts[v] EXCEPT ![k] = @ + 1] \in [Kinds -> Nat]
          BY <2>3
        <4> QED
          BY <2>3, <4>1
      <3>4. [accepted EXCEPT ![v][k] = @ + 1] \in [VUs -> [Kinds -> Nat]]
        <4>1. [accepted[v] EXCEPT ![k] = @ + 1] \in [Kinds -> Nat]
          BY <2>3
        <4> QED
          BY <2>3, <4>1
      <3> QED
        BY <2>3, <3>2, <3>3, <3>4
    <2> QED
      BY <1>12, <2>1, <2>4 DEF PushRecord, TypeOK, Counts
  <1>13. ASSUME NEW v \in VUs, PushDone(v)
        PROVE  TypeOK'
    <2>1. page' \in [VUs -> 0..(MaxPages - 1)] /\ pageInfo' \in [VUs -> PageInfo]
      BY <1>13, FirstPageType DEF PushDone, LoopStart
    <2> QED
      BY <1>13, <2>1 DEF PushDone, TypeOK, Locations
  <1>14. ASSUME NEW v \in VUs, ResetSyncPage(v)
        PROVE  TypeOK'
    <2>1. failedAt' \in [VUs -> SUBSET Phases]
      BY <1>14, VerdictType DEF ResetSyncPage, Phases
    <2>2. pc' \in [VUs -> Locations]
      <3>1. \E next \in {"aborted", "reset", "details"} : pc' = [pc EXCEPT ![v] = next]
        BY <1>14 DEF ResetSyncPage, ExitHereIfFailed, Goto
      <3> QED
        BY <3>1 DEF TypeOK, Locations
    <2>3. page' \in [VUs -> 0..(MaxPages - 1)]
      BY <1>14, PageType DEF ResetSyncPage
    <2>4. refused' \in [VUs -> BOOLEAN]
      BY <1>14 DEF ResetSyncPage, Refused, TypeOK
    <2>5. pageInfo' \in [VUs -> PageInfo]
      BY <1>14, PageInfoType DEF ResetSyncPage
    <2> QED
      BY <1>14, <2>1, <2>2, <2>3, <2>4, <2>5 DEF ResetSyncPage, TypeOK
  <1>15. ASSUME NEW v \in VUs, GetSyncDetails(v)
        PROVE  TypeOK'
    <2>1. failedAt' \in [VUs -> SUBSET Phases]
      BY <1>15, VerdictType DEF GetSyncDetails, Phases
    <2>2. body' \in [VUs -> SUBSET Details]
      BY <1>15 DEF GetSyncDetails, TypeOK, Row
    <2>3. syncDetails' \in [VUs -> SUBSET Details]
      BY <1>15 DEF GetSyncDetails, TypeOK
    <2> QED
      BY <1>15, <2>1, <2>2, <2>3 DEF GetSyncDetails, TypeOK, Locations
  <1>16. ASSUME NEW v \in VUs, PullPage(v)
        PROVE  TypeOK'
    <2>1. failedAt' \in [VUs -> SUBSET Phases]
      BY <1>16, VerdictType DEF PullPage, Phases
    <2>2. pc' \in [VUs -> Locations]
      <3>1. \E next \in {"aborted", "count"} : pc' = [pc EXCEPT ![v] = next]
        BY <1>16 DEF PullPage, ExitHereIfFailed, Goto
      <3> QED
        BY <3>1 DEF TypeOK, Locations
    <2>3. page' \in [VUs -> 0..(MaxPages - 1)]
      BY <1>16, PageType DEF PullPage
    <2>4. pageInfo' \in [VUs -> PageInfo]
      BY <1>16, PageInfoType DEF PullPage
    <2>5. pulled' \in [VUs -> SUBSET Details]
      <3>1. pulled \in [VUs -> SUBSET Details]
        BY DEF TypeOK
      <3>2. \/ pulled' = pulled
            \/ /\ NextDetail(v) \in Details
               /\ pulled' = [pulled EXCEPT ![v] = @ \cup {NextDetail(v)}]
        BY <1>16, PageOutcome
      <3> QED
        BY <3>1, <3>2
    <2>6. served' \in [VUs -> Nat]
      <3>1. \/ served' = served
            \/ \E n \in 0..MaxRecords : served' = [served EXCEPT ![v] = @ + n]
        BY <1>16, PageOutcome
      <3>2. 0..MaxRecords \subseteq Nat /\ served \in [VUs -> Nat]
        BY BoundAssumption DEF BoundAssumption, TypeOK
      <3> QED
        BY <3>1, <3>2
    <2>7. askedSince' \in [VUs -> SUBSET Windows]
      BY <1>16 DEF PullPage, PullSince, TypeOK, Row
    <2>8. refused' \in [VUs -> BOOLEAN]
      BY <1>16 DEF PullPage, Refused, TypeOK
    <2> QED
      BY <1>16, <2>1, <2>2, <2>3, <2>4, <2>5, <2>6, <2>7, <2>8 DEF PullPage, TypeOK
  <1>17. ASSUME NEW v \in VUs, PullDone(v)
        PROVE  TypeOK'
    BY <1>17 DEF PullDone, TypeOK, Locations
  <1>22. ASSUME NEW v \in VUs, NextLoop(v)
        PROVE  TypeOK'
    <2>1. page' \in [VUs -> 0..(MaxPages - 1)] /\ pageInfo' \in [VUs -> PageInfo]
      BY <1>22, FirstPageType DEF NextLoop, LoopStart
    <2> QED
      BY <1>22, <2>1 DEF NextLoop, TypeOK, Locations
  <1>23. ASSUME NEW v \in VUs, CountPage(v)
        PROVE  TypeOK'
    <2>1. recordsPulled \in [VUs -> Nat] /\ pageInfo[v].recordCount \in Nat
      BY DEF TypeOK, PageInfo
    <2>2. recordsPulled' \in [VUs -> Nat]
      BY <1>23, <2>1 DEF CountPage
    <2> QED
      BY <1>23, <2>2 DEF CountPage, TypeOK, Locations
  <1>24. ASSUME NEW v \in VUs, LoopDone(v)
        PROVE  TypeOK'
    <2>1. NextDetail(v) \in Details
      BY <1>24, FirstDueDetail DEF LoopDone, DueDetails, TypeOK
    <2>2. walked' \in [VUs -> SUBSET Details]
      BY <1>24, <2>1 DEF LoopDone, TypeOK
    <2> QED
      BY <1>24, <2>2 DEF LoopDone, TypeOK, Locations
  <1>18. ASSUME NEW v \in VUs, PostSyncTelemetry(v)
        PROVE  TypeOK'
    <2>1. failedAt' \in [VUs -> SUBSET Phases]
      BY <1>18, VerdictType DEF PostSyncTelemetry, Phases
    <2> QED
      BY <1>18, <2>1 DEF PostSyncTelemetry, TypeOK, Locations
  <1>19. ASSUME NEW v \in VUs, RecordSyncResult(v)
        PROVE  TypeOK'
    <2>1. syncResults' \subseteq ResultRow
      <3>1. recordsPulled[v] \in Nat /\ fullSync[v] \in BOOLEAN /\ syncResults \subseteq ResultRow
        BY DEF TypeOK
      <3>2. syncResults' = syncResults \cup
              {[vu |-> v, records |-> recordsPulled[v], full |-> fullSync[v]]}
        BY <1>19 DEF RecordSyncResult
      <3> QED
        BY <3>1, <3>2 DEF ResultRow
    <2>2. pc' \in [VUs -> Locations]
      BY <1>19 DEF RecordSyncResult, TypeOK, Locations
    <2>3. UNCHANGED <<cacheVars, pushVars, pullVars, sessionVars, fed, report, failedAt>>
      BY <1>19 DEF RecordSyncResult
    <2> QED
      BY <2>1, <2>2, <2>3 DEF TypeOK
  <1>20. CASE After
    BY <1>20 DEF After, TypeOK
  <1>21. CASE UNCHANGED vars
    BY <1>21 DEF vars, TypeOK
  <1> QED
    BY <1>1, <1>2, <1>3, <1>4, <1>5, <1>6, <1>7, <1>8, <1>9, <1>10, <1>11, <1>12, <1>13, <1>14, <1>15, <1>16,
       <1>17, <1>18, <1>19, <1>20, <1>21, <1>22, <1>23, <1>24 DEF Next, Step, RunOver

\* Nothing leaves its type in any run: in particular no page index passes the
\* pages an entity has, and no media counter goes below zero.
THEOREM TypeCorrect == Spec => []TypeOK
  BY InitTypeOK, StepTypeOK, PTL DEF Spec

-----------------------------------------------------------------------------
(* The inductive invariant: what the session of one virtual user remembers. *)

NotStarted == {"idle", "bootstrap", "bootstrapping", "seed", "seeding",
               "assemble", "tally", "store", "start"}
NotAsked == NotStarted \cup {"media", "push", "reset", "details"}
Paging == {"pull", "loop", "count"}
Reported == {"telemetry", "record", "done"}

\* Before its sync starts a virtual user has pushed nothing and read nothing;
\* before it asks it has been told nothing.
Untouched(v) ==
    /\ pc[v] \in NotStarted => /\ attempts[v] = NothingPushed
                               /\ accepted[v] = NothingPushed
                               /\ served[v] = 0
    /\ pc[v] \in NotAsked => /\ syncDetails[v] = {} /\ walked[v] = {}
                             /\ pulled[v] = {} /\ body[v] = {}

\* No loop overshoots, only a failed push loses a record, and the loops have
\* run out when the push is over.
PushHistory(v) ==
    /\ \A k \in Kinds : attempts[v][k] <= pushCounts[v][k]
    /\ "push" \notin failedAt[v] => accepted[v] = attempts[v]
    /\ pc[v] \in {"reset", "details"} \cup Paging \cup Reported
          => attempts[v] = pushCounts[v]

\* A session that asks is not marked failed, and the session of a sync whose
\* page has arrived is not either.
FailureHistory(v) ==
    /\ pc[v] \in {"details"} \cup Paging \cup Reported
          => failedAt[v] \cap Uploading = {}
    /\ pc[v] \in {"details", "count"} => failedAt[v] = {}

\* A page that arrived is counted once, before the next is asked for; a loop is
\* left only when its last page has arrived, and every due detail has a loop.
PullHistory(v) ==
    /\ recordsPulled[v] <= served[v]
    /\ pc[v] \notin {"count", "aborted"} => recordsPulled[v] = served[v]
    /\ pc[v] = "count" => recordsPulled[v] + pageInfo[v].recordCount = served[v]
    /\ walked[v] \subseteq pulled[v]
    /\ pulled[v] \subseteq syncDetails[v] \cap Table
    /\ pc[v] \in {"loop", "count"} /\ ~pageInfo[v].hasMore => NextDetail(v) \in pulled[v]
    /\ pc[v] \in Reported => pulled[v] = syncDetails[v] \cap Table

SessionInv(v) == Untouched(v) /\ PushHistory(v) /\ FailureHistory(v) /\ PullHistory(v)

IInv == TypeOK /\ (\A v \in VUs : SessionInv(v)) /\ RowsCoverTheirPull /\ OneBodyPerAccount

-----------------------------------------------------------------------------
(* A step of one virtual user leaves the sessions of the others alone.      *)

SameSession(w) ==
    /\ pc'[w] = pc[w] /\ row'[w] = row[w] /\ failedAt'[w] = failedAt[w]
    /\ fullSync'[w] = fullSync[w] /\ body'[w] = body[w]
    /\ pushCounts'[w] = pushCounts[w]
    /\ attempts'[w] = attempts[w] /\ accepted'[w] = accepted[w]
    /\ syncDetails'[w] = syncDetails[w] /\ pulled'[w] = pulled[w]
    /\ walked'[w] = walked[w] /\ pageInfo'[w] = pageInfo[w]
    /\ recordsPulled'[w] = recordsPulled[w] /\ served'[w] = served[w]

\* The detail a loop is about depends on the answer and on what was walked.
LEMMA SameDetail ==
  ASSUME NEW w \in VUs, syncDetails'[w] = syncDetails[w], walked'[w] = walked[w]
  PROVE  NextDetail(w)' = NextDetail(w)
  <1>1. DueDetails(w)' = DueDetails(w)
    BY DEF DueDetails
  <1> QED
    BY <1>1 DEF NextDetail

\* A failed request is remembered.
LEMMA FailureIsKept ==
  ASSUME TypeOK, NEW v \in VUs, NEW phase \in Phases,
         Fail(v, phase) \/ MarkAsFailed(v, phase)
  PROVE  failedAt' = [failedAt EXCEPT ![v] = @ \cup {phase}] /\ phase \in failedAt'[v]
  BY DEF TypeOK, Fail, MarkAsFailed

\* What one virtual user does changes no session but its own.
LEMMA OthersUntouched ==
  ASSUME TypeOK, NEW v \in VUs, Arrive(v) \/ Step(v), NEW w \in VUs, w # v
  PROVE  SameSession(w)
  <1> USE DEF Goto, cacheVars, pushVars, pullVars, pageVars, detailVars, sessionVars, runVars, SameSession
  <1>1. CASE Arrive(v)
    BY <1>1 DEF Arrive, TypeOK
  <1>2. CASE CheckStatuses(v)
    BY <1>2 DEF CheckStatuses, TypeOK
  <1>3. CASE BootstrapReply(v)
    BY <1>3 DEF BootstrapReply, Pass, Fail, MarkAsFailed, TypeOK
  <1>4. CASE CheckSeed(v)
    BY <1>4 DEF CheckSeed, TypeOK
  <1>5. CASE SeedReplies(v)
    BY <1>5 DEF SeedReplies, Pass, Fail, MarkAsFailed, TypeOK
  <1>6. CASE AssembleSeed(v)
    BY <1>6 DEF AssembleSeed, Pass, Fail, MarkAsFailed, TypeOK
  <1>7. CASE TallyMissing(v)
    BY <1>7 DEF TallyMissing, TypeOK
  <1>8. CASE StoreSeed(v)
    BY <1>8 DEF StoreSeed, TypeOK
  <1>9. CASE StartSync(v)
    BY <1>9 DEF StartSync, TypeOK
  <1>10. CASE RequestUploadUrl(v)
    BY <1>10 DEF RequestUploadUrl, Pass, Fail, MarkAsFailed, TypeOK
  <1>11. CASE MediaDone(v)
    BY <1>11 DEF MediaDone, TypeOK
  <1>12. CASE PushRecord(v)
    BY <1>12 DEF PushRecord, Pass, Fail, MarkAsFailed, TypeOK
  <1>13. CASE PushDone(v)
    BY <1>13 DEF PushDone, TypeOK
  <1>14. CASE ResetSyncPage(v)
    BY <1>14 DEF ResetSyncPage, Pass, Fail, MarkAsFailed, TypeOK
  <1>15. CASE GetSyncDetails(v)
    BY <1>15 DEF GetSyncDetails, Pass, Fail, MarkAsFailed, TypeOK
  <1>16. CASE PullPage(v)
    <2>1. /\ pulled \in [VUs -> SUBSET Details] /\ served \in [VUs -> Nat]
          /\ pageInfo \in [VUs -> PageInfo]
          /\ pc \in [VUs -> Locations] /\ failedAt \in [VUs -> SUBSET Phases]
      BY DEF TypeOK
    <2>2. pulled'[w] = pulled[w] /\ served'[w] = served[w] /\ pageInfo'[w] = pageInfo[w]
      BY <1>16, <2>1, PageOutcome
    <2>3. \E place : pc' = [pc EXCEPT ![v] = place]
      BY <1>16, PageOutcome
    <2>4. failedAt' = failedAt \/ failedAt' = [failedAt EXCEPT ![v] = @ \cup {"pull"}]
      BY <1>16, PageOutcome DEF Pass, Fail, MarkAsFailed
    <2>5. pc'[w] = pc[w] /\ failedAt'[w] = failedAt[w]
      BY <2>1, <2>3, <2>4
    <2> QED
      BY <1>16, <2>2, <2>5 DEF PullPage
  <1>17. CASE PullDone(v)
    BY <1>17 DEF PullDone, TypeOK
  <1>20. CASE NextLoop(v)
    BY <1>20 DEF NextLoop, TypeOK
  <1>21. CASE CountPage(v)
    BY <1>21 DEF CountPage, TypeOK
  <1>22. CASE LoopDone(v)
    BY <1>22 DEF LoopDone, TypeOK
  <1>18. CASE PostSyncTelemetry(v)
    BY <1>18 DEF PostSyncTelemetry, Pass, Fail, MarkAsFailed, TypeOK
  <1>19. CASE RecordSyncResult(v)
    BY <1>19 DEF RecordSyncResult, TypeOK
  <1> QED
    BY <1>1, <1>2, <1>3, <1>4, <1>5, <1>6, <1>7, <1>8, <1>9, <1>10, <1>11, <1>12, <1>13, <1>14, <1>15, <1>16, <1>17, <1>18,
       <1>19, <1>20, <1>21, <1>22 DEF Step

\* The session invariant holds of a virtual user not yet injected.
LEMMA InitSession == Init => \A v \in VUs : SessionInv(v)
  BY DEF Init, SessionInv, Untouched, PushHistory, FailureHistory, PullHistory,
         NotStarted, NotAsked, Paging, Reported, NothingPushed, Uploading

\* A virtual user's own step keeps its session invariant.
LEMMA OwnStep ==
  ASSUME TypeOK, NEW v \in VUs, SessionInv(v), Arrive(v) \/ Step(v)
  PROVE  SessionInv(v)'
  <1> USE DEF Goto, cacheVars, pushVars, pullVars, pageVars, detailVars, sessionVars, runVars,
              SessionInv, Untouched, PushHistory, FailureHistory, PullHistory,
              NotStarted, NotAsked, Paging, Reported, Uploading
  <1>1. CASE Arrive(v)
    BY <1>1 DEF Arrive, TypeOK
  <1>2. CASE CheckStatuses(v)
    BY <1>2 DEF CheckStatuses, TypeOK
  <1>3. CASE BootstrapReply(v)
    BY <1>3 DEF BootstrapReply, Pass, Fail, MarkAsFailed, TypeOK
  <1>4. CASE CheckSeed(v)
    BY <1>4 DEF CheckSeed, TypeOK
  <1>5. CASE SeedReplies(v)
    BY <1>5 DEF SeedReplies, Pass, Fail, MarkAsFailed, TypeOK
  <1>6. CASE AssembleSeed(v)
    BY <1>6 DEF AssembleSeed, Pass, Fail, MarkAsFailed, TypeOK
  <1>7. CASE TallyMissing(v)
    BY <1>7 DEF TallyMissing, TypeOK
  <1>8. CASE StoreSeed(v)
    BY <1>8 DEF StoreSeed, TypeOK
  <1>9. CASE StartSync(v)
    <2>1. pc[v] = "start" /\ pc'[v] = "media"
      BY <1>9 DEF StartSync, TypeOK
    <2>2. recordsPulled'[v] = 0
      BY <1>9 DEF StartSync, TypeOK
    <2>3. pushCounts'[v] \in [Kinds -> Nat] /\ attempts' = attempts
      BY <1>9, StepTypeOK DEF StartSync, TypeOK, Counts, Next, Step
    <2>4. \A k \in Kinds : attempts'[v][k] <= pushCounts'[v][k]
      BY <2>1, <2>3 DEF NothingPushed
    <2> QED
      BY <1>9, <2>1, <2>2, <2>4 DEF StartSync
  <1>10. CASE RequestUploadUrl(v)
    BY <1>10 DEF RequestUploadUrl, Pass, Fail, MarkAsFailed, TypeOK
  <1>11. CASE MediaDone(v)
    BY <1>11 DEF MediaDone, TypeOK
  <1>12. CASE PushRecord(v)
    <2> DEFINE k == NextKind(v)
    <2>1. k \in Kinds /\ attempts[v][k] < pushCounts[v][k]
      BY <1>12, FirstDueKind DEF PushRecord, DueKinds
    <2>2. /\ attempts[v] \in [Kinds -> Nat] /\ accepted[v] \in [Kinds -> Nat]
          /\ pushCounts[v] \in [Kinds -> Nat]
      BY DEF TypeOK, Counts
    <2>3. /\ pc[v] = "push" /\ pc' = pc /\ pushCounts' = pushCounts
          /\ attempts'[v] = [attempts[v] EXCEPT ![k] = @ + 1]
      BY <1>12 DEF PushRecord, TypeOK
    <2>4. \A o \in Kinds : attempts'[v][o] <= pushCounts'[v][o]
      BY <2>1, <2>2, <2>3
    <2>5. \/ /\ failedAt' = failedAt
             /\ accepted'[v] = [accepted[v] EXCEPT ![k] = @ + 1]
          \/ "push" \in failedAt'[v]
      <3>1. \/ Pass /\ accepted' = [accepted EXCEPT ![v][k] = @ + 1]
            \/ Fail(v, "push") \/ MarkAsFailed(v, "push")
        BY <1>12 DEF PushRecord
      <3>2. CASE Pass /\ accepted' = [accepted EXCEPT ![v][k] = @ + 1]
        BY <3>2 DEF Pass, TypeOK
      <3>3. CASE Fail(v, "push") \/ MarkAsFailed(v, "push")
        BY <3>3, FailureIsKept DEF Phases
      <3> QED
        BY <3>1, <3>2, <3>3
    <2>6. "push" \notin failedAt'[v] => accepted'[v] = attempts'[v]
      BY <2>2, <2>3, <2>5
    <2> QED
      BY <1>12, <2>3, <2>4, <2>6 DEF PushRecord
  <1>13. CASE PushDone(v)
    <2>1. \A k \in Kinds : attempts[v][k] = pushCounts[v][k]
      <3>1. \A k \in Kinds : attempts[v][k] \in Nat /\ pushCounts[v][k] \in Nat
        BY DEF TypeOK, Counts
      <3> QED
        BY <1>13, <3>1 DEF PushDone, DueKinds
    <2>2. attempts[v] = pushCounts[v]
      BY <2>1 DEF TypeOK, Counts
    <2>3. pc[v] = "push" /\ pc'[v] = "reset"
      BY <1>13 DEF PushDone, TypeOK
    <2> QED
      BY <1>13, <2>2, <2>3 DEF PushDone
  <1>14. CASE ResetSyncPage(v)
    BY <1>14 DEF ResetSyncPage, Pass, Fail, MarkAsFailed, ExitHereIfFailed, TypeOK
  <1>15. CASE GetSyncDetails(v)
    <2>1. /\ pc[v] = "details" /\ pc'[v] = "pull" /\ failedAt[v] = {}
          /\ walked[v] = {} /\ pulled[v] = {} /\ recordsPulled[v] = served[v]
      BY <1>15 DEF GetSyncDetails, TypeOK
    <2>2. failedAt'[v] \in {{}, {"details"}}
      <3>1. CASE Pass
        BY <2>1, <3>1 DEF Pass
      <3>2. CASE Fail(v, "details")
        <4>1. "details" \in Phases
          BY DEF Phases
        <4>2. failedAt' = [failedAt EXCEPT ![v] = @ \cup {"details"}]
          BY <3>2, <4>1, FailureIsKept
        <4> QED
          BY <2>1, <4>2 DEF TypeOK
      <3> QED
        BY <1>15, <3>1, <3>2 DEF GetSyncDetails
    <2> QED
      BY <1>15, <2>1, <2>2 DEF GetSyncDetails
  <1>16. CASE PullPage(v)
    <2>1. /\ pc[v] = "loop" /\ NextDetail(v) \in syncDetails[v] \cap Table
          /\ recordsPulled[v] = served[v] /\ walked[v] \subseteq pulled[v]
          /\ pulled[v] \subseteq syncDetails[v] \cap Table
          /\ failedAt[v] \cap Uploading = {} /\ attempts[v] = pushCounts[v]
      BY <1>16, FirstDueDetail DEF PullPage, DueDetails
    <2>2. /\ syncDetails' = syncDetails /\ walked' = walked
          /\ recordsPulled' = recordsPulled /\ pushCounts' = pushCounts
          /\ attempts' = attempts /\ accepted' = accepted
      BY <1>16 DEF PullPage
    <2>3. NextDetail(v)' = NextDetail(v)
      BY <2>2, SameDetail
    <2>4. \/ /\ pc'[v] = "count" /\ failedAt'[v] = {} /\ failedAt[v] = {}
             /\ ~pageInfo'[v].hasMore => NextDetail(v) \in pulled'[v]
             /\ recordsPulled[v] + pageInfo'[v].recordCount = served'[v]
             /\ recordsPulled[v] <= served'[v]
             /\ pulled'[v] \in {pulled[v], pulled[v] \cup {NextDetail(v)}}
          \/ /\ pc'[v] = "aborted" /\ pulled'[v] = pulled[v] /\ served'[v] = served[v]
             /\ failedAt'[v] = failedAt[v] \cup {"pull"}
          \/ /\ pc'[v] = "aborted" /\ recordsPulled[v] <= served'[v]
             /\ pulled'[v] \in {pulled[v], pulled[v] \cup {NextDetail(v)}}
             /\ failedAt'[v] = failedAt[v]
      <3>0. /\ pulled \in [VUs -> SUBSET Details] /\ served \in [VUs -> Nat]
            /\ pageInfo \in [VUs -> PageInfo] /\ recordsPulled \in [VUs -> Nat]
            /\ pc \in [VUs -> Locations] /\ failedAt \in [VUs -> SUBSET Phases]
            /\ 0..MaxRecords \subseteq Nat
        BY BoundAssumption DEF BoundAssumption, TypeOK
      <3>1. CASE Fail(v, "pull") /\ Goto(v, ExitHereIfFailed(failedAt'[v], "count"))
                 /\ UNCHANGED <<pageInfo, served, pulled>>
        <4>1. failedAt' = [failedAt EXCEPT ![v] = @ \cup {"pull"}]
          BY <3>1, FailureIsKept DEF Phases
        <4>2. failedAt'[v] = failedAt[v] \cup {"pull"}
          BY <3>0, <4>1
        <4>3. pc'[v] = "aborted"
          BY <3>0, <3>1, <4>2 DEF ExitHereIfFailed
        <4> QED
          BY <3>1, <4>2, <4>3
      <3>2. ASSUME Pass, Goto(v, ExitHereIfFailed(failedAt[v], "count")),
                   NEW records \in 0..MaxRecords, NEW more \in BOOLEAN,
                   pageInfo' = [pageInfo EXCEPT
                            ![v] = [hasMore |-> more, recordCount |-> records]],
                   served' = [served EXCEPT ![v] = @ + records],
                   pulled' = IF more THEN pulled
                             ELSE [pulled EXCEPT ![v] = @ \cup {NextDetail(v)}]
            PROVE  /\ pc'[v] = "aborted" \/ (pc'[v] = "count" /\ failedAt'[v] = {})
                   /\ failedAt'[v] = failedAt[v]
                   /\ ~pageInfo'[v].hasMore => NextDetail(v) \in pulled'[v]
                   /\ recordsPulled[v] + pageInfo'[v].recordCount = served'[v]
                   /\ recordsPulled[v] <= served'[v]
                   /\ pulled'[v] \in {pulled[v], pulled[v] \cup {NextDetail(v)}}
        <4>1. /\ pc'[v] = "aborted" \/ (pc'[v] = "count" /\ failedAt'[v] = {})
              /\ failedAt'[v] = failedAt[v]
          BY <3>0, <3>2 DEF Pass, ExitHereIfFailed
        <4>2. pageInfo'[v].hasMore = more /\ pageInfo'[v].recordCount = records
          BY <3>0, <3>2
        <4>3. served'[v] = served[v] + records /\ records \in Nat /\ served[v] \in Nat
          BY <3>0, <3>2
        <4>4. CASE more
          BY <2>1, <3>2, <4>1, <4>2, <4>3, <4>4
        <4>5. CASE ~more
          <5>1. pulled'[v] = pulled[v] \cup {NextDetail(v)}
            BY <3>0, <3>2, <4>5
          <5> QED
            BY <2>1, <4>1, <4>2, <4>3, <5>1
        <4> QED
          BY <4>4, <4>5
      <3>3. \/ Fail(v, "pull") /\ Goto(v, ExitHereIfFailed(failedAt'[v], "count"))
                 /\ UNCHANGED <<pageInfo, served, pulled>>
            \/ /\ Pass /\ Goto(v, ExitHereIfFailed(failedAt[v], "count"))
               /\ \E records \in 0..MaxRecords, more \in BOOLEAN :
                     /\ pageInfo' = [pageInfo EXCEPT
                            ![v] = [hasMore |-> more, recordCount |-> records]]
                     /\ served' = [served EXCEPT ![v] = @ + records]
                     /\ pulled' = IF more THEN pulled
                                  ELSE [pulled EXCEPT ![v] = @ \cup {NextDetail(v)}]
        BY <1>16, PageOutcome
      <3> HIDE <1>16
      <3> QED
        BY <3>1, <3>2, <3>3
    <2>5. "push" \in failedAt'[v] <=> "push" \in failedAt[v]
      BY <2>4
    <2>6. Untouched(v)' /\ PushHistory(v)' /\ FailureHistory(v)'
      BY <1>16, <2>1, <2>2, <2>4, <2>5
    <2>7. PullHistory(v)'
      BY <2>1, <2>2, <2>3, <2>4
    <2> QED
      BY <2>6, <2>7
  <1>17. CASE PullDone(v)
    <2>1. /\ pc[v] = "pull" /\ pc'[v] = "telemetry"
          /\ pulled[v] = syncDetails[v] \cap Table
      BY <1>17 DEF PullDone, DueDetails, TypeOK
    <2> QED
      BY <1>17, <2>1 DEF PullDone
  <1>20. CASE NextLoop(v)
    <2>1. pc[v] = "pull" /\ pc'[v] = "loop" /\ pageInfo'[v].hasMore
      BY <1>20 DEF NextLoop, LoopStart, FIRST, TypeOK
    <2> QED
      BY <1>20, <2>1 DEF NextLoop
  <1>21. CASE CountPage(v)
    <2>1. pc[v] = "count" /\ pc'[v] = "loop" /\ recordsPulled'[v] = served[v]
      BY <1>21 DEF CountPage, TypeOK
    <2>2. NextDetail(v)' = NextDetail(v)
      BY <1>21, SameDetail DEF CountPage
    <2>3. recordsPulled'[v] <= served[v]
      BY <2>1 DEF TypeOK
    <2> QED
      BY <1>21, <2>1, <2>2, <2>3 DEF CountPage
  <1>22. CASE LoopDone(v)
    <2>1. pc[v] = "loop" /\ pc'[v] = "pull" /\ NextDetail(v) \in pulled[v]
      BY <1>22 DEF LoopDone, TypeOK
    <2>2. walked'[v] \subseteq pulled[v]
      BY <1>22, <2>1 DEF LoopDone, TypeOK
    <2> QED
      BY <1>22, <2>1, <2>2 DEF LoopDone
  <1>18. CASE PostSyncTelemetry(v)
    <2>1. pc[v] = "telemetry" /\ pc'[v] = "record"
      BY <1>18 DEF PostSyncTelemetry, TypeOK
    <2>2. UNCHANGED <<cacheVars, pushVars, pullVars, sessionVars, runVars>>
      BY <1>18 DEF PostSyncTelemetry
    <2>3. failedAt'[v] \in {failedAt[v], failedAt[v] \cup {"telemetry"}}
      BY <1>18 DEF PostSyncTelemetry, Pass, Fail, MarkAsFailed, TypeOK
    <2> QED
      BY <2>1, <2>2, <2>3
  <1>19. CASE RecordSyncResult(v)
    BY <1>19 DEF RecordSyncResult, TypeOK
  <1> QED
    BY <1>1, <1>2, <1>3, <1>4, <1>5, <1>6, <1>7, <1>8, <1>9, <1>10, <1>11, <1>12, <1>13, <1>14, <1>15, <1>16, <1>17, <1>18, <1>19,
       <1>20, <1>21, <1>22 DEF Step

\* Every step keeps every session invariant.
LEMMA SessionStep ==
  ASSUME TypeOK, \A v \in VUs : SessionInv(v), [Next]_vars
  PROVE  \A v \in VUs : SessionInv(v)'
  <1> USE DEF SessionInv, Untouched, PushHistory, FailureHistory, PullHistory,
              NotStarted, NotAsked, Paging, Reported, Uploading
  <1>1. ASSUME NEW v \in VUs, Arrive(v) \/ Step(v), NEW w \in VUs
        PROVE  SessionInv(w)'
    <2>1. CASE w = v
      BY <1>1, <2>1, OwnStep
    <2>2. CASE w # v
      <3>1. SameSession(w)
        BY <1>1, <2>2, OthersUntouched
      <3>2. NextDetail(w)' = NextDetail(w)
        BY <3>1, SameDetail DEF SameSession
      <3> QED
        BY <3>1, <3>2 DEF SameSession
    <2> QED
      BY <2>1, <2>2
  <1>2. ASSUME UNCHANGED <<pushVars, pullVars, sessionVars, pc, failedAt>>, NEW w \in VUs
        PROVE  SessionInv(w)'
    <2>1. SameSession(w)
      BY <1>2 DEF SameSession, pushVars, pullVars, pageVars, detailVars, sessionVars
    <2>2. NextDetail(w)' = NextDetail(w)
      BY <2>1, SameDetail DEF SameSession
    <2> QED
      BY <2>1, <2>2 DEF SameSession
  <1>3. After \/ UNCHANGED vars => UNCHANGED <<pushVars, pullVars, sessionVars, pc, failedAt>>
    BY DEF After, vars
  <1> QED
    BY <1>1, <1>2, <1>3 DEF Next, RunOver

-----------------------------------------------------------------------------
(* The rows of sync-durations.csv.                                          *)

\* A sync that ended does nothing more, and only its row ends it well.
LEMMA OnlyRecordingFinishes ==
  ASSUME TypeOK, NEW v \in VUs, Arrive(v) \/ Step(v)
  PROVE  /\ pc[v] \notin Ended
         /\ RecordSyncResult(v) \/ (pc'[v] # "done" /\ syncResults' = syncResults)
  <1>1. pc[v] \notin Ended
    BY DEF Step, Arrive, Ended, CheckStatuses, BootstrapReply, CheckSeed, SeedReplies,
           AssembleSeed, TallyMissing, StoreSeed, StartSync, RequestUploadUrl, MediaDone,
           PushRecord, PushDone, ResetSyncPage, GetSyncDetails,
           NextLoop, PullPage, CountPage, LoopDone, PullDone,
           PostSyncTelemetry, RecordSyncResult
  <1>2. RecordSyncResult(v) \/ syncResults' = syncResults
    BY DEF Step, Arrive, CheckStatuses, BootstrapReply, CheckSeed, SeedReplies,
           AssembleSeed, TallyMissing, StoreSeed, StartSync, RequestUploadUrl, MediaDone,
           PushRecord, PushDone, ResetSyncPage, GetSyncDetails,
           NextLoop, PullPage, CountPage, LoopDone, PullDone,
           PostSyncTelemetry, runVars
  <1>3. RecordSyncResult(v)
          \/ pc' = pc \/ \E place \in Locations \ {"done"} : pc' = [pc EXCEPT ![v] = place]
    BY DEF Step, Arrive, CheckStatuses, BootstrapReply, CheckSeed, SeedReplies,
           AssembleSeed, TallyMissing, StoreSeed, StartSync, RequestUploadUrl, MediaDone,
           PushRecord, PushDone, ResetSyncPage, GetSyncDetails,
           NextLoop, PullPage, CountPage, LoopDone, PullDone,
           PostSyncTelemetry, Goto, ExitHereIfFailed, Locations
  <1>4. RecordSyncResult(v) \/ pc'[v] # "done"
    BY <1>1, <1>3 DEF TypeOK, Ended
  <1> QED
    BY <1>1, <1>2, <1>4

\* Every step keeps the rows of sync-durations.csv true of their syncs.
LEMMA RowsStep ==
  ASSUME TypeOK, \A v \in VUs : SessionInv(v), RowsCoverTheirPull, [Next]_vars
  PROVE  RowsCoverTheirPull'
  <1> DEFINE Done == {v \in VUs : pc[v] = "done"}
  <1>1. \A r \in syncResults : r.vu \in Done
    BY DEF RowsCoverTheirPull
  <1>2. ASSUME NEW v \in VUs, Arrive(v) \/ Step(v)
        PROVE  RowsCoverTheirPull'
    <2>1. /\ pc[v] \notin Ended
          /\ \A w \in VUs \ {v} : SameSession(w)
      BY <1>2, OnlyRecordingFinishes, OthersUntouched
    <2>2. \A r \in syncResults :
             r.vu \in VUs \ {v} /\ pc'[r.vu] = "done"
      BY <1>1, <2>1 DEF Ended, SameSession
    <2>3. \A r \in syncResults : /\ pulled'[r.vu] = syncDetails'[r.vu] \cap Table
                                 /\ r.records = served'[r.vu]
                                 /\ r.full = fullSync'[r.vu]
      <3> SUFFICES ASSUME NEW r \in syncResults
                   PROVE  /\ pulled'[r.vu] = syncDetails'[r.vu] \cap Table
                          /\ r.records = served'[r.vu]
                          /\ r.full = fullSync'[r.vu]
        OBVIOUS
      <3>1. SameSession(r.vu)
        BY <2>1, <2>2
      <3>2. /\ pulled[r.vu] = syncDetails[r.vu] \cap Table
            /\ r.records = served[r.vu] /\ r.full = fullSync[r.vu]
        BY DEF RowsCoverTheirPull
      <3> QED
        BY <3>1, <3>2 DEF SameSession
    <2>4. {w \in VUs \ {v} : pc'[w] = "done"} = Done
      BY <2>1 DEF SameSession, Ended
    <2>5. CASE syncResults' = syncResults /\ pc'[v] # "done"
      <3>1. {w \in VUs : pc'[w] = "done"} = Done
        BY <2>4, <2>5
      <3> QED
        BY <2>3, <2>5, <3>1 DEF RowsCoverTheirPull
    <2>6. CASE RecordSyncResult(v)
      <3> DEFINE new == [vu |-> v, records |-> recordsPulled[v], full |-> fullSync[v]]
      <3>1. /\ syncResults' = syncResults \cup {new} /\ pc'[v] = "done"
            /\ syncDetails' = syncDetails /\ pulled' = pulled
            /\ served' = served /\ fullSync' = fullSync
        BY <2>6 DEF RecordSyncResult, TypeOK, Goto, pullVars, detailVars, sessionVars
      <3>2. pulled[v] = syncDetails[v] \cap Table /\ recordsPulled[v] = served[v]
        BY <2>6 DEF RecordSyncResult, SessionInv, PullHistory, Reported
      <3>3. {r.vu : r \in syncResults'} = {w \in VUs : pc'[w] = "done"}
        <4>1. {r.vu : r \in syncResults'} = {r.vu : r \in syncResults} \cup {v}
          <5>1. syncResults' = syncResults \cup {new} /\ new.vu = v
            BY <3>1
          <5> HIDE DEF new
          <5> QED
            BY <5>1
        <4>2. {w \in VUs : pc'[w] = "done"} = Done \cup {v}
          BY <2>4, <3>1
        <4> QED
          BY <4>1, <4>2 DEF RowsCoverTheirPull
      <3>4. \A r, s \in syncResults' : r.vu = s.vu => r = s
        BY <2>2, <3>1 DEF RowsCoverTheirPull
      <3>5. \A r \in syncResults' : /\ pulled'[r.vu] = syncDetails'[r.vu] \cap Table
                                    /\ r.records = served'[r.vu]
                                    /\ r.full = fullSync'[r.vu]
        BY <2>3, <3>1, <3>2
      <3> QED
        BY <3>3, <3>4, <3>5 DEF RowsCoverTheirPull
    <2> QED
      BY <1>2, <2>5, <2>6, OnlyRecordingFinishes
  <1>3. CASE After
    BY <1>3 DEF After, RowsCoverTheirPull, pullVars, detailVars, sessionVars
  <1>4. CASE UNCHANGED vars
    BY <1>4 DEF vars, RowsCoverTheirPull, pullVars, detailVars, sessionVars, runVars
  <1> QED
    BY <1>2, <1>3, <1>4 DEF Next, RunOver

-----------------------------------------------------------------------------
(* One status list per account.                                             *)

\* Once an account's status list is known it is never replaced (putIfAbsent).
LEMMA StatusesStick ==
  ASSUME TypeOK, NEW v \in VUs, Arrive(v) \/ Step(v),
         NEW a \in Accounts, userSyncStatuses[a] # {}
  PROVE  userSyncStatuses'[a] = userSyncStatuses[a]
  <1>1. BootstrapReply(v) \/ userSyncStatuses' = userSyncStatuses
    BY DEF Step, Arrive, CheckStatuses, CheckSeed, SeedReplies,
           AssembleSeed, TallyMissing, StoreSeed, StartSync, RequestUploadUrl, MediaDone,
           PushRecord, PushDone, ResetSyncPage, GetSyncDetails,
           NextLoop, PullPage, CountPage, LoopDone, PullDone,
           PostSyncTelemetry, RecordSyncResult, cacheVars
  <1>2. CASE BootstrapReply(v)
    BY <1>2 DEF BootstrapReply, PutIfAbsent, TypeOK
  <1> QED
    BY <1>1, <1>2

\* The body a virtual user posts is the account's status list as it is then.
LEMMA OwnBody ==
  ASSUME TypeOK, NEW v \in VUs, SessionInv(v), Arrive(v) \/ Step(v)
  PROVE  \/ body'[v] = {}
         \/ row' = row /\ body' = body
         \/ /\ row' = row /\ userSyncStatuses' = userSyncStatuses
            /\ body'[v] = userSyncStatuses[row[v].user]
  <1>1. Arrive(v) => body'[v] = {}
    BY DEF Arrive, SessionInv, Untouched, NotAsked, NotStarted
  <1>2. GetSyncDetails(v) => /\ row' = row /\ userSyncStatuses' = userSyncStatuses
                            /\ body'[v] = userSyncStatuses[row[v].user]
    BY DEF GetSyncDetails, cacheVars, TypeOK
  <1>3. Arrive(v) \/ GetSyncDetails(v) \/ (row' = row /\ body' = body)
    BY DEF Step, CheckStatuses, BootstrapReply, CheckSeed, SeedReplies,
           AssembleSeed, TallyMissing, StoreSeed, StartSync, RequestUploadUrl, MediaDone,
           PushRecord, PushDone, ResetSyncPage,
           NextLoop, PullPage, CountPage, LoopDone, PullDone,
           PostSyncTelemetry, RecordSyncResult, sessionVars
  <1> QED
    BY <1>1, <1>2, <1>3

\* Every step keeps the posted bodies of one account the same.
LEMMA BodiesStep ==
  ASSUME TypeOK, \A v \in VUs : SessionInv(v), OneBodyPerAccount, [Next]_vars
  PROVE  OneBodyPerAccount'
  <1>0. \A w \in VUs : row[w].user \in Accounts
    BY DEF TypeOK, Row
  <1>1. ASSUME NEW v \in VUs, Arrive(v) \/ Step(v),
               NEW w \in VUs, body'[w] # {}
        PROVE  body'[w] = userSyncStatuses'[row'[w].user]
    <2>1. CASE row'[w] = row[w] /\ body'[w] = body[w]
      BY <1>0, <1>1, <2>1, StatusesStick DEF OneBodyPerAccount
    <2>2. CASE w = v /\ ~(row'[w] = row[w] /\ body'[w] = body[w])
      BY <1>1, <2>2, OwnBody
    <2> QED
      BY <1>1, <2>1, <2>2, OthersUntouched DEF SameSession
  <1>2. CASE After
    BY <1>2 DEF After, OneBodyPerAccount, cacheVars, sessionVars
  <1>3. CASE UNCHANGED vars
    BY <1>3 DEF vars, OneBodyPerAccount, cacheVars, sessionVars
  <1> QED
    BY <1>1, <1>2, <1>3 DEF Next, RunOver, OneBodyPerAccount

-----------------------------------------------------------------------------
(* The sum that after() prints, a recursive function over sets of sets.      *)

\* Induction over a finite set, in the form of a collection of its subsets.
LEMMA FiniteSetInduction ==
  ASSUME NEW S, IsFiniteSet(S), NEW A, A \subseteq SUBSET S, {} \in A,
         \A s \in SUBSET S : s # {} /\ (\A x \in s : s \ {x} \in A) => s \in A
  PROVE  A = SUBSET S
  <1> DEFINE sizes == {Cardinality(s) : s \in (SUBSET S) \ A}
  <1>1. \A s \in SUBSET S : IsFiniteSet(s) /\ Cardinality(s) \in Nat
    BY FS_Subset, FS_CardinalityType
  <1>2. SUFFICES ASSUME (SUBSET S) \ A # {} PROVE FALSE
    OBVIOUS
  <1>3. sizes \in SUBSET Nat /\ sizes # {}
    BY <1>1, <1>2
  <1>4. PICK s \in (SUBSET S) \ A :
             \A t \in (SUBSET S) \ A : Cardinality(s) <= Cardinality(t)
    <2>1. PICK least \in sizes : \A size \in sizes : least <= size
      <3> HIDE DEF sizes
      <3> QED
        BY <1>3, LeastElement
    <2> QED
      BY <2>1
  <1>5. \A x \in s : s \ {x} \in A
    <2> SUFFICES ASSUME NEW x \in s, s \ {x} \notin A PROVE FALSE
      OBVIOUS
    <2>1. Cardinality(s \ {x}) = Cardinality(s) - 1
      BY <1>1, FS_RemoveElement
    <2>2. Cardinality(s) <= Cardinality(s \ {x})
      BY <1>4
    <2> QED
      BY <1>1, <2>1, <2>2
  <1> QED
    BY <1>4, <1>5

\* One entry of the sum is taken out, and the rest is summed.
Summed(u, g) ==
    [s \in SUBSET (SUBSET Kinds) |->
        IF s = {} THEN 0
        ELSE u[CHOOSE x \in s : TRUE] + g[s \ {CHOOSE x \in s : TRUE}]]
Sums(u) == CHOOSE g : g = Summed(u, g)

\* Incomplete is that sum, over everything a device can miss.
LEMMA IncompleteIs ==
  /\ Incomplete = Sums(unseedable)[SUBSET Kinds]
  /\ Incomplete' = Sums(unseedable')[SUBSET Kinds]
  BY DEF Incomplete, MapThenFoldSet, Sums, Summed

\* What a device can miss is one of finitely many sets.
LEMMA FinitelyManyGaps == IsFiniteSet(SUBSET Kinds)
  BY SeedAssumption, FS_SUBSET DEF SeedAssumption

\* The recursion has a solution: the sum of finitely many entries exists.
LEMMA SumsExist ==
  ASSUME NEW u \in [SUBSET Kinds -> Nat]
  PROVE  Sums(u) = Summed(u, Sums(u))
  <1> DEFINE Gaps == SUBSET Kinds
             Upto(g, k) == \A s \in SUBSET Gaps :
                              Cardinality(s) <= k => g[s] = Summed(u, g)[s]
             A == {k \in Nat : \E g : Upto(g, k)}
  <1>1. \A s \in SUBSET Gaps : IsFiniteSet(s) /\ Cardinality(s) \in Nat
    BY FinitelyManyGaps, FS_Subset, FS_CardinalityType
  <1>2. 0 \in A
    <2>1. ASSUME NEW s \in SUBSET Gaps, Cardinality(s) <= 0
          PROVE  s = {}
      BY <1>1, <2>1, FS_EmptySet
    <2>2. Upto([s \in SUBSET Gaps |-> 0], 0)
      BY <2>1 DEF Summed
    <2> HIDE DEF Upto
    <2> QED
      BY <2>2
  <1>3. ASSUME NEW k \in A PROVE k + 1 \in A
    <2>1. PICK g : Upto(g, k)
      BY <1>3
    <2> DEFINE h == Summed(u, g)
    <2>2. Upto(h, k + 1)
      <3> SUFFICES ASSUME NEW s \in SUBSET Gaps, Cardinality(s) <= k + 1
                   PROVE  h[s] = Summed(u, h)[s]
        OBVIOUS
      <3>1. CASE s = {}
        BY <3>1 DEF Summed
      <3>2. CASE s # {}
        <4> DEFINE x == CHOOSE y \in s : TRUE
                   rest == s \ {x}
        <4>1. x \in s /\ rest \in SUBSET Gaps
          BY <3>2
        <4>2. Cardinality(rest) = Cardinality(s) - 1
          BY <1>1, <4>1, FS_RemoveElement
        <4>3. Cardinality(rest) <= k
          BY <1>1, <4>1, <4>2
        <4>4. g[rest] = h[rest]
          BY <2>1, <4>1, <4>3
        <4>5. h[s] = u[x] + g[rest]
          BY <3>2 DEF Summed
        <4>6. Summed(u, h)[s] = u[x] + h[rest]
          BY <3>2 DEF Summed
        <4> QED
          BY <4>4, <4>5, <4>6
      <3> QED
        BY <3>1, <3>2
    <2> HIDE DEF Upto, h
    <2> QED
      BY <2>2
  <1>4. PICK n \in Nat : n = Cardinality(Gaps) /\ \A s \in SUBSET Gaps : Cardinality(s) <= n
    BY FinitelyManyGaps, FS_Subset, FS_CardinalityType
  <1>5. A = Nat
    <2>1. A \subseteq Nat /\ 0 \in A /\ \A k \in A : k + 1 \in A
      BY <1>2, <1>3
    <2> HIDE DEF A
    <2> QED
      BY <2>1, NatSetInduction
  <1>6. PICK g : Upto(g, n)
    BY <1>5
  <1> DEFINE f == [s \in SUBSET Gaps |-> g[s]]
  <1>7. f = Summed(u, f)
    <2>1. \A s \in SUBSET Gaps : g[s] = Summed(u, g)[s]
      BY <1>4, <1>6
    <2>2. \A s \in SUBSET Gaps : s # {} => s \ {CHOOSE x \in s : TRUE} \in SUBSET Gaps
      OBVIOUS
    <2>3. Summed(u, f) = Summed(u, g)
      BY <2>2 DEF Summed
    <2>4. f = [s \in SUBSET Gaps |-> Summed(u, g)[s]]
      BY <2>1
    <2> QED
      BY <2>3, <2>4 DEF Summed
  <1> HIDE DEF f
  <1> QED
    BY <1>7 DEF Sums

\* The sum is a natural number.
LEMMA SumsType ==
  ASSUME NEW u \in [SUBSET Kinds -> Nat]
  PROVE  Sums(u) \in [SUBSET (SUBSET Kinds) -> Nat]
  <1> DEFINE Gaps == SUBSET Kinds
             A == {s \in SUBSET Gaps : Sums(u)[s] \in Nat}
  <1>0. PICK f : f = Sums(u) /\ f = Summed(u, f)
    BY SumsExist
  <1>1. A \subseteq SUBSET Gaps /\ {} \in A
    BY <1>0 DEF Summed
  <1>2. ASSUME NEW s \in SUBSET Gaps, s # {}, \A x \in s : s \ {x} \in A
        PROVE  s \in A
    <2>1. PICK x \in s : x = CHOOSE y \in s : TRUE
      BY <1>2
    <2>2. f[s] = u[x] + f[s \ {x}]
      BY <1>0, <1>2, <2>1 DEF Summed
    <2>3. f[s \ {x}] \in Nat /\ u[x] \in Nat
      BY <1>0, <1>2, <2>1
    <2> QED
      BY <1>0, <2>2, <2>3
  <1>3. A = SUBSET Gaps
    <2> HIDE DEF A
    <2> QED
      BY <1>1, <1>2, FinitelyManyGaps, FiniteSetInduction
  <1>4. \A s \in SUBSET Gaps : f[s] \in Nat
    BY <1>0, <1>3
  <1>5. DOMAIN f = SUBSET Gaps
    BY <1>0 DEF Summed
  <1>6. f = [s \in SUBSET Gaps |-> f[s]]
    BY <1>0 DEF Summed
  <1> QED
    BY <1>0, <1>4, <1>6

\* One more device with one gap makes the sum one more.
LEMMA OneMoreDevice ==
  ASSUME NEW u \in [SUBSET Kinds -> Nat], NEW gap \in SUBSET Kinds
  PROVE  Sums([u EXCEPT ![gap] = @ + 1])[SUBSET Kinds] = Sums(u)[SUBSET Kinds] + 1
  <1>0. PICK w \in [SUBSET Kinds -> Nat] : w = [u EXCEPT ![gap] = @ + 1]
    <2>1. u[gap] + 1 \in Nat
      OBVIOUS
    <2>2. [u EXCEPT ![gap] = @ + 1] \in [SUBSET Kinds -> Nat]
      BY <2>1
    <2> QED
      BY <2>2
  <1>1. PICK f \in [SUBSET (SUBSET Kinds) -> Nat] : f = Sums(u) /\ f = Summed(u, f)
    BY SumsExist, SumsType
  <1>2. PICK g \in [SUBSET (SUBSET Kinds) -> Nat] : g = Sums(w) /\ g = Summed(w, g)
    BY SumsExist, SumsType
  <1> DEFINE Gaps == SUBSET Kinds
             A == {s \in SUBSET Gaps : g[s] = f[s] + IF gap \in s THEN 1 ELSE 0}
  <1>3. A \subseteq SUBSET Gaps /\ {} \in A
    BY <1>1, <1>2 DEF Summed
  <1>4. ASSUME NEW s \in SUBSET Gaps, s # {}, \A x \in s : s \ {x} \in A
        PROVE  s \in A
    <2>1. PICK x \in s : x = CHOOSE y \in s : TRUE
      BY <1>4
    <2>2. f[s] = u[x] + f[s \ {x}]
      BY <1>1, <1>4, <2>1 DEF Summed
    <2>3. g[s] = w[x] + g[s \ {x}]
      BY <1>2, <1>4, <2>1 DEF Summed
    <2>4. g[s \ {x}] = f[s \ {x}] + IF gap \in s \ {x} THEN 1 ELSE 0
      BY <1>4
    <2>5. w[x] = u[x] + IF x = gap THEN 1 ELSE 0
      BY <1>0
    <2>6. f[s \ {x}] \in Nat /\ u[x] \in Nat
      OBVIOUS
    <2>7. CASE x = gap
      BY <2>1, <2>2, <2>3, <2>4, <2>5, <2>6, <2>7
    <2>8. CASE x # gap
      <3>1. gap \in s \ {x} <=> gap \in s
        BY <2>8
      <3> QED
        BY <2>2, <2>3, <2>4, <2>5, <2>6, <2>8, <3>1
    <2> QED
      BY <2>7, <2>8
  <1>5. A = SUBSET Gaps
    <2> HIDE DEF A
    <2> QED
      BY <1>3, <1>4, FinitelyManyGaps, FiniteSetInduction
  <1>6. Gaps \in A
    BY <1>5
  <1>7. g[Gaps] = f[Gaps] + 1
    BY <1>6
  <1> QED
    BY <1>0, <1>1, <1>2, <1>7

-----------------------------------------------------------------------------
(* What is shared: seeds, the tally of gaps, and who harvested what.         *)

\* Nothing is drawn before the sync starts; what is drawn can be built as long as
\* every device of the account was harvested without loss.
CanBeBuilt(v) ==
    /\ pc[v] \in NotStarted => pushCounts[v] = NothingPushed
    /\ pc[v] \in {"media", "push"} /\ NothingLost(row[v].user)
          => \A k \in Kinds : pushCounts[v][k] > 0
                                => CanPush(userPushSeeds[row[v].user], k)

\* A virtual user has harvested nothing before its seed requests were answered, and
\* what is stored for an account is what somebody harvested on it.
Unharvested == {"idle", "bootstrap", "bootstrapping", "seed", "seeding"}
HarvestInv ==
    /\ \A v \in VUs : pc[v] \in Unharvested => harvest[v] = NoSeed
    /\ \A a \in Accounts : userPushSeeds[a] # NoSeed =>
          \E u \in VUs : row[u].user = a /\ harvest[u] = userPushSeeds[a]

\* Devices tallied as partial whose seed is not stored yet.
Tallied == {v \in VUs : pc[v] = "store" /\ harvest[v] # Kinds}
Partial == {a \in Accounts : userPushSeeds[a] \notin {NoSeed, Kinds}}

\* Every partial device, stored or about to be, is in the tally.
TallyInv ==
    /\ \A v \in VUs : pc[v] \in {"tally", "store"} => harvest[v] \in SUBSET Kinds
    /\ Cardinality(Partial) + Cardinality(Tallied) <= Incomplete

\* A virtual user once injected stays on its account, and the session that steps is
\* never idle again.
LEMMA DriversStay ==
  ASSUME TypeOK, NEW v \in VUs, Arrive(v) \/ Step(v)
  PROVE  /\ pc'[v] # "idle"
         /\ Arrive(v) \/ (pc[v] # "idle" /\ row' = row)
  <1>1. Arrive(v) \/ (pc[v] # "idle" /\ row' = row)
    BY DEF Step, CheckStatuses, BootstrapReply, CheckSeed, SeedReplies,
           AssembleSeed, TallyMissing, StoreSeed, StartSync, RequestUploadUrl, MediaDone,
           PushRecord, PushDone, ResetSyncPage, GetSyncDetails,
           NextLoop, PullPage, CountPage, LoopDone, PullDone,
           PostSyncTelemetry, RecordSyncResult, sessionVars
  <1>2. \/ pc' = pc /\ pc[v] # "idle"
        \/ \E place \in Locations \ {"idle"} : pc' = [pc EXCEPT ![v] = place]
    BY DEF Step, Arrive, CheckStatuses, BootstrapReply, CheckSeed, SeedReplies,
           AssembleSeed, TallyMissing, StoreSeed, StartSync, RequestUploadUrl, MediaDone,
           PushRecord, PushDone, ResetSyncPage, GetSyncDetails,
           NextLoop, PullPage, CountPage, LoopDone, PullDone,
           PostSyncTelemetry, RecordSyncResult, Goto, ExitHereIfFailed, Locations
  <1> QED
    BY <1>1, <1>2 DEF TypeOK

\* Only a put changes the seeds, and only of the account of who puts.
LEMMA SeedsStay ==
  ASSUME TypeOK, NEW v \in VUs, Arrive(v) \/ Step(v)
  PROVE  \/ userPushSeeds' = userPushSeeds
         \/ StoreSeed(v)
  BY DEF Step, Arrive, CheckStatuses, BootstrapReply, CheckSeed, SeedReplies,
         AssembleSeed, TallyMissing, StartSync, RequestUploadUrl, MediaDone,
         PushRecord, PushDone, ResetSyncPage, GetSyncDetails,
         NextLoop, PullPage, CountPage, LoopDone, PullDone,
         PostSyncTelemetry, RecordSyncResult, cacheVars

\* Only the seed requests' answers change what a device has harvested, and nobody
\* goes back to before them.
LEMMA HarvestStays ==
  ASSUME TypeOK, NEW v \in VUs, Arrive(v) \/ Step(v)
  PROVE  /\ \A w \in VUs \ {v} : harvest'[w] = harvest[w] /\ row'[w] = row[w]
         /\ \/ pc[v] \in Unharvested /\ pc'[v] \notin Unharvested
            \/ /\ harvest' = harvest
               /\ pc'[v] \in Unharvested => pc[v] \in Unharvested
               /\ Arrive(v) \/ row' = row
  <1>1. CASE SeedReplies(v)
    BY <1>1 DEF SeedReplies, Goto, TypeOK, Unharvested
  <1>2. CASE ~SeedReplies(v)
    <2>1. harvest' = harvest /\ (Arrive(v) \/ row' = row)
      BY <1>2 DEF Step, Arrive, CheckStatuses, BootstrapReply, CheckSeed,
             AssembleSeed, TallyMissing, StoreSeed, StartSync, RequestUploadUrl, MediaDone,
             PushRecord, PushDone, ResetSyncPage, GetSyncDetails,
             NextLoop, PullPage, CountPage, LoopDone, PullDone,
             PostSyncTelemetry, RecordSyncResult, sessionVars
    <2>2. \/ pc' = pc
          \/ \E place \in Locations : /\ pc' = [pc EXCEPT ![v] = place]
                                      /\ place \in Unharvested => pc[v] \in Unharvested
      BY <1>2 DEF Step, Arrive, CheckStatuses, BootstrapReply, CheckSeed,
             AssembleSeed, TallyMissing, StoreSeed, StartSync, RequestUploadUrl, MediaDone,
             PushRecord, PushDone, ResetSyncPage, GetSyncDetails,
             NextLoop, PullPage, CountPage, LoopDone, PullDone,
             PostSyncTelemetry, RecordSyncResult, Goto, ExitHereIfFailed, Locations, Unharvested
    <2>3. \A w \in VUs \ {v} : row'[w] = row[w]
      BY <2>1 DEF Arrive, TypeOK
    <2> QED
      BY <2>1, <2>2, <2>3 DEF TypeOK
  <1> QED
    BY <1>1, <1>2

\* Every step keeps the seeds to what was harvested on their accounts.
LEMMA HarvestStep ==
  ASSUME TypeOK, HarvestInv, [Next]_vars
  PROVE  HarvestInv'
  <1>1. ASSUME NEW v \in VUs, Arrive(v) \/ Step(v)
        PROVE  HarvestInv'
    <2>1. ASSUME NEW w \in VUs, pc'[w] \in Unharvested
          PROVE  harvest'[w] = NoSeed
      <3>1. CASE w = v
        BY <1>1, <2>1, <3>1, HarvestStays DEF HarvestInv
      <3>2. CASE w # v
        <4>1. pc'[w] = pc[w]
          BY <1>1, <3>2, OthersUntouched DEF SameSession
        <4> QED
          BY <1>1, <2>1, <3>2, <4>1, HarvestStays DEF HarvestInv
      <3> QED
        BY <3>1, <3>2
    <2>2. ASSUME NEW a \in Accounts, NEW u \in VUs, userPushSeeds[a] # NoSeed,
                 row[u].user = a, harvest[u] = userPushSeeds[a]
          PROVE  row'[u].user = a /\ harvest'[u] = harvest[u]
      <3>1. CASE u = v
        <4>1. pc[v] \notin Unharvested
          BY <2>2, <3>1 DEF HarvestInv
        <4>2. ~Arrive(v)
          BY <4>1 DEF Arrive, Unharvested
        <4> QED
          BY <1>1, <2>2, <3>1, <4>1, <4>2, HarvestStays
      <3>2. CASE u # v
        BY <1>1, <2>2, <3>2, HarvestStays
      <3> QED
        BY <3>1, <3>2
    <2>3. CASE userPushSeeds' = userPushSeeds
      BY <2>1, <2>2, <2>3 DEF HarvestInv
    <2>4. CASE StoreSeed(v)
      <3>1. /\ userPushSeeds' = [userPushSeeds EXCEPT ![row[v].user] = harvest[v]]
            /\ row' = row /\ harvest' = harvest
        BY <2>4 DEF StoreSeed, sessionVars
      <3>2. ASSUME NEW a \in Accounts, userPushSeeds'[a] # NoSeed
            PROVE  \E u \in VUs : row'[u].user = a /\ harvest'[u] = userPushSeeds'[a]
        <4>1. CASE a = row[v].user
          BY <3>1, <4>1 DEF TypeOK
        <4>2. CASE a # row[v].user
          <5>1. userPushSeeds'[a] = userPushSeeds[a]
            BY <3>1, <4>2 DEF TypeOK
          <5> QED
            BY <3>1, <3>2, <5>1 DEF HarvestInv
        <4> QED
          BY <4>1, <4>2
      <3> QED
        BY <2>1, <3>2 DEF HarvestInv
    <2> QED
      BY <1>1, <2>3, <2>4, SeedsStay
  <1>2. CASE After
    BY <1>2 DEF After, HarvestInv, cacheVars, sessionVars
  <1>3. CASE UNCHANGED vars
    BY <1>3 DEF vars, HarvestInv, cacheVars, sessionVars
  <1> QED
    BY <1>1, <1>2, <1>3 DEF Next, RunOver

\* A harvest that was lost stays lost: an account all of whose harvests are whole
\* after a step had only whole ones before it.
LEMMA LossesStay ==
  ASSUME TypeOK, HarvestInv, NEW v \in VUs, Arrive(v) \/ Step(v),
         NEW a \in Accounts, NothingLost(a)'
  PROVE  NothingLost(a)
  <1> SUFFICES ASSUME NEW w \in VUs, row[w].user = a
               PROVE  harvest[w] \in {NoSeed, Holds[a]}
    BY DEF NothingLost
  <1>1. CASE harvest[w] = NoSeed
    BY <1>1
  <1>2. CASE harvest[w] # NoSeed
    <2>1. pc[w] \notin Unharvested
      BY <1>2 DEF HarvestInv
    <2>2. row'[w] = row[w] /\ harvest'[w] = harvest[w]
      <3>1. CASE w = v
        <4>1. ~Arrive(v)
          BY <2>1, <3>1 DEF Arrive, Unharvested
        <4> QED
          BY <2>1, <3>1, <4>1, HarvestStays
      <3>2. CASE w # v
        BY <3>2, HarvestStays
      <3> QED
        BY <3>1, <3>2
    <2> QED
      BY <2>2 DEF NothingLost
  <1> QED
    BY <1>1, <1>2

\* What is stored for an account none of whose harvests was lost is all it holds.
LEMMA WholeSeeds ==
  ASSUME HarvestInv, NEW a \in Accounts, NothingLost(a), userPushSeeds[a] # NoSeed
  PROVE  userPushSeeds[a] = Holds[a]
  BY DEF HarvestInv, NothingLost

\* Where the volumes of a push are drawn and where they are not.
LEMMA CountsStay ==
  ASSUME TypeOK, NEW v \in VUs, Arrive(v) \/ Step(v)
  PROVE  \/ StartSync(v)
         \/ /\ pushCounts' = pushCounts
            /\ pc'[v] \in NotStarted => pc[v] \in NotStarted
            /\ pc'[v] \in {"media", "push"} => pc[v] \in {"media", "push"}
  <1>1. StartSync(v) \/ pushCounts' = pushCounts
    BY DEF Step, Arrive, CheckStatuses, BootstrapReply, CheckSeed, SeedReplies,
           AssembleSeed, TallyMissing, StoreSeed, RequestUploadUrl, MediaDone,
           PushRecord, PushDone, ResetSyncPage, GetSyncDetails,
           NextLoop, PullPage, CountPage, LoopDone, PullDone,
           PostSyncTelemetry, RecordSyncResult, pushVars
  <1>2. \/ StartSync(v)
        \/ pc' = pc
        \/ \E place \in Locations : /\ pc' = [pc EXCEPT ![v] = place]
                                    /\ place \in NotStarted => pc[v] \in NotStarted
                                    /\ place \in {"media", "push"} => pc[v] \in {"media", "push"}
    BY DEF Step, Arrive, CheckStatuses, BootstrapReply, CheckSeed, SeedReplies,
           AssembleSeed, TallyMissing, StoreSeed, RequestUploadUrl, MediaDone,
           PushRecord, PushDone, ResetSyncPage, GetSyncDetails,
           NextLoop, PullPage, CountPage, LoopDone, PullDone,
           PostSyncTelemetry, RecordSyncResult, Goto, ExitHereIfFailed, Locations, NotStarted
  <1> QED
    BY <1>1, <1>2 DEF TypeOK

\* Every step keeps what is drawn within what can be built.
LEMMA BuiltStep ==
  ASSUME TypeOK, TallyInv, HarvestInv, \A v \in VUs : CanBeBuilt(v), [Next]_vars
  PROVE  \A v \in VUs : CanBeBuilt(v)'
  <1>1. ASSUME NEW v \in VUs, Arrive(v) \/ Step(v), NEW w \in VUs
        PROVE  CanBeBuilt(w)'
    <2>1. CASE w = v /\ StartSync(v)
      <3>1. pc'[v] = "media" /\ userPushSeeds' = userPushSeeds /\ row' = row
        BY <2>1 DEF StartSync, Goto, TypeOK, cacheVars
      <3>2. \/ pushCounts'[v] \in DrawPushCounts(userPushSeeds[row[v].user])
            \/ pushCounts'[v] = NothingPushed
        <4>1. pc[v] \in NotStarted
          BY <2>1 DEF StartSync, NotStarted
        <4>2. CASE PushEnabled
          BY <2>1, <4>2 DEF StartSync, TypeOK
        <4>3. CASE ~PushEnabled
          BY <2>1, <4>1, <4>3 DEF StartSync, CanBeBuilt
        <4> QED
          BY <4>2, <4>3
      <3>3. \A k \in Kinds : pushCounts'[v][k] > 0 => CanPush(userPushSeeds[row[v].user], k)
        BY <3>2 DEF DrawPushCounts, NothingPushed
      <3>4. \A k \in Kinds : pushCounts'[v][k] > 0 => CanPush(userPushSeeds'[row'[v].user], k)
        BY <3>1, <3>3
      <3>5. pc'[v] \notin NotStarted
        BY <3>1 DEF NotStarted
      <3> QED
        BY <2>1, <3>4, <3>5 DEF CanBeBuilt, CanPush
    <2>2. CASE ~(w = v /\ StartSync(v))
      <3>1. /\ pushCounts'[w] = pushCounts[w]
            /\ pc'[w] \in NotStarted => pc[w] \in NotStarted
            /\ pc'[w] \in {"media", "push"} => pc[w] \in {"media", "push"}
        <4>1. CASE w = v
          BY <1>1, <2>2, <4>1, CountsStay
        <4>2. CASE w # v
          BY <1>1, <4>2, OthersUntouched DEF SameSession
        <4> QED
          BY <4>1, <4>2
      <3>2. pc'[w] \in NotStarted => pushCounts'[w] = NothingPushed
        BY <3>1 DEF CanBeBuilt
      <3>3. ASSUME pc'[w] \in {"media", "push"}, NothingLost(row[w].user)',
                   NEW k \in Kinds, pushCounts'[w][k] > 0
            PROVE  CanPush(userPushSeeds'[row'[w].user], k)
        <4>1. pc[w] \in {"media", "push"} /\ pushCounts[w][k] > 0
          BY <3>1, <3>3
        <4>2. PICK a \in Accounts : a = row[w].user
          BY DEF TypeOK, Row
        <4>3. row'[w] = row[w]
          <5>1. CASE w = v
            BY <1>1, <4>1, <5>1, DriversStay DEF Arrive
          <5>2. CASE w # v
            BY <1>1, <5>2, OthersUntouched DEF SameSession
          <5> QED
            BY <5>1, <5>2
        <4>4. NothingLost(a)'
          BY <3>3, <4>2, <4>3
        <4>5. NothingLost(a)
          BY <1>1, <4>4, LossesStay
        <4>6. CanPush(userPushSeeds[a], k)
          BY <4>1, <4>2, <4>5 DEF CanBeBuilt
        <4>7. userPushSeeds'[a] = userPushSeeds[a]
          <5>1. CASE StoreSeed(v) /\ row[v].user = a
            <6>1. /\ userPushSeeds'[a] = harvest[v]
                  /\ harvest[v] \in SUBSET Kinds
              BY <5>1 DEF StoreSeed, TypeOK, TallyInv
            <6>2. harvest[v] = Holds[a]
              BY <4>5, <5>1, <6>1, SeedAssumption DEF SeedAssumption, NothingLost
            <6>3. userPushSeeds[a] = Holds[a]
              BY <4>5, <4>6, WholeSeeds DEF CanPush
            <6> QED
              BY <6>1, <6>2, <6>3
          <5>2. CASE StoreSeed(v) /\ row[v].user # a
            BY <5>2 DEF StoreSeed, TypeOK
          <5> QED
            BY <1>1, <5>1, <5>2, SeedsStay
        <4> QED
          BY <4>2, <4>3, <4>6, <4>7
      <3> QED
        BY <3>2, <3>3 DEF CanBeBuilt, CanPush
    <2> QED
      BY <2>1, <2>2
  <1>2. CASE After
    BY <1>2 DEF After, CanBeBuilt, CanPush, NothingLost, cacheVars, pushVars, sessionVars
  <1>3. CASE UNCHANGED vars
    BY <1>3 DEF vars, CanBeBuilt, CanPush, NothingLost, cacheVars, pushVars, sessionVars
  <1> QED
    BY <1>1, <1>2, <1>3 DEF Next, RunOver

\* The sum is a natural number and counts a tallied gap.
LEMMA IncompleteCounts ==
  ASSUME TypeOK
  PROVE  /\ Incomplete \in Nat
         /\ \A gap \in SUBSET Kinds :
              unseedable' = [unseedable EXCEPT ![gap] = @ + 1] => Incomplete' = Incomplete + 1
  <1>1. unseedable \in [SUBSET Kinds -> Nat]
    BY DEF TypeOK
  <1>2. Sums(unseedable)[SUBSET Kinds] \in Nat
    <2>1. Sums(unseedable) \in [SUBSET (SUBSET Kinds) -> Nat]
      BY <1>1, SumsType
    <2> QED
      BY <2>1
  <1>3. ASSUME NEW gap \in SUBSET Kinds,
               unseedable' = [unseedable EXCEPT ![gap] = @ + 1]
        PROVE  Incomplete' = Incomplete + 1
    <2>1. Sums([unseedable EXCEPT ![gap] = @ + 1])[SUBSET Kinds] =
             Sums(unseedable)[SUBSET Kinds] + 1
      BY <1>1, OneMoreDevice
    <2> QED
      BY <1>3, <2>1, IncompleteIs
  <1> QED
    BY <1>2, <1>3, IncompleteIs

\* There are finitely many partial devices and tallied ones, before and after a step.
LEMMA PartialIs ==
  /\ IsFiniteSet(Partial) /\ Cardinality(Partial) \in Nat
  /\ IsFiniteSet(Partial') /\ Cardinality(Partial)' \in Nat
  /\ IsFiniteSet(Tallied) /\ Cardinality(Tallied) \in Nat
  /\ IsFiniteSet(Tallied') /\ Cardinality(Tallied)' \in Nat
  <1>1. IsFiniteSet(Accounts) /\ IsFiniteSet(VUs)
    BY FileAssumption, PopulationAssumption, FS_Union
    DEF FileAssumption, PopulationAssumption, VUs
  <1>2. /\ Partial \subseteq Accounts /\ Partial' \subseteq Accounts
        /\ Tallied \subseteq VUs /\ Tallied' \subseteq VUs
    BY DEF Partial, Tallied
  <1>3. /\ IsFiniteSet(Partial) /\ IsFiniteSet(Partial')
        /\ IsFiniteSet(Tallied) /\ IsFiniteSet(Tallied')
    BY <1>1, <1>2, FS_Subset
  <1> QED
    BY <1>3, FS_CardinalityType

\* Everything but a harvest, a tally and a put leaves the tally as it is.
LEMMA TallyStays ==
  ASSUME TypeOK, NEW v \in VUs, Arrive(v) \/ Step(v)
  PROVE  \/ TallyMissing(v) \/ StoreSeed(v)
         \/ /\ userPushSeeds' = userPushSeeds /\ unseedable' = unseedable
            /\ pc[v] # "store" /\ pc'[v] # "store"
            /\ \A w \in VUs \ {v} : harvest'[w] = harvest[w]
            /\ pc'[v] = "tally" => harvest'[v] = harvest[v] /\ harvest[v] # NoSeed
  <1>1. \/ TallyMissing(v) \/ StoreSeed(v)
        \/ userPushSeeds' = userPushSeeds /\ unseedable' = unseedable
    BY DEF Step, Arrive, CheckStatuses, BootstrapReply, CheckSeed, SeedReplies,
           AssembleSeed, StartSync, RequestUploadUrl, MediaDone,
           PushRecord, PushDone, ResetSyncPage, GetSyncDetails,
           NextLoop, PullPage, CountPage, LoopDone, PullDone,
           PostSyncTelemetry, RecordSyncResult, cacheVars
  <1>2. TallyMissing(v) \/ StoreSeed(v) \/ pc[v] # "store"
    BY DEF Step, Arrive, CheckStatuses, BootstrapReply, CheckSeed, SeedReplies,
           AssembleSeed, StartSync, RequestUploadUrl, MediaDone,
           PushRecord, PushDone, ResetSyncPage, GetSyncDetails,
           NextLoop, PullPage, CountPage, LoopDone, PullDone,
           PostSyncTelemetry, RecordSyncResult
  <1>3. \/ TallyMissing(v) \/ StoreSeed(v)
        \/ pc' = pc /\ pc[v] \in {"media", "push"}
        \/ \E place \in Locations \ {"store", "tally"} : pc' = [pc EXCEPT ![v] = place]
        \/ AssembleSeed(v)
    BY DEF Step, Arrive, CheckStatuses, BootstrapReply, CheckSeed, SeedReplies,
           StartSync, RequestUploadUrl, MediaDone,
           PushRecord, PushDone, ResetSyncPage, GetSyncDetails,
           NextLoop, PullPage, CountPage, LoopDone, PullDone,
           PostSyncTelemetry, RecordSyncResult, Goto, ExitHereIfFailed, Locations
  <1>4. SeedReplies(v) \/ harvest' = harvest
    BY DEF Step, Arrive, CheckStatuses, BootstrapReply, CheckSeed,
           AssembleSeed, TallyMissing, StoreSeed, StartSync, RequestUploadUrl, MediaDone,
           PushRecord, PushDone, ResetSyncPage, GetSyncDetails,
           NextLoop, PullPage, CountPage, LoopDone, PullDone,
           PostSyncTelemetry, RecordSyncResult, sessionVars
  <1>5. \A w \in VUs \ {v} : harvest'[w] = harvest[w]
    BY <1>4 DEF SeedReplies, TypeOK
  <1>6. CASE AssembleSeed(v)
    BY <1>1, <1>2, <1>4, <1>6 DEF AssembleSeed, Goto, TypeOK, sessionVars
  <1>7. CASE ~AssembleSeed(v)
    BY <1>1, <1>2, <1>3, <1>5, <1>7 DEF TypeOK
  <1> QED
    BY <1>6, <1>7

\* Every step keeps the partial devices within the tally.
LEMMA TallyStep == TypeOK /\ TallyInv /\ [Next]_vars => TallyInv'
  <1> SUFFICES ASSUME TypeOK, TallyInv, [Next]_vars PROVE TallyInv'
    OBVIOUS
  <1> DEFINE P == Cardinality(Partial)
             T == Cardinality(Tallied)
  <1>1. P \in Nat /\ T \in Nat /\ P' \in Nat /\ T' \in Nat /\ Incomplete \in Nat
    BY PartialIs, IncompleteCounts
  <1>2. ASSUME NEW v \in VUs, Arrive(v) \/ Step(v)
        PROVE  TallyInv'
    <2>0. \A w \in VUs \ {v} : pc'[w] = pc[w]
      BY <1>2, OthersUntouched DEF SameSession
    <2>1. CASE TallyMissing(v)
      <3>1. /\ pc[v] = "tally" /\ pc'[v] = "store" /\ harvest' = harvest
            /\ userPushSeeds' = userPushSeeds /\ harvest[v] \in SUBSET Kinds
        BY <2>1 DEF TallyMissing, Goto, TypeOK, sessionVars, TallyInv
      <3>2. \A w \in VUs : pc'[w] \in {"tally", "store"} => harvest'[w] \in SUBSET Kinds
        BY <2>0, <3>1 DEF TallyInv
      <3>3. P' = P
        BY <3>1 DEF Partial
      <3>4. CASE harvest[v] = Kinds
        <4>1. Tallied' = Tallied
          BY <2>0, <3>1, <3>4 DEF Tallied
        <4>2. unseedable' = unseedable
          BY <2>1, <3>4 DEF TallyMissing, Missing
        <4>3. Incomplete' = Incomplete
          BY <4>2, IncompleteIs
        <4> QED
          BY <3>2, <3>3, <4>1, <4>3 DEF TallyInv
      <3>5. CASE harvest[v] # Kinds
        <4>1. Tallied' = Tallied \cup {v} /\ v \notin Tallied
          BY <2>0, <3>1, <3>5 DEF Tallied
        <4>2. T' = T + 1
          BY <4>1, PartialIs, FS_AddElement
        <4>3. PICK gap \in SUBSET Kinds : unseedable' = [unseedable EXCEPT ![gap] = @ + 1]
          BY <2>1, <3>1, <3>5 DEF TallyMissing, Missing
        <4>4. Incomplete' = Incomplete + 1
          BY <4>3, IncompleteCounts
        <4>5. P' + T' <= Incomplete'
          BY <1>1, <3>3, <4>2, <4>4 DEF TallyInv
        <4> QED
          BY <3>2, <4>5 DEF TallyInv
      <3> QED
        BY <3>4, <3>5
    <2>2. CASE StoreSeed(v)
      <3>1. /\ pc[v] = "store" /\ pc'[v] = "start" /\ harvest' = harvest
            /\ unseedable' = unseedable /\ harvest[v] \in SUBSET Kinds
            /\ row[v].user \in Accounts
            /\ userPushSeeds' = [userPushSeeds EXCEPT ![row[v].user] = harvest[v]]
        BY <2>2 DEF StoreSeed, Goto, TypeOK, Row, sessionVars, TallyInv
      <3>2. \A w \in VUs : pc'[w] \in {"tally", "store"} => harvest'[w] \in SUBSET Kinds
        BY <2>0, <3>1 DEF TallyInv
      <3>3. Incomplete' = Incomplete
        BY <3>1, IncompleteIs
      <3>4. Tallied' = Tallied \ {v}
        BY <2>0, <3>1 DEF Tallied
      <3>5. CASE harvest[v] = Kinds
        <4>1. Partial' = Partial \ {row[v].user} /\ Tallied' = Tallied
          BY <3>1, <3>4, <3>5 DEF Partial, Tallied, TypeOK
        <4>2. P' <= P
          BY <4>1, PartialIs, FS_Subset
        <4>3. P' + T' <= Incomplete'
          BY <1>1, <3>3, <4>1, <4>2 DEF TallyInv
        <4> QED
          BY <3>2, <4>3 DEF TallyInv
      <3>6. CASE harvest[v] # Kinds
        <4>1. v \in Tallied
          BY <3>1, <3>6 DEF Tallied
        <4>2. T' = T - 1
          BY <3>4, <4>1, PartialIs, FS_RemoveElement
        <4>3. Partial' = Partial \cup {row[v].user}
          BY <3>1, <3>6, SeedAssumption DEF SeedAssumption, Partial, TypeOK
        <4>4. P' <= P + 1
          <5>1. CASE row[v].user \in Partial
            <6>1. Partial' = Partial
              BY <4>3, <5>1
            <6> QED
              BY <1>1, <6>1
          <5>2. CASE row[v].user \notin Partial
            BY <1>1, <4>3, <5>2, PartialIs, FS_AddElement
          <5> QED
            BY <5>1, <5>2
        <4>5. P' + T' <= Incomplete'
          BY <1>1, <3>3, <4>2, <4>4 DEF TallyInv
        <4> QED
          BY <3>2, <4>5 DEF TallyInv
      <3> QED
        BY <3>5, <3>6
    <2>3. CASE ~TallyMissing(v) /\ ~StoreSeed(v)
      <3>1. /\ userPushSeeds' = userPushSeeds /\ unseedable' = unseedable
            /\ pc[v] # "store" /\ pc'[v] # "store"
            /\ \A w \in VUs \ {v} : harvest'[w] = harvest[w]
            /\ pc'[v] = "tally" => harvest'[v] = harvest[v] /\ harvest[v] # NoSeed
        BY <1>2, <2>3, TallyStays
      <3>2. Partial' = Partial
        BY <3>1 DEF Partial
      <3>3. Tallied' = Tallied
        BY <2>0, <3>1 DEF Tallied
      <3>4. Incomplete' = Incomplete
        BY <3>1, IncompleteIs
      <3>5. \A w \in VUs : pc'[w] \in {"tally", "store"} => harvest'[w] \in SUBSET Kinds
        BY <2>0, <3>1 DEF TallyInv, TypeOK, Seeds
      <3> QED
        BY <3>2, <3>3, <3>4, <3>5 DEF TallyInv
    <2> QED
      BY <2>1, <2>2, <2>3
  <1>3. ASSUME UNCHANGED <<pc, harvest, userPushSeeds, unseedable>>
        PROVE  TallyInv'
    <2>1. Incomplete' = Incomplete
      BY <1>3, IncompleteIs
    <2> QED
      BY <1>3, <2>1 DEF TallyInv, Partial, Tallied
  <1>4. After \/ UNCHANGED vars => UNCHANGED <<pc, harvest, userPushSeeds, unseedable>>
    BY DEF After, vars, cacheVars, sessionVars
  <1> QED
    BY <1>2, <1>3, <1>4 DEF Next, RunOver

\* Nothing is seeded, tallied or drawn when the run starts.
LEMMA InitSharing == Init => TallyInv /\ HarvestInv /\ \A v \in VUs : CanBeBuilt(v)
  <1> SUFFICES ASSUME Init PROVE TallyInv /\ HarvestInv /\ \A v \in VUs : CanBeBuilt(v)
    OBVIOUS
  <1>1. Partial = {} /\ Tallied = {}
    BY DEF Init, Partial, Tallied
  <1>2. Incomplete \in Nat
    BY InitTypeOK, IncompleteCounts
  <1>3. Cardinality(Partial) + Cardinality(Tallied) <= Incomplete
    BY <1>1, <1>2, FS_EmptySet
  <1> QED
    BY <1>3 DEF Init, TallyInv, HarvestInv, CanBeBuilt, NotStarted, NothingPushed

-----------------------------------------------------------------------------
(* The invariant, and what follows from it.                                 *)

\* The inductive invariant holds of every run.
THEOREM Invariant == Spec => []IInv
  <1>1. Init => IInv
    <2>1. Init => RowsCoverTheirPull /\ OneBodyPerAccount
      BY DEF Init, RowsCoverTheirPull, OneBodyPerAccount
    <2> QED
      BY <2>1, InitTypeOK, InitSession DEF IInv
  <1>2. IInv /\ [Next]_vars => IInv'
    BY StepTypeOK, SessionStep, RowsStep, BodiesStep DEF IInv
  <1> QED
    BY <1>1, <1>2, PTL DEF Spec

\* A sync any of whose requests failed before syncDetails never asks.
THEOREM FailedUploadsNeverAsk == Spec => []FailedUploadNeverAsks
  <1>1. IInv => FailedUploadNeverAsks
    BY DEF IInv, SessionInv, FailureHistory, FailedUploadNeverAsks, Paging, Reported
  <1> QED
    BY <1>1, Invariant, PTL

\* What telemetry reports as done has been accepted.
THEOREM ReportedPushesWereAccepted == Spec => []ReportedPushWasAccepted
  <1>1. IInv => ReportedPushWasAccepted
    BY DEF IInv, SessionInv, FailureHistory, PushHistory, ReportedPushWasAccepted,
           Reported, Uploading
  <1> QED
    BY <1>1, Invariant, PTL

\* The record count is what the server served.
THEOREM CountsAreWhatWasServed == Spec => []CountIsWhatWasServed
  <1>1. IInv => CountIsWhatWasServed
    BY DEF IInv, SessionInv, PullHistory, CountIsWhatWasServed
  <1> QED
    BY <1>1, Invariant, PTL

\* Each finished sync has one row, which describes it.
THEOREM RowsAreTrue == Spec => []RowsCoverTheirPull
  BY Invariant, PTL DEF IInv

\* A bootstrap race wastes a request and never changes a body.
THEOREM BodiesAgree == Spec => []OneBodyPerAccount
  BY Invariant, PTL DEF IInv

\* Who shares an account shares its seed and its gaps, and the tally keeps up.
THEOREM SharingInvariant ==
  Spec => [](TypeOK /\ TallyInv /\ HarvestInv /\ \A v \in VUs : CanBeBuilt(v))
  <1>1. Init => TypeOK /\ TallyInv /\ HarvestInv /\ \A v \in VUs : CanBeBuilt(v)
    BY InitTypeOK, InitSharing
  <1>2. /\ TypeOK /\ TallyInv /\ HarvestInv /\ \A v \in VUs : CanBeBuilt(v)
        /\ [Next]_vars
        => (TypeOK /\ TallyInv /\ HarvestInv /\ \A v \in VUs : CanBeBuilt(v))'
    BY StepTypeOK, TallyStep, HarvestStep, BuiltStep
  <1> QED
    BY <1>1, <1>2, PTL DEF Spec

\* What a sync still has to push can be built, whoever shares its account, as long
\* as no seed request made for the account was lost.
THEOREM PushesAreBuildable == Spec => []PushesCanBeBuilt
  <1>1. ASSUME TypeOK, \A v \in VUs : CanBeBuilt(v)
        PROVE  PushesCanBeBuilt
    <2> SUFFICES ASSUME NEW v \in VUs, pc[v] \in {"media", "push"},
                        NothingLost(row[v].user), NEW k \in DueKinds(v)
                 PROVE  CanPush(userPushSeeds[row[v].user], k)
      BY DEF PushesCanBeBuilt
    <2>2. k \in Kinds /\ pushCounts[v][k] > 0
      <3>1. k \in Kinds /\ attempts[v][k] < pushCounts[v][k]
        BY DEF DueKinds
      <3>2. attempts[v][k] \in Nat /\ pushCounts[v][k] \in Nat
        BY <1>1, <3>1 DEF TypeOK, Counts
      <3> QED
        BY <3>1, <3>2
    <2> QED
      BY <1>1, <2>2 DEF CanBeBuilt
  <1> QED
    BY <1>1, SharingInvariant, PTL

\* The number after() prints never understates the partial devices.
THEOREM PartialDevicesCounted == Spec => []PartialDevicesAreCounted
  <1>1. TypeOK /\ TallyInv => PartialDevicesAreCounted
    <2>1. Seeded \ FullySeeded = Partial
      BY DEF Seeded, FullySeeded, Partial
    <2> SUFFICES ASSUME TypeOK, TallyInv
                 PROVE  Cardinality(Seeded \ FullySeeded) <= Incomplete
      BY DEF PartialDevicesAreCounted
    <2>2. Cardinality(Partial) \in Nat /\ Cardinality(Tallied) \in Nat /\ Incomplete \in Nat
      BY PartialIs, IncompleteCounts
    <2>3. Cardinality(Partial) <= Incomplete
      BY <2>2 DEF TallyInv
    <2> QED
      BY <2>1, <2>3
  <1> QED
    BY <1>1, SharingInvariant, PTL

-----------------------------------------------------------------------------
(* Every step advances: the half of termination that needs no fairness.     *)

\* The order in which syncChainFor reaches its steps.
Place == [idle |-> 0, bootstrap |-> 1, bootstrapping |-> 2, seed |-> 3,
          seeding |-> 4, assemble |-> 5, tally |-> 6, store |-> 7, start |-> 8,
          media |-> 9, push |-> 10, reset |-> 11, details |-> 12, pull |-> 13,
          loop |-> 13, count |-> 13, telemetry |-> 14, record |-> 15, done |-> 16, aborted |-> 16]

\* The session goes to a later place.
Onward(v) == Place[pc[v]] < Place[pc'[v]]

\* The pages the pull loop of a detail can still ask for.
PagesLeft(v) == IF pageInfo[v].hasMore THEN MaxPages - page[v] ELSE 0

\* The session stays in its loop, which has less left to do: fewer files, fewer
\* records of what was drawn, fewer pages.  In the pull it enters the loop of a
\* detail, has fewer pages of that detail left, counts the page it has read, or
\* has one detail fewer of those listed.
NearerItsEnd(v) ==
    /\ pushCounts'[v] = pushCounts[v] /\ syncDetails'[v] = syncDetails[v]
    /\ \/ /\ pc[v] = "media" /\ pc'[v] = "media" /\ mediaLeft'[v] < mediaLeft[v]
       \/ /\ pc[v] = "push" /\ pc'[v] = "push"
          /\ \E k \in DueKinds(v) :
                 attempts'[v] = [attempts[v] EXCEPT ![k] = @ + 1]
       \/ /\ pc[v] = "reset" /\ pc'[v] = "reset"
          /\ page[v] < page'[v] /\ page'[v] < MaxPages
       \/ /\ pc[v] = "pull" /\ pc'[v] = "loop" /\ walked'[v] = walked[v]
       \/ /\ pc[v] = "loop" /\ pc'[v] = "count" /\ walked'[v] = walked[v]
          /\ PagesLeft(v)' \in Nat /\ PagesLeft(v)' < PagesLeft(v)
       \/ /\ pc[v] = "count" /\ pc'[v] = "loop" /\ walked'[v] = walked[v]
          /\ PagesLeft(v)' = PagesLeft(v)
       \/ /\ pc[v] = "loop" /\ pc'[v] = "pull"
          /\ \E d \in DueDetails(v) : walked'[v] = walked[v] \cup {d}

\* No answer, and no failure to answer, leaves a session where it was: each
\* request takes it further down the chain or uses up some of the loop it is
\* in, although a failed page still says that more pages follow.
EveryStepAdvances ==
    [][\A v \in VUs : Step(v) => Onward(v) \/ NearerItsEnd(v)]_vars

\* A later place in the chain is a bigger number, and giving up is the last.
LEMMA Places ==
  /\ Place["bootstrap"] = 1 /\ Place["bootstrapping"] = 2 /\ Place["seed"] = 3
  /\ Place["seeding"] = 4 /\ Place["assemble"] = 5 /\ Place["tally"] = 6
  /\ Place["store"] = 7 /\ Place["start"] = 8 /\ Place["media"] = 9
  /\ Place["push"] = 10 /\ Place["reset"] = 11 /\ Place["details"] = 12
  /\ Place["pull"] = 13 /\ Place["loop"] = 13 /\ Place["count"] = 13
  /\ Place["telemetry"] = 14 /\ Place["record"] = 15
  /\ Place["done"] = 16 /\ Place["aborted"] = 16
  BY DEF Place

\* Going to a later place is going onward.
LEMMA GoingOnward ==
  ASSUME TypeOK, NEW v \in VUs, NEW next, Goto(v, next), Place[pc[v]] < Place[next]
  PROVE  Onward(v)
  <1>1. pc'[v] = next
    BY DEF Goto, TypeOK
  <1> QED
    BY <1>1 DEF Onward

\* exitHereIfFailed ends a session some check of which has failed.
LEMMA FailedLoopEnds ==
  ASSUME TypeOK, NEW v \in VUs, NEW phase \in Phases, NEW next, Fail(v, phase),
         Goto(v, ExitHereIfFailed(failedAt'[v], next)), pc[v] \in {"reset", "loop"}
  PROVE  Onward(v)
  <1>1. failedAt'[v] # {}
    BY FailureIsKept
  <1>2. Goto(v, "aborted")
    BY <1>1 DEF ExitHereIfFailed
  <1>3. Place[pc[v]] < Place["aborted"]
    BY Places
  <1> QED
    BY <1>2, <1>3, GoingOnward

\* A page that is not the last is followed by one whose index is still below the
\* page count.
LEMMA PageTurned ==
  ASSUME TypeOK, NEW v \in VUs, NEW total \in 0..MaxPages,
         HasMorePages(total, page[v]), page' = [page EXCEPT ![v] = @ + 1]
  PROVE  page[v] < page'[v] /\ page'[v] < MaxPages
  <1>1. page \in [VUs -> 0..(MaxPages - 1)] /\ MaxPages \in Nat
    BY BoundAssumption DEF BoundAssumption, TypeOK
  <1>2. page'[v] = page[v] + 1 /\ page[v] \in Nat
    BY <1>1
  <1>3. total > page[v] + 1 /\ total <= MaxPages /\ total \in Nat
    BY <1>1 DEF HasMorePages
  <1> QED
    BY <1>1, <1>2, <1>3

\* The group an upload-URL request covers is never empty.
LEMMA FilesLeave ==
  ASSUME NEW left \in Nat, left > 0
  PROVE  left - UploadGroup(left) < left
  <1> DEFINE size == IF UploadUrlBatch = 0 THEN 1 ELSE UploadUrlBatch
  <1>1. size \in Nat /\ size > 0
    BY BoundAssumption DEF BoundAssumption
  <1>2. UploadGroup(left) = IF left < size THEN left ELSE size
    BY DEF UploadGroup
  <1>3. UploadGroup(left) \in Nat /\ UploadGroup(left) > 0
    BY <1>1, <1>2
  <1> QED
    BY <1>3

\* The steps that are no loop: each goes to a later place.
LEMMA StraightSteps ==
  ASSUME TypeOK, NEW v \in VUs,
         \/ CheckStatuses(v) \/ BootstrapReply(v) \/ CheckSeed(v) \/ SeedReplies(v)
         \/ AssembleSeed(v) \/ TallyMissing(v) \/ StoreSeed(v) \/ StartSync(v)
         \/ MediaDone(v) \/ PushDone(v) \/ GetSyncDetails(v) \/ PullDone(v)
         \/ PostSyncTelemetry(v) \/ RecordSyncResult(v)
  PROVE  Onward(v)
  <1>1. CASE CheckStatuses(v)
    <2>1. pc[v] = "bootstrap" /\ (Goto(v, "bootstrapping") \/ Goto(v, "seed"))
      BY <1>1 DEF CheckStatuses
    <2> QED
      BY <2>1, Places, GoingOnward
  <1>2. CASE BootstrapReply(v)
    <2>1. pc[v] = "bootstrapping" /\ Goto(v, "seed")
      BY <1>2 DEF BootstrapReply
    <2> QED
      BY <2>1, Places, GoingOnward
  <1>3. CASE CheckSeed(v)
    <2>1. pc[v] = "seed" /\ (Goto(v, "seeding") \/ Goto(v, "start"))
      BY <1>3 DEF CheckSeed
    <2> QED
      BY <2>1, Places, GoingOnward
  <1>4. CASE SeedReplies(v)
    <2>1. pc[v] = "seeding" /\ Goto(v, "assemble")
      BY <1>4 DEF SeedReplies
    <2> QED
      BY <2>1, Places, GoingOnward
  <1>5. CASE AssembleSeed(v)
    <2>1. pc[v] = "assemble" /\ (Goto(v, "start") \/ Goto(v, "tally"))
      BY <1>5 DEF AssembleSeed
    <2> QED
      BY <2>1, Places, GoingOnward
  <1>6. CASE TallyMissing(v)
    <2>1. pc[v] = "tally" /\ Goto(v, "store")
      BY <1>6 DEF TallyMissing
    <2> QED
      BY <2>1, Places, GoingOnward
  <1>7. CASE StoreSeed(v)
    <2>1. pc[v] = "store" /\ Goto(v, "start")
      BY <1>7 DEF StoreSeed
    <2> QED
      BY <2>1, Places, GoingOnward
  <1>8. CASE StartSync(v)
    <2>1. pc[v] = "start" /\ Goto(v, "media")
      BY <1>8 DEF StartSync
    <2> QED
      BY <2>1, Places, GoingOnward
  <1>9. CASE MediaDone(v)
    <2>1. pc[v] = "media" /\ Goto(v, "push")
      BY <1>9 DEF MediaDone
    <2> QED
      BY <2>1, Places, GoingOnward
  <1>10. CASE PushDone(v)
    <2>1. pc[v] = "push" /\ Goto(v, "reset")
      BY <1>10 DEF PushDone
    <2> QED
      BY <2>1, Places, GoingOnward
  <1>11. CASE GetSyncDetails(v)
    <2>1. pc[v] = "details" /\ Goto(v, "pull")
      BY <1>11 DEF GetSyncDetails
    <2> QED
      BY <2>1, Places, GoingOnward
  <1>12. CASE PullDone(v)
    <2>1. pc[v] = "pull" /\ Goto(v, "telemetry")
      BY <1>12 DEF PullDone
    <2> QED
      BY <2>1, Places, GoingOnward
  <1>13. CASE PostSyncTelemetry(v)
    <2>1. pc[v] = "telemetry" /\ Goto(v, "record")
      BY <1>13 DEF PostSyncTelemetry
    <2> QED
      BY <2>1, Places, GoingOnward
  <1>14. CASE RecordSyncResult(v)
    <2>1. pc[v] = "record" /\ Goto(v, "done")
      BY <1>14 DEF RecordSyncResult
    <2> QED
      BY <2>1, Places, GoingOnward
  <1> QED
    BY <1>1, <1>2, <1>3, <1>4, <1>5, <1>6, <1>7, <1>8, <1>9, <1>10, <1>11,
       <1>12, <1>13, <1>14

\* The steps of a loop: each leaves it, or leaves it with less to do.
LEMMA LoopSteps ==
  ASSUME TypeOK, NEW v \in VUs,
         \/ RequestUploadUrl(v) \/ PushRecord(v) \/ ResetSyncPage(v)
         \/ NextLoop(v) \/ PullPage(v) \/ CountPage(v) \/ LoopDone(v)
  PROVE  Onward(v) \/ NearerItsEnd(v)
  <1>1. CASE RequestUploadUrl(v)
    <2>1. /\ pc[v] = "media" /\ mediaLeft[v] > 0 /\ pc' = pc
          /\ pushCounts' = pushCounts /\ syncDetails' = syncDetails
          /\ mediaLeft' = [mediaLeft EXCEPT ![v] = @ - UploadGroup(@)]
      BY <1>1 DEF RequestUploadUrl, pullVars, detailVars
    <2>2. mediaLeft \in [VUs -> Nat]
      BY DEF TypeOK
    <2>3. mediaLeft'[v] = mediaLeft[v] - UploadGroup(mediaLeft[v])
      BY <2>1, <2>2
    <2>4. mediaLeft'[v] < mediaLeft[v]
      BY <2>1, <2>2, <2>3, FilesLeave
    <2> QED
      BY <2>1, <2>4 DEF NearerItsEnd
  <1>2. CASE PushRecord(v)
    <2>1. /\ pc[v] = "push" /\ DueKinds(v) # {} /\ pc' = pc
          /\ pushCounts' = pushCounts /\ syncDetails' = syncDetails
          /\ attempts' = [attempts EXCEPT ![v][NextKind(v)] = @ + 1]
      BY <1>2 DEF PushRecord, pullVars, detailVars
    <2>2. NextKind(v) \in DueKinds(v)
      BY <2>1, FirstDueKind
    <2>3. attempts'[v] = [attempts[v] EXCEPT ![NextKind(v)] = @ + 1]
      BY <2>1 DEF TypeOK
    <2> QED
      BY <2>1, <2>2, <2>3 DEF NearerItsEnd
  <1>3. CASE ResetSyncPage(v)
    <2>1. /\ pc[v] = "reset" /\ pushCounts' = pushCounts
          /\ syncDetails' = syncDetails
      BY <1>3 DEF ResetSyncPage, pushVars, detailVars
    <2>2. CASE Fail(v, "reset") /\ Goto(v, ExitHereIfFailed(failedAt'[v], "reset"))
      <3>1. "reset" \in Phases /\ pc[v] \in {"reset", "loop"}
        BY <2>1 DEF Phases
      <3>2. Onward(v)
        BY <2>2, <3>1, FailedLoopEnds
      <3> QED
        BY <3>2
    <2>3. ASSUME NEW total \in 0..MaxPages,
                 page' = [page EXCEPT ![v] = IF HasMorePages(total, page[v])
                                             THEN @ + 1 ELSE @],
                 Goto(v, ExitHereIfFailed(failedAt[v],
                            IF HasMorePages(total, page[v])
                            THEN "reset" ELSE "details"))
          PROVE  Onward(v) \/ NearerItsEnd(v)
      <3>1. CASE Goto(v, "aborted") \/ Goto(v, "details")
        <4>1. Onward(v)
          BY <2>1, <3>1, Places, GoingOnward
        <4> QED
          BY <4>1
      <3>2. CASE HasMorePages(total, page[v]) /\ Goto(v, "reset")
        <4>1. page' = [page EXCEPT ![v] = @ + 1]
          BY <2>3, <3>2
        <4>2. page[v] < page'[v] /\ page'[v] < MaxPages
          BY <3>2, <4>1, PageTurned
        <4>3. pc'[v] = pc[v]
          BY <2>1, <3>2 DEF Goto, TypeOK
        <4> QED
          BY <2>1, <4>2, <4>3 DEF NearerItsEnd
      <3> QED
        BY <2>3, <3>1, <3>2 DEF ExitHereIfFailed
    <2> QED
      BY <1>3, <2>2, <2>3 DEF ResetSyncPage
  <1>4. CASE NextLoop(v)
    <2>1. /\ pc[v] = "pull" /\ pc'[v] = "loop" /\ pushCounts' = pushCounts
          /\ syncDetails' = syncDetails /\ walked' = walked
      BY <1>4 DEF NextLoop, Goto, TypeOK, pushVars, detailVars
    <2> QED
      BY <2>1 DEF NearerItsEnd
  <1>5. CASE PullPage(v)
    <2>1. /\ pc[v] = "loop" /\ pageInfo[v].hasMore
          /\ pushCounts' = pushCounts /\ syncDetails' = syncDetails /\ walked' = walked
      BY <1>5 DEF PullPage, pushVars
    <2>2. CASE Fail(v, "pull") /\ Goto(v, ExitHereIfFailed(failedAt'[v], "count"))
      <3>1. "pull" \in Phases /\ pc[v] \in {"reset", "loop"}
        BY <2>1 DEF Phases
      <3>2. Onward(v)
        BY <2>2, <3>1, FailedLoopEnds
      <3> QED
        BY <3>2
    <2>3. ASSUME NEW total \in 0..MaxPages, NEW records \in 0..MaxRecords,
                 page' = [page EXCEPT ![v] = IF HasMorePages(total, page[v])
                                             THEN @ + 1 ELSE @],
                 pageInfo' = [pageInfo EXCEPT
                    ![v] = [hasMore |-> HasMorePages(total, page[v]),
                            recordCount |-> records]],
                 Goto(v, ExitHereIfFailed(failedAt[v], "count"))
          PROVE  Onward(v) \/ NearerItsEnd(v)
      <3>1. CASE Goto(v, "aborted")
        <4>1. Onward(v)
          BY <2>1, <3>1, Places, GoingOnward
        <4> QED
          BY <4>1
      <3>2. CASE Goto(v, "count")
        <4>1. pc'[v] = "count"
          BY <3>2 DEF Goto, TypeOK
        <4>2. pageInfo'[v].hasMore = HasMorePages(total, page[v])
          BY <2>3 DEF TypeOK
        <4>3. /\ MaxPages \in Nat /\ page[v] \in Nat /\ page[v] < MaxPages
              /\ PagesLeft(v) = MaxPages - page[v]
          BY <2>1, BoundAssumption DEF BoundAssumption, TypeOK, PagesLeft
        <4>4. PagesLeft(v)' \in Nat /\ PagesLeft(v)' < PagesLeft(v)
          <5>1. CASE HasMorePages(total, page[v])
            <6>1. page' = [page EXCEPT ![v] = @ + 1]
              BY <2>3, <5>1
            <6>2. page[v] < page'[v] /\ page'[v] < MaxPages
              BY <5>1, <6>1, PageTurned
            <6>3. page'[v] = page[v] + 1
              BY <6>1 DEF TypeOK
            <6>4. PagesLeft(v)' = MaxPages - (page[v] + 1)
              BY <4>2, <5>1, <6>3 DEF PagesLeft
            <6> QED
              BY <4>3, <6>2, <6>3, <6>4
          <5>2. CASE ~HasMorePages(total, page[v])
            <6>1. PagesLeft(v)' = 0
              BY <4>2, <5>2 DEF PagesLeft
            <6> QED
              BY <4>3, <6>1
          <5> QED
            BY <5>1, <5>2
        <4> QED
          BY <2>1, <4>1, <4>4 DEF NearerItsEnd
      <3> QED
        BY <2>3, <3>1, <3>2 DEF ExitHereIfFailed
    <2>4. \/ Fail(v, "pull") /\ Goto(v, ExitHereIfFailed(failedAt'[v], "count"))
          \/ \E total \in 0..MaxPages, records \in 0..MaxRecords :
                /\ page' = [page EXCEPT ![v] = IF HasMorePages(total, page[v])
                                               THEN @ + 1 ELSE @]
                /\ pageInfo' = [pageInfo EXCEPT
                      ![v] = [hasMore |-> HasMorePages(total, page[v]),
                              recordCount |-> records]]
                /\ Goto(v, ExitHereIfFailed(failedAt[v], "count"))
      BY <1>5 DEF PullPage
    <2> QED
      BY <2>2, <2>3, <2>4
  <1>6. CASE CountPage(v)
    <2>1. /\ pc[v] = "count" /\ pc'[v] = "loop" /\ pushCounts' = pushCounts
          /\ syncDetails' = syncDetails /\ walked' = walked
          /\ page' = page /\ pageInfo' = pageInfo
      BY <1>6 DEF CountPage, Goto, TypeOK, pushVars, pageVars
    <2>2. PagesLeft(v)' = PagesLeft(v)
      BY <2>1 DEF PagesLeft
    <2> QED
      BY <2>1, <2>2 DEF NearerItsEnd
  <1>7. CASE LoopDone(v)
    <2>1. /\ pc[v] = "loop" /\ pc'[v] = "pull" /\ pushCounts' = pushCounts
          /\ syncDetails' = syncDetails /\ DueDetails(v) # {}
          /\ walked' = [walked EXCEPT ![v] = @ \cup {NextDetail(v)}]
      BY <1>7 DEF LoopDone, Goto, TypeOK, pushVars
    <2>2. NextDetail(v) \in DueDetails(v)
      BY <2>1, FirstDueDetail
    <2>3. walked'[v] = walked[v] \cup {NextDetail(v)}
      BY <2>1 DEF TypeOK
    <2> QED
      BY <2>1, <2>2, <2>3 DEF NearerItsEnd
  <1> QED
    BY <1>1, <1>2, <1>3, <1>4, <1>5, <1>6, <1>7

\* Each request of a sync takes it onward or uses up the loop it is in, whatever
\* the server answers and however often it fails.
THEOREM StepsAdvance == Spec => EveryStepAdvances
  <1>1. TypeOK /\ [Next]_vars =>
          \A v \in VUs : Step(v) => Onward(v) \/ NearerItsEnd(v)
    BY StraightSteps, LoopSteps DEF Step
  <1> QED
    BY <1>1, TypeCorrect, PTL DEF Spec, EveryStepAdvances
=============================================================================
