----------------------------- MODULE SyncSession -----------------------------
(***************************************************************************)
(* The load generator's core: every virtual user that Gatling injects      *)
(* draws an account from a feeder file and runs syncChainFor once, from    *)
(* the bootstrap to the row in sync-durations.csv.  Virtual users share    *)
(* three maps keyed by account (userSyncStatuses, userPushSeeds) or by     *)
(* what a device lacked (unseedable), and nothing serialises them.         *)
(*                                                                         *)
(* A request and its answer are one step wherever the answer changes only  *)
(* the virtual user's own session; they are two steps where a shared map   *)
(* is read before the request and written after it.                        *)
(*                                                                         *)
(* Gatling (external) keeps one status per session.  A failed check marks  *)
(* it failed, nothing marks it successful again, and exitHereIfFailed      *)
(* looks at that status, not at the request it follows: failedAt[v] is     *)
(* the set of phases in which the session of v was marked failed.          *)
(***************************************************************************)
EXTENDS Integers, FiniteSets, Sequences, Folds

CONSTANTS
    Customers,      \* virtual users of the customer's scenario
    CoTenants,      \* virtual users of the co-tenant scenario
    Accounts,       \* user names
    CustomerFile,   \* rows of SYNC_USERS, in file order
    CoTenantFile,   \* rows of the co-tenants' feeder file
    SyncMode,       \* SYNC_MODE
    PushEnabled,    \* PUSH
    Kinds,          \* pushable entities: Individual, ProgramEnrolment, ...
    PushOrder,      \* PushOrder[k]: the place of k in the entity table
    Needs,          \* Needs[k]: what a device must hold to create a k
    MediaBearing,   \* entities whose records carry media
    Holds,          \* Holds[a]: what the account's catchment holds
    UploadUrlBatch, \* UPLOAD_URL_BATCH, 0 for one request per file
    NoSeed,         \* "no entry in userPushSeeds"
    Details,        \* sync details the server can list, in table order
    Table,          \* those of entities sync() walks: in avni-entities.json,
                    \* pullRequired, and not ResetSync (which it does hold)
    MaxPush,        \* bound: records of one entity pushed by one sync
    MaxMedia,       \* bound: media files queued on one device
    MaxPages,       \* bound: pages of one entity
    MaxRecords,     \* bound: records on one page (the page size)
    MaxFailures     \* bound: phases of one sync in which a request fails

VUs == Customers \cup CoTenants
Windows == {"epoch", "recent"}
Row == [user : Accounts, since : Windows]
Phases == {"bootstrap", "seed", "media", "push", "reset", "details", "pull",
           "telemetry"}
Locations == {"idle", "bootstrap", "bootstrapping", "seed", "seeding",
              "assemble", "tally", "store", "start", "media", "push", "reset",
              "details", "pull", "loop", "count", "telemetry", "record", "done",
              "aborted"}
Ended == {"done", "aborted"}
PageInfo == [hasMore : BOOLEAN, recordCount : Nat]

\* The state a paged loop starts in: there is always a first page.
FIRST == [hasMore |-> TRUE, recordCount |-> 0]

ASSUME PopulationAssumption ==
    /\ Customers \cap CoTenants = {}
    /\ IsFiniteSet(Customers) /\ IsFiniteSet(CoTenants)
ASSUME FileAssumption ==
    /\ IsFiniteSet(Accounts)
    /\ CustomerFile \in Seq(Row) /\ CustomerFile # <<>>
    /\ CoTenantFile \in Seq(Row)
    /\ CoTenants # {} => CoTenantFile # <<>>
ASSUME ModeAssumption ==
    /\ SyncMode \in {"full", "incremental", "csv", "realistic"}
    /\ PushEnabled \in BOOLEAN
ASSUME SeedAssumption ==
    /\ IsFiniteSet(Kinds)
    /\ \A seed \in SUBSET Kinds : seed # NoSeed
    /\ Needs \in [Kinds -> SUBSET Kinds]
    /\ Holds \in [Accounts -> SUBSET Kinds]
    /\ PushOrder \in [Kinds -> Nat]
    /\ MediaBearing \subseteq Kinds
ASSUME BoundAssumption ==
    /\ Details \subseteq Nat /\ Table \subseteq Nat
    /\ UploadUrlBatch \in Nat /\ MaxPush \in Nat /\ MaxMedia \in Nat
    /\ MaxPages \in Nat \ {0} /\ MaxRecords \in Nat /\ MaxFailures \in Nat

VARIABLES
    \* shared by every virtual user
    fed,              \* how many rows the circular feeder has handed out
    userSyncStatuses, \* account -> what the server said it tracks, {} if absent
    userPushSeeds,    \* account -> what was harvested for it, or NoSeed
    unseedable,       \* what was missing -> how many devices missed it
    syncResults,      \* the rows of sync-durations.csv
    report,           \* what after() prints, <<>> before it ran
    \* one Gatling session per virtual user
    pc,               \* where its chain stands
    row,              \* the feeder row it drew
    failedAt,         \* phases that marked the session failed
    harvest,          \* kinds its seed requests returned, NoSeed if unreadable
    fullSync,         \* drawn once per sync
    pushCounts,       \* drawn once per sync
    mediaLeft,        \* media files whose upload URL was not requested yet
    attempts,         \* push requests made, per kind
    page,             \* the loop counter "index"
    pageInfo,         \* the last page a check has read, of whichever loop
    syncDetails,      \* what the last syncDetails answer listed
    walked,           \* details whose loop sync() has left
    recordsPulled,    \* what the sync will report as its record count
    \* what the server saw, for the properties only
    body,             \* the statuses posted to syncDetails, {} the flat table
    accepted,         \* pushed records the server accepted, per kind
    served,           \* records on the pages that arrived
    pulled,           \* details whose last page arrived
    askedSince,       \* windows the pull requests carried
    refused           \* turns with each page request that fails: asking again
                      \* is a step, and doing so forever is not stuttering

cacheVars == <<userSyncStatuses, userPushSeeds, unseedable>>
pushVars == <<pushCounts, mediaLeft, attempts, accepted>>
pageVars == <<page, pageInfo>>
detailVars == <<syncDetails, walked, recordsPulled, served, pulled>>
pullVars == <<pageVars, detailVars, askedSince, refused>>
sessionVars == <<row, harvest, fullSync, body>>
runVars == <<fed, syncResults, report>>
vars == <<cacheVars, pushVars, pullVars, sessionVars, runVars, pc, failedAt>>

-----------------------------------------------------------------------------
(* Helpers, named for what they stand for in the source.                    *)

Goto(v, next) == pc' = [pc EXCEPT ![v] = next]

\* A check passes: the session keeps its status.
Pass == UNCHANGED failedAt

\* markAsFailed: the session is failed from here on.
MarkAsFailed(v, phase) == failedAt' = [failedAt EXCEPT ![v] = @ \cup {phase}]

\* A check of the answer fails, or the request times out.
Fail(v, phase) ==
    /\ phase \in failedAt[v] \/ Cardinality(failedAt[v]) < MaxFailures
    /\ MarkAsFailed(v, phase)

Refused(v) == refused' = [refused EXCEPT ![v] = ~@]

\* Slip: a loop that lacks exitHereIfFailed.
NeverExit(failures, next) == next

\* exitHereIfFailed: the session's status decides, however old the failure is.
ExitHereIfFailed(failures, next) == IF failures # {} THEN "aborted" ELSE next

\* Slip: the page index compared as if it counted from one.
IndexFromOne(total, index) == total > index

\* PageInfo.hasMorePages for a paged answer: total pages against the index.
HasMorePages(total, index) == total > index + 1

\* Whether a seed carries what a record of kind k must reference.
CanPush(seed, k) == seed # NoSeed /\ Needs[k] \subseteq seed

\* The files one upload-URL request covers: one, or the next group.
UploadGroup(left) ==
    LET size == IF UploadUrlBatch = 0 THEN 1 ELSE UploadUrlBatch
    IN  IF left < size THEN left ELSE size

\* The entity whose push loop is running: the first in table order still due.
DueKinds(v) == {k \in Kinds : attempts[v][k] < pushCounts[v][k]}
NextKind(v) ==
    CHOOSE k \in DueKinds(v) : \A o \in DueKinds(v) : PushOrder[k] <= PushOrder[o]

\* What sync() still has to walk.  It goes through its own table and looks each
\* entity up in the answer: a detail of an entity the table lacks is passed over.
DueDetails(v) == (syncDetails[v] \cap Table) \ walked[v]
NextDetail(v) == CHOOSE d \in DueDetails(v) : \A o \in DueDetails(v) : d <= o

NothingPushed == [k \in Kinds |-> 0]

-----------------------------------------------------------------------------
(* The feeder.                                                              *)

\* csv(...).circular(): the file in order, wrapping.
CircularRow(cursor) == {CustomerFile[(cursor % Len(CustomerFile)) + 1]}

\* Gatling injects a virtual user and its scenario feeds it one row.  The
\* co-tenants' weighted feeder draws with replacement (CoTenantLoad.feeder).
Arrive(v) ==
    /\ pc[v] = "idle"
    /\ \/ /\ v \in Customers
          /\ \E r \in CircularRow(fed) : row' = [row EXCEPT ![v] = r]
          /\ fed' = fed + 1
       \/ /\ v \in CoTenants
          /\ \E i \in 1..Len(CoTenantFile) :
                 row' = [row EXCEPT ![v] = CoTenantFile[i]]
          /\ UNCHANGED fed
    /\ Goto(v, "bootstrap")
    /\ UNCHANGED <<cacheVars, pushVars, pullVars, harvest, fullSync, body,
                   syncResults, report, failedAt>>

-----------------------------------------------------------------------------
(* The two per-account caches.                                              *)

\* bootstrapChain's doIf.
CheckStatuses(v) ==
    /\ pc[v] = "bootstrap"
    /\ Goto(v, IF userSyncStatuses[row[v].user] = {} THEN "bootstrapping"
                                                     ELSE "seed")
    /\ UNCHANGED <<cacheVars, pushVars, pullVars, sessionVars, runVars, failedAt>>

\* Slip: put, which lets a later bootstrap replace an earlier one.
PutAlways(a, tracked) == [userSyncStatuses EXCEPT ![a] = tracked]

\* userSyncStatuses.putIfAbsent
PutIfAbsent(a, tracked) ==
    IF userSyncStatuses[a] = {} THEN [userSyncStatuses EXCEPT ![a] = tracked]
                                ELSE userSyncStatuses

\* The bootstrap's answer: an empty list is not stored, a failure is carried on.
BootstrapReply(v) ==
    /\ pc[v] = "bootstrapping"
    /\ \/ \E tracked \in SUBSET Details :
             /\ Pass
             /\ userSyncStatuses' = IF tracked = {} THEN userSyncStatuses
                                    ELSE PutIfAbsent(row[v].user, tracked)
       \/ Fail(v, "bootstrap") /\ UNCHANGED userSyncStatuses
    /\ Goto(v, "seed")
    /\ UNCHANGED <<userPushSeeds, unseedable, pushVars, pullVars, sessionVars,
                   runVars>>

\* seedChain's doIf.
CheckSeed(v) ==
    /\ pc[v] = "seed"
    /\ Goto(v, IF PushEnabled /\ userPushSeeds[row[v].user] = NoSeed
               THEN "seeding" ELSE "start")
    /\ UNCHANGED <<cacheVars, pushVars, pullVars, sessionVars, runVars, failedAt>>

\* The seed requests' answers.  Those that fail leave nothing in the session, and
\* for an account whose bootstrap left no statuses they carry no type uuid, so the
\* server may answer 200 with nothing.  A body that is not JSON makes the assembly
\* below throw.
SeedReplies(v) ==
    /\ pc[v] = "seeding"
    /\ \/ \E lost \in SUBSET Kinds :
             /\ \/ Pass /\ (lost = {} \/ userSyncStatuses[row[v].user] = {})
                \/ Fail(v, "seed") /\ lost # {}
             /\ harvest' = [harvest EXCEPT ![v] = Holds[row[v].user] \ lost]
       \/ Pass /\ harvest' = [harvest EXCEPT ![v] = NoSeed]
    /\ Goto(v, "assemble")
    /\ UNCHANGED <<cacheVars, pushVars, pullVars, row, fullSync, body, runVars>>

\* assembleSeed, its containsKey.
AssembleSeed(v) ==
    /\ pc[v] = "assemble"
    /\ IF userPushSeeds[row[v].user] # NoSeed THEN Pass /\ Goto(v, "start")
       ELSE IF harvest[v] = NoSeed THEN MarkAsFailed(v, "seed") /\ Goto(v, "start")
       ELSE Pass /\ Goto(v, "tally")
    /\ UNCHANGED <<cacheVars, pushVars, pullVars, sessionVars, runVars>>

\* Slip: the check of what is missing forgets the encounters.
ForgetsEncounters(held) == (Kinds \ held) \ MediaBearing

\* PushSeed.missing
Missing(held) == Kinds \ held

\* assembleSeed, its count of what the device lacks.
TallyMissing(v) ==
    /\ pc[v] = "tally"
    /\ LET missing == Missing(harvest[v])
       IN  unseedable' = IF missing = {} THEN unseedable
                         ELSE [unseedable EXCEPT ![missing] = @ + 1]
    /\ Goto(v, "store")
    /\ UNCHANGED <<userSyncStatuses, userPushSeeds, pushVars, pullVars,
                   sessionVars, runVars, failedAt>>

\* assembleSeed, its put.
StoreSeed(v) ==
    /\ pc[v] = "store"
    /\ userPushSeeds' = [userPushSeeds EXCEPT ![row[v].user] = harvest[v]]
    /\ Goto(v, "start")
    /\ UNCHANGED <<userSyncStatuses, unseedable, pushVars, pullVars, sessionVars,
                   runVars, failedAt>>

-----------------------------------------------------------------------------
(* The sync itself.                                                         *)

\* drawFullSync: the answers the configured mode can give.
DrawFullSync(v) ==
    CASE SyncMode = "full" -> {TRUE}
      [] SyncMode = "csv" -> {row[v].since = "epoch"}
      [] SyncMode = "realistic" -> BOOLEAN
      [] OTHER -> {FALSE}

\* Slip: volumes drawn without asking whether the device can reference anything.
DrawRegardless(seed) == [Kinds -> 0..MaxPush]

\* drawPushCounts: zero for what the device has nothing to hang a record off.
DrawPushCounts(seed) ==
    {c \in [Kinds -> 0..MaxPush] : \A k \in Kinds : c[k] > 0 => CanPush(seed, k)}

\* mediaCallCount: no media-bearing record, no file.
DrawMedia(counts) ==
    IF \A k \in MediaBearing : counts[k] = 0 THEN {0} ELSE 0..MaxMedia

\* The session is set up and, if the run pushes, its volumes are drawn.
StartSync(v) ==
    /\ pc[v] = "start"
    /\ \E full \in DrawFullSync(v) : fullSync' = [fullSync EXCEPT ![v] = full]
    /\ recordsPulled' = [recordsPulled EXCEPT ![v] = 0]
    /\ IF PushEnabled
       THEN \E counts \in DrawPushCounts(userPushSeeds[row[v].user]) :
              \E files \in DrawMedia(counts) :
                 /\ pushCounts' = [pushCounts EXCEPT ![v] = counts]
                 /\ mediaLeft' = [mediaLeft EXCEPT ![v] = files]
       ELSE UNCHANGED <<pushCounts, mediaLeft>>
    /\ Goto(v, "media")
    /\ UNCHANGED <<cacheVars, attempts, accepted, pageVars, syncDetails, walked,
                   served, pulled, askedSince, refused, row, harvest, body,
                   runVars, failedAt>>

\* One upload-URL request.  A refusal marks the session and goes on.
RequestUploadUrl(v) ==
    /\ pc[v] = "media" /\ mediaLeft[v] > 0
    /\ mediaLeft' = [mediaLeft EXCEPT ![v] = @ - UploadGroup(@)]
    /\ Pass \/ Fail(v, "media")
    /\ UNCHANGED <<cacheVars, pushCounts, attempts, accepted, pullVars,
                   sessionVars, runVars, pc>>

\* The media loop ends and the record loops begin.
MediaDone(v) ==
    /\ pc[v] = "media" /\ mediaLeft[v] = 0
    /\ Goto(v, "push")
    /\ UNCHANGED <<cacheVars, pushVars, pullVars, sessionVars, runVars, failedAt>>

\* One record's POST.  Its body is built from the account's seed as it is now;
\* without what the record references there is no body, and no request.
PushRecord(v) ==
    /\ pc[v] = "push" /\ DueKinds(v) # {}
    /\ LET k == NextKind(v) IN
       /\ attempts' = [attempts EXCEPT ![v][k] = @ + 1]
       /\ \/ /\ CanPush(userPushSeeds[row[v].user], k)
             /\ Pass
             /\ accepted' = [accepted EXCEPT ![v][k] = @ + 1]
          \/ /\ IF CanPush(userPushSeeds[row[v].user], k)
                THEN Fail(v, "push") ELSE MarkAsFailed(v, "push")
             /\ UNCHANGED accepted
    /\ UNCHANGED <<cacheVars, pushCounts, mediaLeft, pullVars, sessionVars,
                   runVars, pc>>

\* Slip: a paged loop that starts from whatever page was read last.
FromLastPage(info) == info

\* session.set("pageInfo", PageInfo.FIRST), before each paged loop.
LoopStart(info) == FIRST

\* Every record loop is over and the reset-sync loop starts.
PushDone(v) ==
    /\ pc[v] = "push" /\ DueKinds(v) = {}
    /\ Goto(v, "reset")
    /\ page' = [page EXCEPT ![v] = 0]
    /\ pageInfo' = [pageInfo EXCEPT ![v] = LoopStart(@)]
    /\ UNCHANGED <<cacheVars, pushVars, detailVars, askedSince, refused,
                   sessionVars, runVars, failedAt>>

\* resetSyncChain: one page, then exitHereIfFailed.  This is the first place
\* where a failure of any earlier request ends the sync.
ResetSyncPage(v) ==
    /\ pc[v] = "reset"
    /\ \/ /\ Pass
          /\ \E total \in 0..MaxPages, records \in 0..MaxRecords :
                LET more == HasMorePages(total, page[v]) IN
                /\ pageInfo' = [pageInfo EXCEPT
                       ![v] = [hasMore |-> more, recordCount |-> records]]
                /\ page' = [page EXCEPT ![v] = IF more THEN @ + 1 ELSE @]
                /\ Goto(v, ExitHereIfFailed(failedAt[v],
                                            IF more THEN "reset" ELSE "details"))
          /\ UNCHANGED refused
       \/ /\ Fail(v, "reset")
          /\ Goto(v, ExitHereIfFailed(failedAt'[v], "reset"))
          /\ Refused(v)
          /\ UNCHANGED pageVars
    /\ UNCHANGED <<cacheVars, pushVars, detailVars, askedSince, sessionVars,
                   runVars>>

\* "Getting SyncDetails": the body carries what the bootstrap learned for the
\* account, if anyone did.  No exitHereIfFailed follows a failure.  Usually the
\* session is left with no details and the chain goes on with none; if it was the
\* check of $.now that failed, the details were saved before it.
GetSyncDetails(v) ==
    /\ pc[v] = "details"
    /\ body' = [body EXCEPT ![v] = userSyncStatuses[row[v].user]]
    /\ \/ /\ Pass \/ Fail(v, "details")
          /\ \E listed \in SUBSET Details :
                syncDetails' = [syncDetails EXCEPT ![v] = listed]
       \/ Fail(v, "details") /\ UNCHANGED syncDetails
    /\ Goto(v, "pull")
    /\ UNCHANGED <<cacheVars, pushVars, pageVars, walked, recordsPulled, served,
                   pulled, askedSince, refused, row, harvest, fullSync, runVars>>

\* The window loadedSinceFor gives an entity of this sync.
LoadedSinceFor(v) ==
    IF fullSync[v] \/ SyncMode = "full" THEN "epoch"
    ELSE IF SyncMode = "csv" THEN row[v].since ELSE "recent"

\* The window url() puts on a pull request: always the feeder's column.
PullSince(v) == row[v].since

\* sync() enters the loop of its next detail.
NextLoop(v) ==
    /\ pc[v] = "pull" /\ DueDetails(v) # {}
    /\ page' = [page EXCEPT ![v] = 0]
    /\ pageInfo' = [pageInfo EXCEPT ![v] = LoopStart(@)]
    /\ Goto(v, "loop")
    /\ UNCHANGED <<cacheVars, pushVars, detailVars, askedSince, refused,
                   sessionVars, runVars, failedAt>>

\* getAndPaginate: one page of one detail, then exitHereIfFailed.  A page that
\* fails leaves pageInfo describing the one before it.
PullPage(v) ==
    /\ pc[v] = "loop" /\ DueDetails(v) # {} /\ pageInfo[v].hasMore
    /\ askedSince' = [askedSince EXCEPT ![v] = @ \cup {PullSince(v)}]
    /\ \/ /\ Pass
          /\ \E total \in 0..MaxPages, records \in 0..MaxRecords :
                LET more == HasMorePages(total, page[v]) IN
                /\ pageInfo' = [pageInfo EXCEPT
                       ![v] = [hasMore |-> more, recordCount |-> records]]
                /\ page' = [page EXCEPT ![v] = IF more THEN @ + 1 ELSE @]
                /\ pulled' = IF more THEN pulled
                             ELSE [pulled EXCEPT ![v] = @ \cup {NextDetail(v)}]
                /\ served' = [served EXCEPT ![v] = @ + records]
          /\ Goto(v, ExitHereIfFailed(failedAt[v], "count"))
          /\ UNCHANGED refused
       \/ /\ Fail(v, "pull")
          /\ Goto(v, ExitHereIfFailed(failedAt'[v], "count"))
          /\ Refused(v)
          /\ UNCHANGED <<pageVars, served, pulled>>
    /\ UNCHANGED <<cacheVars, pushVars, syncDetails, walked, recordsPulled,
                   sessionVars, runVars>>

\* The count of the page pageInfo describes.
CountPage(v) ==
    /\ pc[v] = "count"
    /\ recordsPulled' = [recordsPulled EXCEPT ![v] = @ + pageInfo[v].recordCount]
    /\ Goto(v, "loop")
    /\ UNCHANGED <<cacheVars, pushVars, pageVars, syncDetails, walked, served,
                   pulled, askedSince, refused, sessionVars, runVars, failedAt>>

\* asLongAs: the page read last has no successor, and sync() moves on.
LoopDone(v) ==
    /\ pc[v] = "loop" /\ DueDetails(v) # {} /\ ~pageInfo[v].hasMore
    /\ walked' = [walked EXCEPT ![v] = @ \cup {NextDetail(v)}]
    /\ Goto(v, "pull")
    /\ UNCHANGED <<cacheVars, pushVars, pageVars, syncDetails, recordsPulled,
                   served, pulled, askedSince, refused, sessionVars, runVars,
                   failedAt>>

\* sync() has run out of details.
PullDone(v) ==
    /\ pc[v] = "pull" /\ DueDetails(v) = {}
    /\ Goto(v, "telemetry")
    /\ UNCHANGED <<cacheVars, pushVars, pullVars, sessionVars, runVars, failedAt>>

\* postSyncTelemetry: reports pushCounts as both todo and done.
PostSyncTelemetry(v) ==
    /\ pc[v] = "telemetry"
    /\ Pass \/ Fail(v, "telemetry")
    /\ Goto(v, "record")
    /\ UNCHANGED <<cacheVars, pushVars, pullVars, sessionVars, runVars>>

\* recordSyncResult: one line, appended under a lock.
RecordSyncResult(v) ==
    /\ pc[v] = "record"
    /\ syncResults' = syncResults \cup
          {[vu |-> v, records |-> recordsPulled[v], full |-> fullSync[v]]}
    /\ Goto(v, "done")
    /\ UNCHANGED <<cacheVars, pushVars, pullVars, sessionVars, fed, report,
                   failedAt>>

-----------------------------------------------------------------------------
(* The run.                                                                 *)

AllEnded == \A v \in VUs : pc[v] \in Ended

\* The accounts whose device could be seeded, and those seeded in full.
Seeded == {a \in Accounts : userPushSeeds[a] # NoSeed}
FullySeeded == {a \in Seeded : userPushSeeds[a] = Kinds}

\* The sum of unseedable.
Incomplete ==
    MapThenFoldSet(LAMBDA x, y : x + y, 0, LAMBDA missing : unseedable[missing],
                   LAMBDA S : CHOOSE s \in S : TRUE, SUBSET Kinds)

\* after(), of a run that pushes: seeded devices, fully seeded ones by
\* subtraction, partial ones.
After ==
    /\ PushEnabled /\ AllEnded /\ report = <<>>
    /\ report' = <<Cardinality(Seeded), Cardinality(Seeded) - Incomplete,
                   Incomplete>>
    /\ UNCHANGED <<cacheVars, pushVars, pullVars, sessionVars, fed, syncResults,
                   pc, failedAt>>

\* The run is over and the process exits.
RunOver == AllEnded /\ (PushEnabled => report # <<>>) /\ UNCHANGED vars

Init ==
    /\ fed = 0 /\ syncResults = {} /\ report = <<>>
    /\ userSyncStatuses = [a \in Accounts |-> {}]
    /\ userPushSeeds = [a \in Accounts |-> NoSeed]
    /\ unseedable = [missing \in SUBSET Kinds |-> 0]
    /\ pc = [v \in VUs |-> "idle"]
    /\ row = [v \in VUs |-> CustomerFile[1]]  \* none drawn yet
    /\ failedAt = [v \in VUs |-> {}]
    /\ harvest = [v \in VUs |-> NoSeed]
    /\ fullSync = [v \in VUs |-> FALSE]
    /\ pushCounts = [v \in VUs |-> NothingPushed]
    /\ mediaLeft = [v \in VUs |-> 0]
    /\ attempts = [v \in VUs |-> NothingPushed]
    /\ accepted = [v \in VUs |-> NothingPushed]
    /\ page = [v \in VUs |-> 0]
    /\ pageInfo = [v \in VUs |-> FIRST]
    /\ syncDetails = [v \in VUs |-> {}]
    /\ walked = [v \in VUs |-> {}]
    /\ pulled = [v \in VUs |-> {}]
    /\ recordsPulled = [v \in VUs |-> 0]
    /\ served = [v \in VUs |-> 0]
    /\ askedSince = [v \in VUs |-> {}]
    /\ refused = [v \in VUs |-> FALSE]
    /\ body = [v \in VUs |-> {}]

\* The next thing an injected virtual user does.
Step(v) ==
    \/ CheckStatuses(v) \/ BootstrapReply(v)
    \/ CheckSeed(v) \/ SeedReplies(v)
    \/ AssembleSeed(v) \/ TallyMissing(v) \/ StoreSeed(v)
    \/ StartSync(v)
    \/ RequestUploadUrl(v) \/ MediaDone(v)
    \/ PushRecord(v) \/ PushDone(v)
    \/ ResetSyncPage(v)
    \/ GetSyncDetails(v)
    \/ NextLoop(v) \/ PullPage(v) \/ CountPage(v) \/ LoopDone(v) \/ PullDone(v)
    \/ PostSyncTelemetry(v) \/ RecordSyncResult(v)

Next == (\E v \in VUs : Arrive(v) \/ Step(v)) \/ After \/ RunOver

\* Every injected session is scheduled, and every request is answered or times
\* out (gatling.conf, gatling.http.requestTimeout).  Nothing is assumed of the
\* answers: a request may fail every time.
Fairness == (\A v \in VUs : WF_vars(Step(v))) /\ WF_vars(After)

Spec == Init /\ [][Next]_vars /\ Fairness

-----------------------------------------------------------------------------
(* What a run must get right.                                               *)

Seeds == {NoSeed} \cup SUBSET Kinds
Counts == [Kinds -> Nat]
ResultRow == [vu : VUs, records : Nat, full : BOOLEAN]

\* Every variable stays in its type: the page index of a loop never runs past
\* the pages an entity has.
TypeOK ==
    /\ fed \in Nat /\ syncResults \subseteq ResultRow
    /\ report = <<>> \/ Len(report) = 3
    /\ userSyncStatuses \in [Accounts -> SUBSET Details]
    /\ userPushSeeds \in [Accounts -> Seeds]
    /\ unseedable \in [SUBSET Kinds -> Nat]
    /\ pc \in [VUs -> Locations]
    /\ row \in [VUs -> Row]
    /\ failedAt \in [VUs -> SUBSET Phases]
    /\ harvest \in [VUs -> Seeds]
    /\ fullSync \in [VUs -> BOOLEAN]
    /\ pushCounts \in [VUs -> Counts] /\ mediaLeft \in [VUs -> Nat]
    /\ attempts \in [VUs -> Counts] /\ accepted \in [VUs -> Counts]
    /\ page \in [VUs -> 0..(MaxPages - 1)]
    /\ pageInfo \in [VUs -> PageInfo]
    /\ syncDetails \in [VUs -> SUBSET Details]
    /\ walked \in [VUs -> SUBSET Details] /\ pulled \in [VUs -> SUBSET Details]
    /\ recordsPulled \in [VUs -> Nat] /\ served \in [VUs -> Nat]
    /\ askedSince \in [VUs -> SUBSET Windows] /\ refused \in [VUs -> BOOLEAN]
    /\ body \in [VUs -> SUBSET Details]

Uploading == {"bootstrap", "seed", "media", "push", "reset"}

\* A virtual user any of whose requests failed before the syncDetails call,
\* however long before, never makes that call: the failure is remembered by
\* the session across phases that do not look at it (resetSyncChain,
\* exitHereIfFailed).  That goes for a refused media upload too, which the code
\* says is carried on (MediaRefusalIsCarriedOn), and for a failed bootstrap, for
\* which syncStatusBody has a fallback: only an empty answer ever reaches it.
FailedUploadNeverAsks ==
    \A v \in VUs : pc[v] \in {"details", "pull", "loop", "count", "telemetry",
                            "record", "done"} => failedAt[v] \cap Uploading = {}

\* Telemetry reports todo = done = pushCounts without looking at a single
\* answer (pushStatus).  That is the truth all the same: a sync reaches
\* telemetry only if the server accepted every record it counts.
ReportedPushWasAccepted ==
    \A v \in VUs : pc[v] \in {"telemetry", "record", "done"}
                     => accepted[v] = pushCounts[v]

\* A page that failed is never counted as the page before it (the stale pageInfo
\* getAndPaginate warns of), nor as the last page of the loop before: no sync ever
\* counts more than the server put on the pages that arrived, and one that goes on
\* has counted each of those once.
CountIsWhatWasServed ==
    \A v \in VUs : /\ recordsPulled[v] <= served[v]
                   /\ pc[v] \notin {"count", "aborted"} => recordsPulled[v] = served[v]

\* sync-durations.csv holds one row for each sync that reached the end and for
\* no other, with that sync's own figures; the last page of every listed detail
\* that sync() has a loop for did arrive, none was skipped because an earlier loop
\* had ended, and nothing else was pulled.
RowsCoverTheirPull ==
    /\ {r.vu : r \in syncResults} = {v \in VUs : pc[v] = "done"}
    /\ \A r, s \in syncResults : r.vu = s.vu => r = s
    /\ \A r \in syncResults : /\ pulled[r.vu] = syncDetails[r.vu] \cap Table
                              /\ r.records = served[r.vu]
                              /\ r.full = fullSync[r.vu]

\* Two virtual users on one account may both bootstrap, but every status list
\* posted for the account is the same one ("one wasted request, not a wrong
\* body", bootstrapChain).
OneBodyPerAccount ==
    \A v \in VUs : body[v] # {} => body[v] = userSyncStatuses[row[v].user]

\* A device cached as partly seeded has been counted: the qualifier after()
\* prints on the result never understates how many there are.
PartialDevicesAreCounted == Cardinality(Seeded \ FullySeeded) <= Incomplete

\* No seed request made for account a was lost, whoever made it.
NothingLost(a) == \A v \in VUs : row[v].user = a => harvest[v] \in {NoSeed, Holds[a]}

\* Whatever a sync still has to push, the account's seed carries what the record
\* must reference, however many virtual users harvest the account and put its seed
\* between the draw and the request: provided none of them lost a seed request.
PushesCanBeBuilt ==
    \A v \in VUs : pc[v] \in {"media", "push"} /\ NothingLost(row[v].user) =>
        \A k \in DueKinds(v) : CanPush(userPushSeeds[row[v].user], k)

\* Every virtual user that is injected comes to an end, whatever the server
\* answers: no loop re-requests a failing page forever (D8.5).
EverySyncEnds == \A v \in VUs : (pc[v] # "idle") ~> (pc[v] \in Ended)

\* The session seen as a device's sync: where the chain stands, whether a record
\* was refused, what was listed, pulled and logged.
StageOf(location) ==
    CASE location = "idle" -> "absent"
      [] location \in {"bootstrap", "bootstrapping", "seed", "seeding",
                       "assemble", "tally", "store", "start"} -> "preparing"
      [] location \in {"media", "push"} -> "uploading"
      [] location \in {"reset", "details"} -> "checking"
      [] location \in {"pull", "loop", "count"} -> "pulling"
      [] location = "telemetry" -> "reporting"
      [] location = "record" -> "logging"
      [] location = "done" -> "finished"
      [] OTHER -> "gaveUp"

Stage == [v \in VUs |-> StageOf(pc[v])]
Clean == [v \in VUs |-> "push" \notin failedAt[v]]
Logged == {r.vu : r \in syncResults}

Promise == INSTANCE ClientSync WITH
    Devices <- VUs, Changes <- Details, Known <- Table,
    phase <- Stage, clean <- Clean,
    listed <- syncDetails, fetched <- pulled, logged <- Logged

\* Every run of the load generator is a run of such devices.
KeepsThePromise == Promise!Spec

-----------------------------------------------------------------------------
(* What comments and docs say, and the code does not do.  APromiseIsKept    *)
(* refutes three of them at once; the others are false of it as well.       *)

\* SYNC_MODE "is what decides whether the server takes the full-sync path or the
\* incremental one": a pull request carries the window loadedSinceFor gives.
PullWindowFollowsMode ==
    \A v \in VUs : askedSince[v] \subseteq {LoadedSinceFor(v)}

\* A device refused a media upload URL "carries on" (mediaUploadChain): a refused
\* upload is never all that ends a sync.
MediaRefusalIsCarriedOn ==
    \A v \in VUs : pc[v] = "aborted" => failedAt[v] # {"media"}

\* sync-durations.csv is "one line per completed sync" (recordSyncResult): none is
\* written for a sync whose request for what changed had failed.
RowsAreCompletedSyncs ==
    \A r \in syncResults : "details" \notin failedAt[r.vu]

\* The pull visits "each entity the server said has changed"
\* (docs/what-a-simulated-sync-does.md): a sync that reports has pulled every detail
\* that was listed to it.
AllThatChangedIsPulled ==
    \A v \in VUs : pc[v] \in {"telemetry", "record", "done"} => pulled[v] = syncDetails[v]

\* An account is "harvested once" (userPushSeeds) and records "are skipped rather
\* than faked when the device has nothing to reference" (pushChain): no record is
\* due that its account's seed cannot build, also on a shared account.
RecordsAreSkippedNotFaked ==
    \A v \in VUs : pc[v] \in {"media", "push"} =>
        \A k \in DueKinds(v) : CanPush(userPushSeeds[row[v].user], k)

\* Of the promises about media, rows and what changed a run keeps one at least.  Refuted:
\* the two syncs of one run break all three.
APromiseIsKept ==
    MediaRefusalIsCarriedOn \/ RowsAreCompletedSyncs \/ AllThatChangedIsPulled

=============================================================================
