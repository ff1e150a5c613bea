# avni-perf: a TLA+ model of the load-test bench

avni-perf measures avni-server. It generates a dataset, provisions the organisations
the dataset belongs to, loads it, and drives the server with simulated device syncs
(Gatling); around that it keeps what a run measured. A defect in it does not break a
product; it produces a number that is believed and wrong. The properties here are about
that: what a finished run, a loaded database, a log row or an exit status may claim.

## Inventory

| Part | Source | State it keeps | Operations | What is hard | What makes it correct |
|---|---|---|---|---|---|
| Sync simulation | `src/gatling/java/org/avni/AvniSyncSimulation.java` | three maps shared by all virtual users (`userSyncStatuses`, `userPushSeeds`, `unseedable`), one Gatling session each, `sync-durations.csv` | bootstrap, seed harvest, media, push, reset check, details, paged pull, telemetry, result row, final report | interleaving of virtual users on one account; Gatling's sticky failure status; loops that re-request | a row, a telemetry post and a status body are true; every sync ends |
| Workload models | `.../models/*.java` | none (draws and parses) | page parsing, batching, volumes, rates | zero-based against one-based, remainders | the loops over them end and count right |
| Co-tenant provisioning | `tools/provision-co-tenants.sh`, `tools/provision-org.sh` | the server's organisations, `<log>`, `<log>.inflight`, the loop's variables | a resumable loop over a recipe | ten-hour passes that crash, stop, lose answers, and run beside each other | nothing imported twice, nothing lost, exit 0 is the whole recipe |
| Dataset lifecycle | `tools/swap-dataset.sh`, `restore-co-tenants.sh`, `restore-benchmark.sh`, `data-generator/teardown_org.py`, `bootstrap_user.py`, `copy_writer.py` | the rows of each organisation, the id sequences, rc files of detached psql sessions | bootstrap, teardown, load, sequence fix-up, verification | detached sessions that outlive their driver; four writers of the same tables, told apart by uuid | "done" means loaded; an emptied organisation has room; what is not the generator's stays |
| Data generator | `tools/data-generator/*.py` | `recipe.json`, the files of one generation, waivers | id plan, hierarchy, catchments, users, rows, feeder; refusals; validation | rounding, one id space for all tenants, trees that are cut, bundles that change under a recipe | ids never collide; every subject is synced; what is built and blessed is what was recorded and accepted |
| Calibration gate | `tools/calibrate.py` | none | a verdict on `sync-durations.csv` | small samples, the edges of bands and cohorts | a pass has tested something |
| New Relic backup and queries | `tools/newrelic-export.py`, `newrelic-query.py` | hour files, `manifest.json`, a bucket | count, fetch with bisection, skip, save; read a window | retention and late events beside a slow export; crashes between two files | an hour called complete is whole; the exit status is true |
| Run ritual and archive | `build.gradle`, `tools/prepare-run.sh`, `environment-check.sh`, `archive-runs.sh` | the report directory, the settings file | gate, run, archive | files that outlive the run they describe | a report's metadata is that run's |
| Run log and analysis | `tools/update-run-log.sh`, `org_load.py`, `cpu-per-sync.py`, `inter_request_gap.py`, ... | none | reports | - | - |
| Measurement queries, CI | `sql/`, `.github/workflows/` | none | - | - | - |

A recipe is generated and provisioned (organisations and bundles), its dataset is loaded in
place of another, the ritual gates a run, the simulation drives the server with accounts
from a feeder file, and the archive keeps the run's files. The parts meet in the server's
database and in files, never in calls: `Organisation` is where import, bootstrap,
load, run and teardown meet, `DatasetSwap` where a driver and its detached sessions do.

`PROJECT.json` lists under "hazards" the places where this code is hard to test,
each at its line, with the properties that would see it go wrong.

## Modules

| Module | Models |
|---|---|
| `SyncSession` | `syncChainFor` and everything it calls, for any number of virtual users; the three shared maps; the feeders; `after()` |
| `ClientSync` | the abstract promise of one device's sync; no source of its own |
| `Provisioning` | both provisioning scripts, the operator, and the server's import job |
| `DatasetSwap` | `swap-dataset.sh`, the SQL its files hold, its detached psql sessions |
| `Organisation` | the rows of an organisation under imports, `bootstrap_user.py`, loads, runs and `teardown_org.py` |
| `Dataset` | `generate.py`: ids, hierarchy, catchments, users, rows, feeder |
| `Gates` | the refusals of `generate.py` (`recipe.py`, `schema.py`), the verdicts of `validate.py` and `calibrate.py` |
| `Backup` | `newrelic-export.py` beside a New Relic that takes in and drops events; `newrelic-query.py` |
| `MC<module>` | the instances of a module that TLC checks |
| `<module>Proofs`, `SyncSessionRefinement` | theorems about a module |

Definitions that begin with the comment "Slip:" are the plausible mistakes that the
properties are measured against; no action uses them.

### SyncSession

`pc[v]` is where the chain of virtual user `v` stands; each action is one element of
the chain with its answer. A request and its answer are one step, except where a
shared map is read before the request and written after it: the bootstrap
(`CheckStatuses`, `BootstrapReply`) and the seed (`CheckSeed`, `SeedReplies`,
`AssembleSeed`, `TallyMissing`, `StoreSeed`), where the interleavings are the
point. `failedAt[v]` is Gatling's session status with a memory: Gatling keeps one
bit, set by a failed check and never cleared; the model keeps which phases set it, so
that properties can speak about them, and `ExitHereIfFailed` reads only whether the
set is empty.

What the data is reduced to: a seed is the set of entity kinds its device holds
(`PushSeed`'s eleven fields matter only through `canPush...` and `missing`); a feeder
row is an account and the window in its `lastModifiedDateTime` column. `pageInfo[v]` is the
page a check read last, as on the Gatling session: one variable for the reset loop and
the pull, set to `FIRST` before each loop, left as it was by a page that fails, and read
by the count after the check. The number of pages is chosen anew with each answer, which also
covers the slice answers, where each page says only whether there is another. `Table` are the
entities that `sync()` has a loop for, in their order, and `walked[v]` the details
whose loop is behind it; a listed detail outside `Table` is never asked for.

`accepted`, `served`, `askedSince` and `body` record what the server saw; no action
reads them. `refused` turns with every page request that fails, so that a loop that
re-requests forever is a behaviour that changes something and `EverySyncEnds` sees it.

`ClientSync` is the sequence of `docs/what-a-simulated-sync-does.md` as a promise: a
device asks only after an upload without a refused record, pulls of what was listed exactly
what it knows of (`Known`, here `Table`), reports, and is logged. Whether a refused media
upload ends the sync the promise leaves open, and that everything listed is pulled it does not
say: there the comments and the code disagree (`SyncPromises`). `SyncSession` is shown to implement it with `Stage`, `Clean` and `Logged`
as the refinement mapping, in the runs (`KeepsThePromise`) and by proof.

### Provisioning

A pass of `provision-co-tenants.sh` is a process per operator; its `memory` holds the
loop's variables, lost in a crash. `provision-org.sh` is inlined: its five steps are
`CreateOrg`, `SetUpUser`, `UploadBundle`, `PollStatus` and `CheckLanded`, and `die()` is
`Die`. `Start` begins at any tenant of the recipe or past its last one, which is what a
`--from` that matches no tenant and a recipe that cannot be read come to. `Probe` may fail to
read either count (`ProbeFails`), and then skips. The server is external: names are unique, an answer may be lost after the
request took effect (`Goto \/ Die` in the creating steps), and an import job may stop
with any part of the bundle in place. The operator acts as the messages of exit 4
and exit 5 ask (`DealWithInflight`, `RemoveShort`), or does not act at all.

`unlogged`, and `verified`, `unverified` (what a pass skipped on a count that it read, or
without one) and `sinceStop` in `memory`, are history for the properties.

### DatasetSwap

The driver's position is `pc`, what it remembers `run`; a psql session is a record in
`sessions` with the statements it still has to run and its rc file. `Start` begins a run
of the script for one of the staged `Archives`, sequential or with `SWAP_PARALLEL`;
`Crash` is the driver's death anywhere, which leaves its sessions working. A run polls
only the sessions that carry its own tag, as the script does (`Own`), so a session left
behind by an earlier run goes on beside a later one.

A statement is one step, except that a sequence statement reads `MAX(id)` and sets the
sequence in two (`ReadHighest`, `SetSequence`): between the two another session may
commit. A teardown is one transaction (`CommitTeardown`). A load commits table by table
(`CopyTable`), and a copy that has no file, no parent rows or a key that is there already
cannot succeed: it is left to `FailStatement`, which also stands for lost connections
and may strike anywhere. `Fetch` extracts each organisation whole or not at all, and at
most one in part; `StartTeardown` may lose the copy of any organisation's SQL, whose session then
has nothing to do and ends well (`cut`); `Launch` may lose the ssh call with any of its
sessions unstarted; `Collect` may lose the answer to `BAD`; `NothingLaunched` is the load poll's
0 of 0.

Three fields of `run` are history for the properties: `overlapped` (a session of an
earlier run was at work when this one began), `torn` (the archive was extracted in part)
and `lost` (an ssh call was lost that the script does not miss: the verdict on the sessions, or
the copy of a teardown's SQL). The properties that need their
absence say so; what happens in their presence is under "Known limits".

### Organisation

`rows` is what the organisations' tables hold. A row is a table, an organisation, who made
it (the bundle's import, the generator's load, the bootstrap, a run) and, for what is per
user, which bootstrap user; one row stands for all of a kind. `Keys` are the foreign keys
of the schema between the tables the tools touch. The uuid, which is all that
`teardown_org.py` can go by, is its prefix (`Prefix`), minted by its maker; `Provenance` is
the LIKE pattern.

`Bootstrap` is a run of `bootstrap_user.py --count`, with the location type it finds
(`PermittedType`) and the rows it finds by uuid (`upsert`); `Import` a bundle, whose location
types and privileges may be missing; `Load` and `CopyTable` a `load.sql`, which may stop after any table;
`Sync` one user's run, whose rows refer to that user; `Migrate` a server release with
a table nobody classified. `form`, `group_privilege` and `location_location_mapping` stand for
`METADATA`: what the others hang on, what refers to a group and what refers to locations. `Teardown` is one transaction: the preflight (`Unknown`), the
delete order (`DeletedBefore`, `Blocked`) and what must not be left (`Left`) can refuse it whole.
`Init` includes an organisation with what the first version of the bootstrap left.

`emptied` and `cohort` record which organisations were torn down, and which users
bootstrapped, last; only the properties read them.

### Dataset

`generate.py` is sequential, and its hard part is what its steps hand to each other. `plan_ids`
and `Planned` give each tenant its band of ids, one tenant at a time; `Structure` builds a
tenant's locations, catchments, users, group and memberships at once; `Subject`,
`Encounter` and `VillageDone` are the loop of `transactional_rows`, with the subject types and the
programs of the tenant's own references; `feeder_csv` builds every tenant a
second time from the references of the day, which `Reimport` may have replaced since, and which
may fail after some of the file is written. `feeder` remembers the references it was written from.
The arithmetic is the code's, Python's rounding to even included (`Rounded`). Every draw (what
time, which subject, whether it enrols) is a free choice, so a property holds for every seed.
`refused` is an exception, which leaves no dataset.

`used` records the references a tenant's rows were built from.

### Gates

Three tools that share no state; `gate` picks the one a behaviour is about. For
`generate.py` the bundles on `disk` may be replaced at any time (`Edit`) and the recipe
re-recorded (`from_deployment`); `paths` is the order in which a tenant's own path, its
archetype, `--bundle-root`, `--bundle` and the recipe's path outrank each other, and
`refused` is every way out before a row is written, and `status` what it exits with: 2, or 1 for
organisations without a tenant, whose `ValueError` nothing catches. For `validate.py`, `_band` and
`apply_waivers` are computed with products of whole numbers, where the code compares
floating-point ratios; a report has the checks of the tables that the statistics are of, so
a table missing from them has no check, as in the code. For `calibrate.py`, `cohorts`, `slope`, `judge` and `report` likewise; `grouped` is
the body of the loop in `cohorts`, `sorted`, like Python's, leaves rows that tie in their order,
and `Unreadable` is the file that cannot be read.

### Backup

A run of `newrelic-export.py` is the record `run`; `types`, `hours` and `fetch` are its three
nested loops. Between any two of its queries events arrive (in their hour or late), expire
(the oldest first), and time passes. `CountHour`, `Select` and `Bisect` are
`fetch`: an answer is capped at `ROW_CAP` and now and then short, and a window that cannot be
split is noted in `shortfalls`. `Write` replaces an hour's file and updates the manifest in
memory, `SaveManifest` writes it over the old one in place, `Exit` gives the
status, after the `Upload` that it shares with `timeslices`, and which may send a part and fail; `Crash` may come anywhere, and while the manifest is written it leaves it cut (`torn`).
`read` and `resolve` are the query side.

`late` (hours an event reached after their end) and `unrecorded` (hours rewritten by a run
that died before its manifest) are history.

## Runs

`expect: pass`

| Run | Instance | Shows |
|---|---|---|
| `SessionDeep` | one virtual user; all four pushable entities; up to 2 records each, 3 media files in groups of 2, 2 pages, 3 details of which 2 are in the table, 2 failing phases | the whole chain, its invariants, that it ends, and that it is a `ClientSync` |
| `SharedAccount` | two co-tenant virtual users drawn on two accounts, one catchment without encounters | the cache races: what they cannot break, and that records can be built as long as no seed request of the account was lost |
| `OneOperator` | two tenants, three passes, two polls, counts that may be unreadable, a `--from` that may name no tenant | the resume logic across crashes, stops, failures |
| `TwoOperators` | one tenant, `--limit 1`, two operators with a log each, one pass each, unreadable counts, truncated lists, imports that never finish | the in-flight file beside another operator; every pass ends |
| `Swaps` | two organisations, two tables, one larger dataset to swap in, two runs of the script | what "done" means after crashes, failed sessions and half archives; the sequences; that the poll ends |
| `Teardowns` | one organisation, cohorts of one or two users, both scopes, whole and partial bundles | any order of import, bootstrap, load, sync and teardown: room, no blocked delete, usable users, an untouched bundle |
| `Datasets` | seven small deployments | disjoint ids, every subject reached by its users, full villages, a feeder that names the users |
| `Gates` | two tenants, one archetype; statistics on both sides of every bound; files of up to three syncs | nothing built from other bundles, nothing blessed unaccounted for, no pass without a test |
| `Backup` | one event type, three hours of 2 ms, caps of 1, two events, two faults, two exports, three command lines | hours called complete are whole; the exit status is true; reads are whole; an export ends |

`expect: violation`: what a comment, a usage or a test promises, and the code does not keep.
Each promise is a definition at the end of its module; the property `APromiseIsKept` of a
run says only that one of them, at least, is kept, which is weaker than any, and TLC
finds one behaviour in which all of them are broken. `PROJECT.json` "findings" quotes each
sentence with its line and says where the code parts from it.

| Run | Promise | The behaviour found |
|---|---|---|
| `SyncPromises` | `RowsAreCompletedSyncs`: the result file has "one line per completed sync" | a sync whose syncDetails request failed is logged |
| | `AllThatChangedIsPulled`: the pull iterates "each entity the server said has changed" | the same sync passes over a listed entity that `sync()`'s table lacks |
| | `MediaRefusalIsCarriedOn`: a device refused a media upload "carries on" | another sync of the run is ended by the refusal, at the next `exitHereIfFailed` |
| `ProvisioningPromises` | `StopStartsNone`: "it can be stopped without creating one" | a stop before the first import starts a tenant |
| | `StoppedBetweenImports`: "Nothing was left half-imported" | the polls run out, that tenant's row says ok, and the pass ends with 0 while the import runs |
| | `SuccessStartsAtATenant`: `--from` "start at a tenant" | the next pass starts at none and ends with 0 |
| | `SkipsAreVerified`: a skip is taken "only when" the concept counts match | the third cannot read the short tenant's count, and skips it |
| `TeardownPromises` | `AllScopeEmpties`: `--scope all` "empties every org-scoped table" | with one imported form it refuses |
| | `BootstrapStays`: "a bootstrap user survives a teardown" | its group and membership do not |

Some more promises are stated in the modules, are false of the code, and have no run of their own;
TLC refutes each when it is added to the invariants of the run named:

| Module | Definition | Promise | Run |
|---|---|---|---|
| `SyncSession` | `PullWindowFollowsMode` | `SYNC_MODE` "decides whether the server takes the full-sync path" (`README.md:75`): the pull sends the feeder's window in every mode (`AvniSyncSimulation.java:2369`) | `SessionDeep` |
| `SyncSession` | `RecordsAreSkippedNotFaked` | "harvested once" (733), "skipped rather than faked" (2450): a second virtual user's poorer seed replaces the one a draw was made on (2877, 2904) | `SharedAccount` |
| `DatasetSwap` | `DoneAsSaid` | "done -- $SET is loaded and verified" (`swap-dataset.sh:330`): said after a torn archive (168), a lost verdict (287) or a lost teardown file (215), and the last counts are printed, not compared (312-328) | `Swaps` |
| `Dataset` | `OneSubjectTypeMatters` | "only that one's entry matters" (`generate.py:63`): subjects are of the widest type (`deployment.py:266`), the locations cut for the first | `Datasets` |
| `Gates` | `WaiversEnd` | a waiver "is not an instruction to ignore the check forever" (`validate.py:107`): one that names no value is (130) | `Gates` |
| `Gates` | `SlopesAreAFactorApart` | "as a factor either way" (`calibrate.py:142`): the factor of a negative slope is below any bound (196) | `Gates` |
| `Backup` | `LeftForTheNextRun` | a failed hour is "left out of `done`, so the next run retries it" (`newrelic-export.py:215`): under `--force` the older entry stays (217) | `Backup` |
| `Backup` | `CountedIsHeld` | "Nothing is reported as backed up on the strength of a query that returned" (24): a forced run replaces a file by a short one (224) and dies before line 244; the older entry vouches for it | `Backup` |

**Bounds.** `MaxPush`, `MaxMedia`, `MaxPages`, `MaxRecords`, `MaxFailures`, `Polls`,
`MaxPasses`, `MaxSwaps`, `MaxCohort`, `MaxEdits`, `MaxEvents`, `MaxFaults`, `MaxExports` and
`LastHour` are constants, named where they are declared.

- *Sync.* Two virtual users are enough for every race here, since each shared map is read
  and written by one virtual user per step and every race needs one reader between another's
  read and write. A detail outside the table beside two in it makes a loop begin where another ended.
  Two records, groups and pages are enough for a first, a middle and a last.
  Two failing phases let one failure be remembered while another happens.
- *Provisioning.* Three passes let a pass start after a pass that started after a crash;
  two tenants give a skipped one before one in hand.
- *Swaps.* Two runs let one start on what a dead one left; two organisations give the
  parallel mode two sessions, two tables a parent and a child; the dataset swapped in has
  higher ids than the one in place, and each organisation ends at an id of its own, so
  that a sequence set back is seen.
- *Teardowns.* No row refers to another organisation's and a teardown is checked for
  each organisation alone: one is enough, and the theorems are for any number. Two cohort
  users let one be bootstrapped after the other.
- *Datasets.* Each of the seven is there for a branch: two tenants of different shape, a
  co-tenant sized by its subjects, a deepest type below the villages, a span that changes the
  fan-out, a span too small, a registration type off the spine (refused), and one too big for
  `INT4_MAX`. `ID_BAND_MIN` is 10 and `INT4_MAX` 100 so that both bounds decide somewhere.
- *Gates.* A recipe of each kind (shared bundle, own paths, archetype, unassigned
  organisation); two edits, so that a bundle changes after it was recorded and back; three
  syncs make two cohorts, one of them of two, where a median is a mean of two.
- *Backup.* Two events in one millisecond exceed a cap of one, and two in different ones can be
  split apart; three hours let one be past, one in progress and one expire; two faults let a crash
  follow a short answer; two exports are a run and a re-run.

**Deadlock** is checked for `SyncSession`, whose run ends in `RunOver`. It is not for the
others: scripts exit and are run a bounded number of times (`Provisioning`, `DatasetSwap`,
`Backup`), a generation or a verdict is final (`Dataset`, `Gates`), and an organisation may be
left alone (`Organisation`).

**Fairness.** `SyncSession`: weak fairness of each virtual user's next step, because
Gatling schedules every injected session and every request is answered or times out
(`gatling.conf`, `requestTimeout`); nothing about arrivals or answers.
`Provisioning`: weak fairness of a running pass, because every `curl` has
`--max-time`; nothing about the server's jobs, the operator or crashes.
`DatasetSwap`: weak fairness of the driver's next line while it lives and of the
sessions together, because PostgreSQL ends every statement one way or the other;
nothing about crashes, and nothing about sessions that were never started.
`Backup`: weak fairness of a running export, because every query has a timeout and
four attempts; nothing about New Relic, the clock or who starts the next run.

## Known limits of the code

What the properties' conditions and the theorems' assumptions exclude, and what was met while
modelling. The broken promises above, and besides:

*Sync.* Two virtual users on one account both tally the device, and the second seed
overwrites the first, so the closing report's "fully seeded" (a subtraction in `after()`)
can be wrong and even negative; a failed seed request is cached as an empty catchment for
the whole run. `PushesCanBeBuilt` therefore speaks of accounts none of whose seed requests was
lost. `syncStatusBody` has a fallback for a device without statuses that a failed bootstrap
never reaches, since the failure ends the sync first.

*Provisioning.* A tenant that FAILED after its
organisation was created is skipped or refused by the next pass, not retried (L195-197 against
L219-220 and L240). Two operators can both find a name absent and both create it; on a
shared log the second overwrites the first one's in-flight file. An organisation list cut
short by no more than the number of failed tenants passes the guard. The check after a
fresh import accepts any non-zero concept count, the one on resume wants the bundle's, and a bundle
whose own count reads 0 is skipped like one that cannot be read. `SuccessCoversTheRecipe` and
`SkippedAreWhole` speak of the tenants from the first one walked, and of skips on a count
that was read.

*Swap.* `DoneIsLoaded` excludes a torn archive (`torn`), a lost verdict or teardown file (`lost`) and
a session of an earlier run still at work (`overlapped`): a teardown left behind by a dead driver
deletes what the next swap loads, and neither run can see it. Where a launch was lost the teardown's
poll waits forever; the load's does so unless every session was lost, which reads as 0 of 0.
`copy_writer.load_script` sets a sequence to `MAX(id)` and so may lower it.

*Organisation.* A load after a bootstrap collides on the group's one uuid and stops there.
`bootstrap_user.py` writes its feeder before its SQL is run, so a feeder may name users that
never came to be, or that a teardown has since disabled. A metadata row that somebody points at a
generated structural row would block the teardown (`teardown_org.py:156-158`); the import's do not.

*Generator.* A recipe that names an organisation twice is not refused: one plan overwrites the
other's base. `EverySubjectIsSynced` asks that a subject is where its own type may be only
where that type may be wherever the first type may (`WideAsTheFirst`); who syncs it, it asks
always. A feeder rebuilt from references that are not those of the rows names users who
were never written, as its docstring says, and `FeederNamesTheUsers` excludes it.
`_refs` appends a registration type that is not in the target's types to `missing`, and `main`
refuses with 2 (`generate.py:83-86`, 176-183): `Gates` has the refusal, `Dataset` starts after it.
`check_tenant_bundles` resolves paths without `--bundle-root`,
so an archetype's tenant is compared with the deployment's bundle; without recorded
tenant fingerprints a recipe of several distinct bundles is not compared at all; `schema.verify`
sees only the tables in the columns file. `validate.py` only warns of what it could
not measure, and has no check at all for a table that is missing from its statistics.
`fingerprint_tenants` has no caller but tests: the record is made by hand.

*Calibration.* INCONCLUSIVE replaces the name of a band's FAIL (the exit status is 1 either way).

*Backup.* The query for the earliest event is outside the `try`, so a network failure there
ends the run before the manifest is saved, although the comment above the `try` says that a
failure costs one hour; the hours it wrote are fetched again. An hour that came
short is fetched again by the next run, and if retention has moved meanwhile, the file is replaced by one
with fewer rows. An event that arrives after its hour was recorded complete is never
fetched. `CompleteHoursAreWhole` and `ExitTellsTheTruth` except such hours (`late`) and those that a
dead run rewrote (`unrecorded`), until a run writes them again.

## Proofs

Every theorem is for all values of the constants that satisfy the assumptions next
to them: any number of virtual users, accounts, rows, kinds, details, tenants, logs,
polls, passes, organisations, hours, events.

`SyncSessionProofs`. `TypeCorrect` is inductive by itself. The other invariants are not:
"a failed upload never asks" holds at `details` only because the reset loop cannot be
left with a failed session, and "reported pushes were accepted" because a push that
failed left `push` in `failedAt` and stays there. `SessionInv(v)` ties `pc`, `failedAt`,
`attempts`, `accepted` and `pushCounts` together phase by phase; `OwnStep` shows that a
virtual user's own step keeps it, `OthersUntouched` that nobody else's step touches it,
and `IInv` adds the result rows and the status bodies. From `IInv` follow
`FailedUploadsNeverAsk`, `ReportedPushesWereAccepted`, `CountsAreWhatWasServed`,
`RowsAreTrue` and `BodiesAgree`. That `recordsPulled` is `served` rests on `pageInfo`: between a page
and its count it is that page, and a failed page ends the sync before anything is counted
(`FailedLoopEnds`). A second invariant, `SharingInvariant`, is about what virtual
users share, the cache of push seeds and the counter of incomplete devices. `HarvestInv`: the
seed stored for an account is what one of its virtual users harvested. So where none of them lost a
request (`NothingLost`) every seed put for the account is the same one, and what was drawn on one can
be built on any other (`CanBeBuilt(v)`, `PushesAreBuildable`). `TallyInv`: the accounts stored as partial
and the virtual users about to store one are together no more than the counter, which is a
sum over all kinds, a recursive function (`PartialDevicesCounted`). Both rest on there being
finitely many virtual users, accounts and kinds. `StepsAdvance` is described below.

`SyncSessionRefinement`. `Refinement`: each action is mapped to one step of `ClientSync`
or a stutter, grouped by phase (`OwnBusiness`, `PushStep`, `StageStep`, `ResetStep`, `AskStep`,
`PullStep`, `LogStep`), with `IInv` supplying that a session that asks is clean, and that one that
leaves the pull has walked all that it knows of.

`ProvisioningProofs`. `TypeCorrect` says among other things that a tenant in hand is
always one of the recipe's. `InterruptionsAreTraced` assumes `OwnLogs` (no two operators
share a log, else the later pass overwrites the in-flight file) and needs the invariant
`TraceInv`, which says at which points of the script the in-flight file is empty, and
at which it names the tenant in hand. `ImportsHappenOnce` assumes a single operator (two
can both find a name absent) and lists that arrive whole or not at all (a list short by
the failed tenants passes the guard), and needs `ImportInv`: what is about to be
created is absent, and an absent tenant carries no import. `SuccessIsComplete` assumes
a single operator and needs `CoverInv`: what a pass has walked past, from the tenant it started
at, is on the server, or it has a failure to report; a pass that starts past the last tenant has
walked past nothing. `StopsAreHonoured` holds of any number of operators, by `StopInv`: where a
pass looks for another tenant, it has started none since it was asked to stop. `SkipsAreEarned`
assumes a single operator, and needs `CoverInv` and `SkipInv`: nothing that a running pass skipped is
removed under it. It is about skips on a count that was read (`verified`), whether or not others
can be; of the rest nothing holds (`SkipsAreVerified` is false).

`DatasetSwapProofs`. One inductive invariant in four layers, each resting on those before it:
`SwapType`, what the scripts and sessions are made of; `PhaseInv`, which session of a run exists and is
at work where the run stands, and that a run empties the pilot only after it found every
manifest (`EmptiedOnlyWhenProved`: no teardown of this run is still at work once the archive is
removed, since the poll waited for every organisation's session); `SequenceInv`, for runs that
have the database to themselves (a session runs its phase's statements only, the highest id that it
read is still the highest, and a sequence that does not cover its table is still to be raised);
and `ContentInv`, where the pilot is empty, where it holds nothing but the dataset, and where it
holds all of it. `DoneMeansLoaded`, `SequencesAreCovered` and `NothingIsSetBack` (the action
property) follow. Datasets are finitely many, so that a table has a highest id.

`OrganisationProofs`. `TypeCorrect`, `RoomIsMade`, `CohortsAreUsable`, `TeardownsAreNeverBlocked` and
`BundlesSurvive`. None of the last four is inductive alone. `WellMade` says which tables each
maker writes, from which it follows that what refers to a row the teardown cuts is cut
earlier; `BundleIsWhole` that a bundle's rows never outlive its forms, which are what makes the
preflight refuse `--scope all`; and an organisation torn down has no load in hand.

`DatasetProofs`. `DisjointBands` is the first conjunct of `IdsNeverCollide`, for any recipe whose
tenants are different organisations: the bands lie in the tenants' order, do not overlap,
and once planned end below `INT4_MAX`. `IInv` is the loop invariant of `plan_ids`: `Walked` (whose
bands are handed out), `Below` (they end before the cursor), `InOrder`, `Fits`.
`FeederNamesThem` needs `FeedInv`, that a tenant's user rows are those of the structure
built from the references in `used`. `TypesAreKept` needs `PlaceInv`: a tenant at work has levels, so its
leaf exists, and what a draw may choose from are rows of the village at hand. `SharesAreHeld` adds
three: `IdInv` (the ids of a drawn table count up from the base, so a fresh row is new),
`ParentInv` (a child is at its parent's village and no younger) and `ShareInv` (a past village holds its
share, the one at hand what it does not lack, one to come nothing).
`IdsStayApart` is the whole of `IdsNeverCollide`, if the bands have room (`BandsHaveRoom`):
the safety factor is at least 2, fewer field workers share a village than the narrowest band has
ids, every level has at least twice the places of the one above, except that the villages of a
supervisor may be one, and there are at most three levels more than a quarter of the narrowest
band's ids. `deployment.py` (2, and 10 000 ids) and the measured establishment meet it,
and `MCDataset` assumes it, so TLC evaluates it there. Rounding can take a level's places up, so that the
sum over the levels fits needs an argument: `TreeFits` bounds it by three for each village but one, and
one a level, and `BandFits` shows that a band has this, and the users, from a factor of 2 on. On these
rest two invariants. `TreeInv`: what was not drawn is the structure of a tenant written, whose
rows `StructureIsApart` shows to be in its band and to differ. `TotalInv`: no drawn table holds
more than the villages so far may, one enrolment for each subject and one encounter, of
either kind, for each that is lacking, so that the ids of `IdInv` end inside the band.
`SubjectsAreSynced` is `EverySubjectIsSynced`, for every deployment that the assumption allows. The state's
part is `TreeInv`, its converse `WholeInv` (what is written of a tenant is all of its structure) and
`ShareInv`: an organisation's locations, catchments, users and memberships are what was built for
its tenant, and every subject is at one of its villages. The rest is about the tree: `BranchIs`,
the walk up from a place meets one place a level; `SyncersAre`, the catchments on such a walk are the
village's own and one supervisor's, whose users are its field workers and that supervisor; `EndsPermitted`,
the line is cut where the first subject type may be registered, so that is what its last level is,
and from there to the type the subjects are of leads `WideAsTheFirst`.
Under these lie lemmas about what the builder's recursive functions compute: that the lines of
types exist (`LinesExist`), that a level has at least one place and the levels' places
follow one another (`PlacesAre`), that no two leaves share an address (`LeavesAre`). What they assume of
the constants is in `DatasetAssumption`: every organisation has references, its location types form
a forest, where subjects may be registered is among them (`main` refuses a target of which that
is not so before a row is written), and the measured levels are a sequence with positive ratios.

`GatesProofs`. `BuiltAsRecorded`, `BlessingsAreAccountedFor` and `CalibrationsAreTested`.
`BuiltFromItsRecipe` is inductive as it stands, because every change of the recipe or a bundle
clears the answer; the work is in the case of a command, where the refusals have to add up. The
second rests on `StatisticsAreNumbers`, and on every check's tolerance being no wider than its outer
bound; it says nothing of a waiver that names no value, as the code asks nothing of it. The third rests on `SyncsAreNumbers` and is about what the tool computes: no two rows share a
rank, so that `sorted` loses and invents none (`RanksAreTaken`, `SortedAreTheirs`); a median lies
between two of the numbers (`MedianIsBetween`); the loop of `cohorts` ends with cohorts of the
given syncs, none of them empty (`CohortsAreTheirs`). Then two medians that are twice apart have two
syncs behind them that are (`SlopesSpan`).

`BackupProofs`. `CompleteIsWhole` is `CompleteHoursAreWhole`. It needs, at every point of a run, that
what the run means to save is as sound as what is saved (`RunIsSound`), that no hour is recorded before
it ended (in `SavedIsSound`), and that while an hour is fetched, what was counted covers what is
retained, and what was fetched was counted (`FetchIsSound`): then as many rows as were counted
are the rows that were counted. `ExitIsTrue` needs types (`TypesAreKept`) and `TellInv`: an hour the
run has behind it is whole or told of; a window holds no more than it was counted to, and what is
retained is fetched or in a window to come, unless a shortfall was noted; a cut manifest stops
the next run. `ReadsMissNothing` is arithmetic: an hour overlaps a window whenever one of its
rows lies in it, and in one run of the log only.

Induction over data. The library's induction theorems take an operator as a parameter, which the
installed provers cannot instantiate. Where a recursive function has to be reasoned about, the
proofs use induction in the form of a set that holds 0 and is closed under successor
(`NatSetInduction`, proved from the well-foundedness of `<`): the set is that of the numbers
for which the function's equation can be solved, or the claim holds. `LoopsEnd` and
`CohortsAreTheirs` take the least number for which it does not, and contradict it.

Termination. That a sync, a pass and an export end is a liveness property, and the prover does no
liveness under fairness. What it takes besides fairness is safety, and is proved, in the `Proofs`
modules that state it (the runs check the ends themselves): `EveryStepAdvances`,
`EveryPassAdvances` and `EveryQueryAdvances` say of every step of the three loops that it goes to
a later place or leaves less to do in the one it is at, in an order in which no run goes down
forever. `StepsAdvance`: places along the chain, then the files, records, pages or details of a
loop; a failed page, which leaves "more pages" as it was, leads out of the loop
(`FailedLoopEnds`). `PassesAdvance`: tenants of the recipe, then the steps of one, then the
readings of its import's status. `QueriesAdvance`: types, then hours, then windows, where a window
is halved only if it is wider than a millisecond, and then strictly (`MiddleIsInside`).

Only model-checked: the liveness properties themselves (`EverySyncEnds`, `EveryPassEnds`,
`EveryExportEnds`, and `SessionsAreCollected`). Every invariant and every action property that
a run checks is stated by a theorem.

## Plan

Done: the simulation, provisioning and swap (the core), then the organisation's rows, the
generator, its gates and the backup, each with its runs and the theorems that matter most. What
would come next, in order:

1. `RunArchive`: `gatlingRun`, the constructor's startup checks, the settings file,
   `sync-durations.csv`, `archiveRun` and `archive-runs.sh`, for a sequence of runs that are
   refused, crash or finish: no report carries another run's settings.
2. `CoTenantRestore`: the regenerated tenants laid over the base tree, its empty check and its
   load, composed with `DatasetSwap`'s sessions.

## Not modelled, and why

- Sign-in (`CognitoHelper`), the bodies of telemetry and pushed records, think time and
  the storage pause: data or duration that no property here tells apart.
- Distributions: which values are drawn and how often (`distribution.py`, `profile.py`,
  `observations.py`, `PushVolume`, `StorageModel`). The model chooses any value in range; whether
  the shape is right is a statistical question the unit tests ask.
- Parsing a bundle (`bundle.py`) and surveying a target (`survey.py`): read-only translations of
  one format into another; `Dataset` and `Gates` start from their result.
- In `Dataset`: observations, names, uuids and last-modified times; ties between lines of
  location types of equal length, where the code's choice follows the order of the dump.
- `restore-co-tenants.sh`, `restore-benchmark.sh`, `reset-transactional.sql`: linear
  checklists around loads like those of `DatasetSwap` and `Organisation`. A half-failed load
  is met by the script's own refusal on the re-run, which is what its preflight is for.
- The run ritual and archive: the settings file and the report directory outlive a refused
  run, but in what order Gradle runs a finaliser after a refused task is not this code's.
- The run log and the analysis tools: reports over finished runs, no state between calls.
- SQL for measurement and the CI workflows: read-only, or outside the program.
- In `DatasetSwap`: VACUUM, REINDEX and ANALYZE beyond their failing, the feeder check
  (it prints), and the tables' own columns; the provenance cut is `Organisation`'s. An archive has
  manifests of the pilot's organisations only, so that of `ProveTargets`' comparison the half that
  finds a foreign one does not occur.
- In `Organisation`: the columns of a row that an upsert finds and keeps, but for the location type,
  and a load that collides on an id where it does not collide on a uuid (`teardown_org.py:79-82`).
- In `Backup`: the credentials, the CSV and JSON of its files, and the retries within a query;
  the two counts of a split window (L129) are one step, with no arrival or expiry between them.
