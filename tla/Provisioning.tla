---------------------------- MODULE Provisioning ----------------------------
(***************************************************************************)
(* tools/provision-co-tenants.sh and the tools/provision-org.sh it calls:  *)
(* the resumable loop that creates the co-tenant organisations of a recipe *)
(* and imports a bundle into each.  A pass of the script is a process; the *)
(* server's import jobs run beside it; a pass may crash between any two    *)
(* steps, be asked to stop, and be started again.  What survives a pass is *)
(* the server, the log and the in-flight file.                             *)
(*                                                                         *)
(* The server is external: an organisation's name is unique, an answer may *)
(* be lost after its request took effect, and an import job may end, well  *)
(* or badly, with any part of the bundle in place.                         *)
(***************************************************************************)
EXTENDS Integers, FiniteSets, Sequences

CONSTANTS
    Operators,   \* whoever runs the script
    Logs,        \* --log files
    LogOf,       \* LogOf[o]: the log operator o passes
    Recipe,      \* the tenants the loop is given, in recipe order
    Others,      \* organisations the server has beside them
    NoTenant,    \* "no in-flight file"
    Limit,       \* --limit, 0 for none
    Polls,       \* how often provision-org.sh reads the job's status
    ProbeFails,  \* whether a concept count, the server's or the bundle's, may be unreadable
    Truncates,   \* whether GET /organisation may answer short
    MaxPasses    \* bound: passes one operator starts

Tenants == {Recipe[i] : i \in DOMAIN Recipe}
Amounts == {"none", "some", "all"}
Importing == {"create", "user", "upload", "poll", "check"}
Locations == {"down", "next", "probe", "mark", "landed", "died", "clear", "exited"}
                 \cup Importing
Resting == {"down", "exited"}

ASSUME RecipeAssumption ==
    /\ Recipe \in Seq(Tenants) /\ Recipe # <<>>
    /\ \A i, j \in DOMAIN Recipe : Recipe[i] = Recipe[j] => i = j
    /\ Others \cap Tenants = {} /\ NoTenant \notin Tenants
    /\ IsFiniteSet(Others)
ASSUME OperatorAssumption == LogOf \in [Operators -> Logs]
ASSUME LimitAssumption ==
    /\ Limit \in Nat /\ Polls \in Nat \ {0} /\ MaxPasses \in Nat
    /\ ProbeFails \in BOOLEAN /\ Truncates \in BOOLEAN

VARIABLES
    \* the server
    orgs,        \* names of the organisations it has
    concepts,    \* tenant -> how much of the bundle's concepts it carries
    forms,       \* tenant -> how much of the bundle's form mappings it carries
    job,         \* tenant -> its latest import job
    imports,     \* tenant -> imports accepted since the organisation was created
    \* the files
    inflight,    \* log -> the tenant in <log>.inflight, or NoTenant
    lastRow,     \* log -> tenant -> the status of its latest row
    \* one pass of the script per operator
    pc,          \* where it stands
    memory,      \* what it remembers
    exit,        \* the exit status of the last pass
    passes,      \* passes started
    \* for the properties only
    unlogged     \* log -> tenants created through it that have no row yet

serverVars == <<orgs, concepts, forms, job, imports>>
fileVars == <<inflight, lastRow, unlogged>>
vars == <<serverVars, fileVars, pc, memory, exit, passes>>

\* What a pass remembers; what it skipped and sinceStop are for the properties.
Memory == [
    at : 1..(Len(Recipe) + 1),  \* the tenant in hand, an index into Recipe
    first : 1..(Len(Recipe) + 1), \* the tenant --from named; past the last for none
    baseline : Nat,             \* BASELINE
    done : Nat,                 \* done_n
    failures : Nat,             \* failed
    polls : 0..(Polls - 1),     \* how often the job's status was read
    stop : BOOLEAN,             \* STOP
    verified : SUBSET Tenants,  \* tenants it skipped, having read their concept count
    unverified : SUBSET Tenants, \* tenants it skipped without
    sinceStop : Nat]            \* tenants it started after the stop request

StartingAt(from) ==
    [at |-> from, first |-> from, baseline |-> 0, done |-> 0, failures |-> 0,
     polls |-> 0, stop |-> FALSE, verified |-> {}, unverified |-> {}, sinceStop |-> 0]

InHand(o) == Recipe[memory[o].at]

-----------------------------------------------------------------------------
(* Moving a pass on.                                                        *)

Goto(o, next) == pc' = [pc EXCEPT ![o] = next]
Remember(o, m) == memory' = [memory EXCEPT ![o] = m]

\* exit n
Exit(o, code) ==
    /\ Goto(o, "exited")
    /\ exit' = [exit EXCEPT ![o] = code]

\* The in-flight file stops a pass before it starts.
NothingInFlight(o) == inflight[LogOf[o]] = NoTenant

\* A pass starts, at the tenant --from names; or refuses to, with exit 4.  A --from
\* that names no tenant skips them all, and a recipe that cannot be read gives the
\* loop none: nothing tells either from a recipe that has been walked.
Start(o) ==
    /\ pc[o] \in Resting /\ passes[o] < MaxPasses
    /\ passes' = [passes EXCEPT ![o] = @ + 1]
    /\ \E from \in 1..(Len(Recipe) + 1) : Remember(o, StartingAt(from))
    /\ IF NothingInFlight(o) THEN Goto(o, "next") /\ UNCHANGED exit ELSE Exit(o, 4)
    /\ UNCHANGED <<serverVars, fileVars>>

\* Slips: a pass with failures ends like one without, or says how many.
AlwaysZero(o) == 0
HowMany(o) == memory[o].failures

\* The last line of the script.
ExitStatus(o) == IF memory[o].failures = 0 THEN 0 ELSE 1

\* The loop ends: the recipe is exhausted, or --limit is reached.
LoopOver(o) ==
    \/ memory[o].at > Len(Recipe)
    \/ Limit > 0 /\ memory[o].done >= Limit

Finish(o) ==
    /\ pc[o] = "next" /\ LoopOver(o)
    /\ Exit(o, ExitStatus(o))
    /\ UNCHANGED <<serverVars, fileVars, memory, passes>>

\* What GET /organisation may answer: everything, nothing when it fails, and
\* less than everything where the server truncates.
Answers == IF Truncates THEN SUBSET orgs ELSE {orgs, {}}

\* Slip: every name looks absent.
NeverPresent(list, name) == FALSE

\* The name guard.
Present(list, name) == name \in list

\* existing, guard_count and the name guard: the list is read again for every
\* tenant, and a list shorter than what is known to exist ends the pass.
ReadList(o) ==
    /\ pc[o] = "next" /\ ~LoopOver(o)
    /\ \E list \in Answers :
       LET base == IF memory[o].baseline = 0 THEN Cardinality(list)
                                             ELSE memory[o].baseline
       IN
       /\ Remember(o, [memory[o] EXCEPT !.baseline = base])
       /\ IF list = {} \/ Cardinality(list) < base + memory[o].done THEN Exit(o, 3)
          ELSE /\ Goto(o, IF Present(list, InHand(o)) THEN "probe" ELSE "mark")
               /\ UNCHANGED exit
    /\ UNCHANGED <<serverVars, fileVars, passes>>

\* Slip: the tenant that was skipped is read again.
SamePlace(o) == memory[o].at

\* The while loop reads the next tenant.
NextPlace(o) == memory[o].at + 1

\* Slip: only an organisation without a single concept counts as short.
ShortIfEmpty(amount) == amount = "none"

\* got < want
ShortOfConcepts(amount) == amount # "all"

\* The tenant skipped is left behind.
Skip(o, m) ==
    /\ Remember(o, [m EXCEPT !.at = NextPlace(o)])
    /\ Goto(o, "next")
    /\ UNCHANGED exit

\* The tenant is present by name.  Short of the bundle's concepts, it ends the pass;
\* otherwise it is skipped, and so it is on its name alone when the organisation's
\* count cannot be read or the bundle's own is 0.
Probe(o) ==
    /\ pc[o] = "probe"
    /\ \/ /\ ShortOfConcepts(concepts[InHand(o)])
          /\ Exit(o, 5)
          /\ UNCHANGED memory
       \/ /\ ~ShortOfConcepts(concepts[InHand(o)])
          /\ Skip(o, [memory[o] EXCEPT !.verified = @ \cup {InHand(o)}])
       \/ /\ ProbeFails
          /\ Skip(o, [memory[o] EXCEPT !.unverified = @ \cup {InHand(o)}])
    /\ UNCHANGED <<serverVars, fileVars, passes>>

\* Slip: the in-flight file is not written.
LeaveNoTrace(o, tenant) == inflight

\* The in-flight file, written before the organisation can exist.
Traced(o, tenant) == [inflight EXCEPT ![LogOf[o]] = tenant]

MarkInflight(o) ==
    /\ pc[o] = "mark"
    /\ inflight' = Traced(o, InHand(o))
    /\ Remember(o, [memory[o] EXCEPT !.sinceStop = IF memory[o].stop THEN @ + 1 ELSE @])
    /\ Goto(o, "create")
    /\ UNCHANGED <<serverVars, lastRow, unlogged, exit, passes>>

-----------------------------------------------------------------------------
(* provision-org.sh, for the tenant in hand; die() ends it with exit 1.      *)

Die(o) == Goto(o, "died")

\* POST /organisation.  One that exists is looked up and continued with; an
\* answer that is lost, or is anything else, is the end.
CreateOrg(o) ==
    /\ pc[o] = "create"
    /\ \/ /\ InHand(o) \notin orgs
          /\ orgs' = orgs \cup {InHand(o)}
          /\ unlogged' = [unlogged EXCEPT ![LogOf[o]] = @ \cup {InHand(o)}]
          /\ Goto(o, "user") \/ Die(o)
       \/ /\ InHand(o) \in orgs /\ Goto(o, "user")
          /\ UNCHANGED <<orgs, unlogged>>
       \/ Die(o) /\ UNCHANGED <<orgs, unlogged>>
    /\ UNCHANGED <<concepts, forms, job, imports, inflight, lastRow, memory, exit, passes>>

\* POST /user, the group lookup and POST /userGroup.
SetUpUser(o) ==
    /\ pc[o] = "user"
    /\ (InHand(o) \in orgs /\ Goto(o, "upload")) \/ Die(o)
    /\ UNCHANGED <<serverVars, fileVars, memory, exit, passes>>

\* POST /import/new: the server runs the import as a batch job.
UploadBundle(o) ==
    /\ pc[o] = "upload"
    /\ \/ /\ InHand(o) \in orgs
          /\ job' = [job EXCEPT ![InHand(o)] = "running"]
          /\ imports' = [imports EXCEPT ![InHand(o)] = @ + 1]
          /\ Goto(o, "poll") \/ Die(o)
       \/ Die(o) /\ UNCHANGED <<job, imports>>
    /\ UNCHANGED <<orgs, concepts, forms, fileVars, memory, exit, passes>>

\* One read of /import/status.  The loop ends on COMPLETED, and also when it has
\* been read Polls times; an unreadable status is read again.
PollStatus(o) ==
    /\ pc[o] = "poll"
    /\ LET last == memory[o].polls + 1 = Polls IN
       \/ /\ job[InHand(o)] = "completed" /\ Goto(o, "check")
          /\ Remember(o, [memory[o] EXCEPT !.polls = 0])
       \/ /\ job[InHand(o)] = "failed" /\ Die(o)
          /\ Remember(o, [memory[o] EXCEPT !.polls = 0])
       \/ /\ Goto(o, IF last THEN "check" ELSE "poll")
          /\ Remember(o, [memory[o] EXCEPT !.polls = IF last THEN 0 ELSE @ + 1])
    /\ UNCHANGED <<serverVars, fileVars, exit, passes>>

\* Did it actually land?  Each kind of content the bundle has must be there in
\* some number; a count that cannot be read is zero.
CheckLanded(o) ==
    /\ pc[o] = "check"
    /\ \/ concepts[InHand(o)] # "none" /\ forms[InHand(o)] # "none" /\ Goto(o, "landed")
       \/ Die(o)
    /\ UNCHANGED <<serverVars, fileVars, memory, exit, passes>>

-----------------------------------------------------------------------------
(* After the tenant.                                                        *)

\* The durable row.
AppendRow(o) ==
    /\ pc[o] \in {"landed", "died"}
    /\ LET ok == pc[o] = "landed" IN
       /\ lastRow' = [lastRow EXCEPT ![LogOf[o]][InHand(o)] = IF ok THEN "ok" ELSE "FAILED"]
       /\ Remember(o, IF ok THEN [memory[o] EXCEPT !.done = @ + 1]
                             ELSE [memory[o] EXCEPT !.failures = @ + 1])
    /\ unlogged' = [unlogged EXCEPT ![LogOf[o]] = @ \ {InHand(o)}]
    /\ Goto(o, "clear")
    /\ UNCHANGED <<serverVars, inflight, exit, passes>>

\* Slip: the flag is never read.
NeverStops(o) == FALSE

\* [ "$STOP" -eq 1 ], read here and nowhere else.
StopRequested(o) == memory[o].stop

\* The in-flight file goes after the row is durable, then the flag is read.
ClearInflight(o) ==
    /\ pc[o] = "clear"
    /\ inflight' = [inflight EXCEPT ![LogOf[o]] = NoTenant]
    /\ Remember(o, [memory[o] EXCEPT !.at = NextPlace(o)])
    /\ IF StopRequested(o) THEN Exit(o, ExitStatus(o))
                           ELSE Goto(o, "next") /\ UNCHANGED exit
    /\ UNCHANGED <<serverVars, lastRow, unlogged, passes>>

-----------------------------------------------------------------------------
(* What happens to a pass.                                                  *)

\* SIGTERM or SIGINT: on_stop.
RequestStop(o) ==
    /\ pc[o] \notin Resting /\ ~memory[o].stop
    /\ Remember(o, [memory[o] EXCEPT !.stop = TRUE])
    /\ UNCHANGED <<serverVars, fileVars, pc, exit, passes>>

\* A dropped connection, a sleeping laptop: the pass is gone.
Crash(o) ==
    /\ pc[o] \notin Resting
    /\ Goto(o, "down")
    /\ Remember(o, StartingAt(1))
    /\ UNCHANGED <<serverVars, fileVars, exit, passes>>

\* The import job, on the server.
RunImport(t) ==
    /\ job[t] = "running"
    /\ \/ concepts[t] = "none" /\ concepts' = [concepts EXCEPT ![t] = "some"]
          /\ UNCHANGED <<forms, job>>
       \/ concepts[t] = "some" /\ concepts' = [concepts EXCEPT ![t] = "all"]
          /\ UNCHANGED <<forms, job>>
       \/ forms[t] = "none" /\ forms' = [forms EXCEPT ![t] = "some"]
          /\ UNCHANGED <<concepts, job>>
       \/ forms[t] = "some" /\ forms' = [forms EXCEPT ![t] = "all"]
          /\ UNCHANGED <<concepts, job>>
       \/ \E verdict \in {"completed", "failed"} : job' = [job EXCEPT ![t] = verdict]
          /\ UNCHANGED <<concepts, forms>>
    /\ UNCHANGED <<orgs, imports, fileVars, pc, memory, exit, passes>>

\* Removing an organisation takes what was imported into it.
Remove(t) ==
    /\ orgs' = orgs \ {t}
    /\ concepts' = [concepts EXCEPT ![t] = "none"]
    /\ forms' = [forms EXCEPT ![t] = "none"]
    /\ job' = [job EXCEPT ![t] = "none"]
    /\ imports' = [imports EXCEPT ![t] = 0]
    /\ unlogged' = [l \in Logs |-> unlogged[l] \ {t}]

Whole(t) == concepts[t] = "all" /\ forms[t] = "all"

\* The operator does what exit 4 asks: "Check it, remove it if it is short, then
\* delete" the in-flight file.
DealWithInflight(o) ==
    LET t == inflight[LogOf[o]] IN
    /\ pc[o] = "exited" /\ exit[o] = 4 /\ t # NoTenant
    /\ inflight' = [inflight EXCEPT ![LogOf[o]] = NoTenant]
    /\ IF Whole(t)
       THEN /\ unlogged' = [unlogged EXCEPT ![LogOf[o]] = @ \ {t}]
            /\ UNCHANGED serverVars
       ELSE Remove(t)
    /\ UNCHANGED <<lastRow, pc, memory, exit, passes>>

\* The operator does what exit 5 asks: "Remove $NAME, then re-run."
RemoveShort(o) ==
    /\ pc[o] = "exited" /\ exit[o] = 5 /\ InHand(o) \in orgs
    /\ Remove(InHand(o))
    /\ UNCHANGED <<inflight, lastRow, pc, memory, exit, passes>>

-----------------------------------------------------------------------------

Init ==
    /\ orgs = Others
    /\ concepts = [t \in Tenants |-> "none"]
    /\ forms = [t \in Tenants |-> "none"]
    /\ job = [t \in Tenants |-> "none"]
    /\ imports = [t \in Tenants |-> 0]
    /\ inflight = [l \in Logs |-> NoTenant]
    /\ lastRow = [l \in Logs |-> [t \in Tenants |-> "none"]]
    /\ pc = [o \in Operators |-> "down"]
    /\ memory = [o \in Operators |-> StartingAt(1)]
    /\ exit = [o \in Operators |-> 0]
    /\ passes = [o \in Operators |-> 0]
    /\ unlogged = [l \in Logs |-> {}]

\* The next thing the script does.
Proceed(o) ==
    \/ Finish(o) \/ ReadList(o) \/ Probe(o) \/ MarkInflight(o)
    \/ CreateOrg(o) \/ SetUpUser(o) \/ UploadBundle(o) \/ PollStatus(o)
    \/ CheckLanded(o) \/ AppendRow(o) \/ ClearInflight(o)

Next ==
    \/ \E o \in Operators :
          \/ Start(o) \/ Proceed(o) \/ RequestStop(o) \/ Crash(o)
          \/ DealWithInflight(o) \/ RemoveShort(o)
    \/ \E t \in Tenants : RunImport(t)

\* A pass that is running goes on: every curl has --max-time.  Nothing is assumed
\* of the server's jobs, of the operator or of the answers.
Fairness == \A o \in Operators : WF_vars(Proceed(o))

Spec == Init /\ [][Next]_vars /\ Fairness

-----------------------------------------------------------------------------
(* What the script must get right.                                          *)

\* A pass that has a tenant in hand, or exited because of one.
HoldsTenant(o) ==
    \/ pc[o] \in {"probe", "mark", "landed", "died", "clear"} \cup Importing
    \/ pc[o] = "exited" /\ exit[o] = 5

\* Every variable stays in its type, and a tenant in hand is one of the recipe's.
TypeOK ==
    /\ orgs \subseteq Tenants \cup Others
    /\ concepts \in [Tenants -> Amounts] /\ forms \in [Tenants -> Amounts]
    /\ job \in [Tenants -> {"none", "running", "completed", "failed"}]
    /\ imports \in [Tenants -> Nat]
    /\ inflight \in [Logs -> Tenants \cup {NoTenant}]
    /\ lastRow \in [Logs -> [Tenants -> {"none", "ok", "FAILED"}]]
    /\ pc \in [Operators -> Locations]
    /\ memory \in [Operators -> Memory]
    /\ \A o \in Operators : HoldsTenant(o) => memory[o].at <= Len(Recipe)
    /\ exit \in [Operators -> {0, 1, 3, 4, 5}] /\ passes \in [Operators -> Nat]
    /\ unlogged \in [Logs -> SUBSET Tenants]

\* "An unplanned interruption still leaves <log>.inflight behind": whatever was
\* created and has no row yet is named by the in-flight file, wherever a pass
\* crashes.
StartsAreTraced == \A l \in Logs : unlogged[l] \subseteq {inflight[l]}

\* Across crashes, restarts and failures, no bundle is imported twice into one
\* organisation: the server's list is the guard.
ImportedOnce == \A t \in Tenants : imports[t] <= 1

\* "-1 is 'the probe failed', which is not evidence": what was skipped on a count
\* that was read is not short of concepts while it exists, whatever its import job,
\* the later tenants and the removals between passes do.
SkippedAreWhole ==
    \A o \in Operators : \A t \in memory[o].verified : t \in orgs => concepts[t] = "all"

\* Exit 0 of a pass that reached the end of the recipe: every tenant from the one it
\* started at on is on the server, whatever earlier passes left.
SuccessCoversTheRecipe ==
    \A o \in Operators :
        pc[o] = "exited" /\ exit[o] = 0 /\ memory[o].at > Len(Recipe)
          => \A i \in memory[o].first..Len(Recipe) : Recipe[i] \in orgs

\* A stop request is honoured after one more tenant at the latest: the flag is read
\* after an import and not where a tenant is skipped, so one that arrives while the
\* pass is skipping lets it start the next (see StopStartsNone).
StopStartsAtMostOne == \A o \in Operators : memory[o].sinceStop <= 1

\* A pass ends by itself, however the server answers: no loop waits for an
\* import that never finishes.
EveryPassEnds == \A o \in Operators : (pc[o] = "next") ~> (pc[o] \in Resting)

-----------------------------------------------------------------------------
(* What the repository says and the code does not do.  The first four are    *)
(* refuted together, by the last.                                            *)

\* "a skip is taken only when the organisation's concept count matches the
\* bundle's" (provision-co-tenants.sh:26-27): nothing a pass skipped is short.
SkipsAreVerified ==
    \A o \in Operators : \A t \in memory[o].verified \cup memory[o].unverified :
        t \in orgs => concepts[t] = "all"

\* "AND IT CAN BE STOPPED WITHOUT CREATING ONE" (provision-co-tenants.sh:30-31): no
\* organisation is started after the request.
StopStartsNone == \A o \in Operators : memory[o].sinceStop = 0

\* "stopped after $NAME, between tenants. Nothing was left half-imported."
\* (provision-co-tenants.sh:229): when a pass ends with 0 short of its end, which
\* only a stop request brings about, no import is still running short of its bundle.
StoppedBetweenImports ==
    \A o \in Operators :
        pc[o] = "exited" /\ exit[o] = 0 /\ ~LoopOver(o)
          => \A t \in Tenants : job[t] = "running" => Whole(t)

\* "--from co-200     start at a tenant" (provision-co-tenants.sh:8): a pass that
\* ends with 0 started at one.
SuccessStartsAtATenant ==
    \A o \in Operators :
        pc[o] = "exited" /\ exit[o] = 0 /\ passes[o] > 0 => memory[o].first \in DOMAIN Recipe

\* Of these four promises the passes of an operator keep one at least.  Refuted: one
\* operator's three passes break all four.
APromiseIsKept ==
    \/ []SkipsAreVerified \/ []StopStartsNone
    \/ []StoppedBetweenImports \/ []SuccessStartsAtATenant

=============================================================================
