----------------------------- MODULE DatasetSwap -----------------------------
(***************************************************************************)
(* tools/swap-dataset.sh with the SQL that teardown_org.py and the data    *)
(* generator's load_script write for it: empty the pilot's organisations,  *)
(* load another generated dataset into them, raise the id sequences.       *)
(*                                                                         *)
(* Every long phase is a psql session, detached on the client host, whose  *)
(* exit status lands in a file the driver polls for over ssh.  The driver  *)
(* runs on a laptop: it may die at any point, its sessions do not, and the *)
(* next run of the script neither sees them nor waits for them.  A teardown *)
(* is one transaction; a load commits table by table.                      *)
(*                                                                         *)
(* The database is external: a statement may fail at any time, a copy does *)
(* fail on a key that is there already or a parent that is not.            *)
(***************************************************************************)
EXTENDS Integers, Sequences, FiniteSets

CONSTANTS
    Pilot,     \* the pilot's organisations, in the order of their directories
    Tables,    \* the tables of a dataset, in LOAD_ORDER
    Counted,   \* the table counted after the teardown: individual
    Datasets,  \* what the generator has generated for the pilot
    Archives,  \* those of them staged under datasets/
    InPlace,   \* the dataset loaded before the first swap
    Top,       \* Top[d][o]: the highest id dataset d gives organisation o
    MaxSwaps   \* bound: runs of the script

Orgs == {Pilot[i] : i \in DOMAIN Pilot}
TableSet == {Tables[i] : i \in DOMAIN Tables}
SessionPhases == {"td", "load", "seqfix"}
Waiting == {"tearing", "loading", "fixing"}
Active == Waiting \cup {"fetch", "prove", "indexes", "teardown", "count",
                        "vacuum", "load", "seqfix", "finish"}
Locations == Active \cup {"idle", "down", "failed", "done"}

ASSUME PilotAssumption ==
    /\ Pilot \in Seq(Orgs) /\ Pilot # <<>>
    /\ Tables \in Seq(TableSet) /\ Counted \in TableSet
    /\ IsFiniteSet(Datasets)
    /\ InPlace \in Datasets /\ Archives \subseteq Datasets
    /\ Top \in [Datasets -> [Orgs -> Nat]]
    /\ MaxSwaps \in Nat

VARIABLES
    \* the database
    rows,        \* organisation -> table -> datasets whose rows it holds
    lastValue,   \* table -> last_value of its id sequence
    scaffolding, \* whether the temporary indexes may exist
    \* the client host
    files,       \* dataset -> organisation -> what /tmp/<dataset> has of it
    sessions,    \* the psql sessions, with their rc files
    \* the driver
    pc,          \* where the script stands
    run          \* what it remembers

database == <<rows, lastValue, scaffolding>>
vars == <<database, files, sessions, pc, run>>

\* The last three are for the properties: whether the run began while a session
\* of an earlier one was still at work, whether its archive was extracted in
\* part, and whether an ssh call was lost that the script does not miss: the
\* verdict on its sessions, or the copy of a teardown's SQL to the client.
Run == [n : 0..MaxSwaps, set : Datasets, parallel : BOOLEAN,
        overlapped : BOOLEAN, torn : BOOLEAN, lost : BOOLEAN]

\* What /tmp/<dataset> has of an organisation: nothing, a manifest, the load.sql
\* beside it, or every file.
Extents == {"none", "manifest", "script", "whole"}

-----------------------------------------------------------------------------
(* The SQL files.                                                           *)

Lines(op, org) ==
    [i \in DOMAIN Tables |-> [op |-> op, org |-> org, table |-> Tables[i]]]

\* One tenant's load.sql: the copies, a setval per table, the upward-only block.
LoadFile(org) == Lines("copy", org) \o Lines("setval", org) \o Lines("raise", org)

\* Slip: a parallel session runs the tail of its file too.
WholeFile(org) == LoadFile(org)

\* The copy lines that a parallel session keeps of it.
CopyLines(org) == Lines("copy", org)

\* A sequential session includes one tenant's file after another.
EveryFile(orgs) ==
    LET upTo[k \in 0..Len(orgs)] ==
            IF k = 0 THEN <<>> ELSE upTo[k - 1] \o LoadFile(orgs[k])
    IN  upTo[Len(orgs)]

Script(phase, orgs) ==
    CASE phase = "td" -> <<[op |-> "delete"]>>
      [] phase = "seqfix" -> Lines("raise", orgs[1])
      [] OTHER -> IF ~run.parallel THEN EveryFile(orgs)
                  ELSE IF files[run.set][orgs[1]] = "manifest"
                  THEN <<>>  \* no load.sql to grep
                  ELSE CopyLines(orgs[1])

\* The file a session is given.  A teardown's is sent through a pipe of its own,
\* whose status is not asked for: cut short, it holds no COMMIT.
File(phase, orgs, cut) == IF orgs \in cut THEN <<>> ELSE Script(phase, orgs)

-----------------------------------------------------------------------------
(* The psql sessions.                                                       *)

Unread == -1

Running == {s \in sessions : s.rc = "running"}
At(s, op) == s.rc = "running" /\ Head(s.todo).op = op

\* The highest id in a table's committed rows.
Highest(t) ==
    LET held == {0} \cup UNION {{Top[d][o] : d \in rows[o][t]} : o \in Orgs}
    IN  CHOOSE id \in held : \A other \in held : other <= id

Becomes(s, next) == sessions' = (sessions \ {s}) \cup {next}

LastStatement(s) == Len(s.todo) = 1

\* The statement is done; after the last one psql exits with 0.
Advance(s) ==
    Becomes(s, [s EXCEPT !.todo = Tail(@), !.seen = Unread,
                         !.rc = IF LastStatement(s) THEN "ok" ELSE @])

\* Slip: only a session that succeeded writes its rc file.
SilentFailure(s) == Becomes(s, [s EXCEPT !.rc = "absent"])

\* ON_ERROR_STOP: psql exits at the first statement that fails, and the status
\* goes to the rc file either way.
Stop(s) == Becomes(s, [s EXCEPT !.rc = "failed"])

\* A session goes wrong: an error, a lost connection.
FailStatement(s) ==
    /\ s.rc = "running" /\ Stop(s)
    /\ UNCHANGED <<database, files, pc, run>>

\* teardown_org.py's transaction commits: all of its organisations, all tables.
CommitTeardown(s) ==
    /\ At(s, "delete") /\ Advance(s)
    /\ rows' = [o \in Orgs |->
                   IF \E i \in DOMAIN s.orgs : s.orgs[i] = o
                   THEN [t \in TableSet |-> {}] ELSE rows[o]]
    /\ UNCHANGED <<lastValue, scaffolding, files, pc, run>>

\* One \copy, committed on its own: the file is there, its keys are not, and
\* the tables it references are loaded.
CopyTable(s) ==
    /\ At(s, "copy") /\ Advance(s)
    /\ LET line == Head(s.todo) IN
       /\ files[s.set][line.org] = "whole"
       /\ s.set \notin rows[line.org][line.table]
       /\ \A i, j \in DOMAIN Tables :
             i < j /\ Tables[j] = line.table => rows[line.org][Tables[i]] # {}
       /\ rows' = [rows EXCEPT ![line.org][line.table] = @ \cup {s.set}]
    /\ UNCHANGED <<lastValue, scaffolding, files, pc, run>>

\* The first half of a sequence statement: MAX(id) is read.
ReadHighest(s) ==
    /\ At(s, "setval") \/ At(s, "raise")
    /\ s.seen = Unread
    /\ Becomes(s, [s EXCEPT !.seen = Highest(Head(s.todo).table)])
    /\ UNCHANGED <<database, files, pc, run>>

\* Slip: the block lowers and never raises.
RaisesTo(loaded, current) == IF loaded < current THEN loaded ELSE current

\* IF loaded > current_pos
Raised(loaded, current) == IF loaded > current THEN loaded ELSE current

\* The second half: setval, unconditionally or upwards only.
SetSequence(s) ==
    /\ s.rc = "running" /\ s.seen # Unread /\ Advance(s)
    /\ LET line == Head(s.todo) IN
       lastValue' = [lastValue EXCEPT ![line.table] =
                        IF line.op = "setval" THEN s.seen ELSE Raised(s.seen, @)]
    /\ UNCHANGED <<rows, scaffolding, files, pc, run>>

-----------------------------------------------------------------------------
(* The driver.                                                              *)

Goto(next) == pc' = next
Exit == Goto("failed")

\* Which sessions a phase has: one for all the pilot, or one per organisation.
Wanted(phase) ==
    IF run.parallel /\ phase # "seqfix" THEN {<<o>> : o \in Orgs} ELSE {Pilot}

Own(phase) == {s \in sessions : s.swap = run.n /\ s.phase = phase}

\* The script is started for a dataset, past its preflight, with a new tag.
Start ==
    /\ pc \notin Active /\ run.n < MaxSwaps
    /\ \E d \in Archives, p \in BOOLEAN :
          run' = [n |-> run.n + 1, set |-> d, parallel |-> p,
                  overlapped |-> Running # {}, torn |-> FALSE, lost |-> FALSE]
    /\ sessions' = Running
    /\ Goto("fetch")
    /\ UNCHANGED <<database, files>>

\* 1. rm, download and extraction; an extraction that stops is not noticed here.
Fetch ==
    /\ pc = "fetch" /\ Goto("prove")
    /\ \E extracted \in [Orgs -> Extents] :
          /\ Cardinality({o \in Orgs : extracted[o] \in {"manifest", "script"}}) <= 1
          /\ files' = [files EXCEPT ![run.set] = extracted]
          /\ run' = [run EXCEPT !.torn = \E o \in Orgs : extracted[o] # "whole"]
    /\ UNCHANGED <<database, sessions>>

\* Slip: some of the organisations are targeted, and no other.
NoneForeign(found) == found \subseteq Orgs

\* The organisations the extracted manifests target are exactly the pilot's.
TargetsThePilot(found) == found = Orgs

ProveTargets ==
    /\ pc = "prove"
    /\ \/ /\ TargetsThePilot({o \in Orgs : files[run.set][o] # "none"})
          /\ Goto("indexes")
       \/ Exit
    /\ UNCHANGED <<database, files, sessions, run>>

\* 2. The scaffolding indexes.
CreateIndexes ==
    /\ pc = "indexes"
    /\ \/ scaffolding' = TRUE /\ Goto("teardown")
       \/ scaffolding' \in {scaffolding, TRUE} /\ Exit
    /\ UNCHANGED <<rows, lastValue, files, sessions, run>>

\* The sessions of a phase are launched in one ssh call, whose loss leaves some
\* of them unstarted.  One with nothing to do exits with 0.
Launch(phase, cut) ==
    \E started \in SUBSET Wanted(phase) :
        sessions' = sessions \cup
            {[swap |-> run.n, phase |-> phase, orgs |-> w, set |-> run.set,
              todo |-> File(phase, w, cut), seen |-> Unread,
              rc |-> IF File(phase, w, cut) = <<>> THEN "ok" ELSE "running"]
                : w \in started}

\* Slip: the first rc file ends the wait.
AnyFinished(phase) == \E s \in Own(phase) : s.rc \in {"ok", "failed"}

\* Every rc file of the phase is there.
AllFinished(phase) ==
    \A w \in Wanted(phase) :
        \E s \in Own(phase) : s.orgs = w /\ s.rc \in {"ok", "failed"}

Bad(phase) == {s \in Own(phase) : s.rc = "failed"}

\* The poll ends.  For one session the status polled for is the verdict; for
\* parallel ones BAD is asked for in another call, and no answer reads as none.
Collect(phase, next) ==
    /\ AllFinished(phase)
    /\ \/ /\ Goto(IF Bad(phase) = {} THEN next ELSE "failed")
          /\ UNCHANGED run
       \/ /\ run.parallel /\ phase # "seqfix" /\ Bad(phase) # {}
          /\ Goto(next)
          /\ run' = [run EXCEPT !.lost = TRUE]
    /\ UNCHANGED <<database, files, sessions>>

\* 3. The teardown.
StartTeardown ==
    /\ pc = "teardown" /\ Goto("tearing")
    /\ \E cut \in SUBSET Wanted("td") :
          /\ Launch("td", cut)
          /\ run' = [run EXCEPT !.lost = cut # {}]
    /\ UNCHANGED <<database, files>>

TeardownOver == pc = "tearing" /\ Collect("td", "count")

\* The pilot's individuals are counted; no answer counts as one.
CountRows ==
    /\ pc = "count"
    /\ \/ (\A o \in Orgs : rows[o][Counted] = {}) /\ Goto("vacuum")
       \/ Exit
    /\ UNCHANGED <<database, files, sessions, run>>

\* 4 and 5. VACUUM, then the scaffolding goes.
DropIndexes ==
    /\ pc = "vacuum"
    /\ \/ scaffolding' = FALSE /\ Goto("load")
       \/ scaffolding' \in {scaffolding, FALSE} /\ Exit
    /\ UNCHANGED <<rows, lastValue, files, sessions, run>>

\* 6. The load, and for parallel sessions the sequences after them.
StartLoad ==
    /\ pc = "load" /\ Launch("load", {}) /\ Goto("loading")
    /\ UNCHANGED <<database, files, run>>

\* A parallel launch whose call was lost before it wrote a file: none of none is
\* all of them, and there is no seqfix.sql to run.
NothingLaunched ==
    /\ run.parallel /\ Own("load") = {} /\ Exit
    /\ UNCHANGED <<database, files, sessions, run>>

LoadOver ==
    /\ pc = "loading"
    /\ \/ Collect("load", IF run.parallel THEN "seqfix" ELSE "finish")
       \/ NothingLaunched

StartSeqfix ==
    /\ pc = "seqfix" /\ Launch("seqfix", {}) /\ Goto("fixing")
    /\ UNCHANGED <<database, files, run>>

SeqfixOver == pc = "fixing" /\ Collect("seqfix", "finish")

\* 7 to 10. REINDEX may end the script; what the verification and the feeder
\* check print does not.
Finish ==
    /\ pc = "finish"
    /\ \/ /\ Goto("done")
          /\ files' = [files EXCEPT ![run.set] = [o \in Orgs |-> "none"]]
       \/ Exit /\ UNCHANGED files
    /\ UNCHANGED <<database, sessions, run>>

\* The laptop sleeps, the operator interrupts.
Crash ==
    /\ pc \in Active /\ Goto("down")
    /\ UNCHANGED <<database, files, sessions, run>>

-----------------------------------------------------------------------------

Init ==
    /\ rows = [o \in Orgs |-> [t \in TableSet |-> {InPlace}]]
    /\ lastValue = [t \in TableSet |-> Highest(t)]
    /\ scaffolding = FALSE
    /\ files = [d \in Datasets |-> [o \in Orgs |-> "none"]]
    /\ sessions = {}
    /\ pc = "idle"
    /\ run = [n |-> 0, set |-> InPlace, parallel |-> FALSE,
              overlapped |-> FALSE, torn |-> FALSE, lost |-> FALSE]

Proceed ==
    \/ Fetch \/ ProveTargets \/ CreateIndexes
    \/ StartTeardown \/ TeardownOver \/ CountRows \/ DropIndexes
    \/ StartLoad \/ LoadOver \/ StartSeqfix \/ SeqfixOver \/ Finish

Work ==
    \E s \in sessions :
        \/ FailStatement(s) \/ CommitTeardown(s) \/ CopyTable(s)
        \/ ReadHighest(s) \/ SetSequence(s)

Next == Start \/ Proceed \/ Crash \/ Work

\* The driver goes on while it lives, and PostgreSQL ends every statement.
Fairness == WF_vars(Proceed) /\ WF_vars(Work)

Spec == Init /\ [][Next]_vars /\ Fairness

-----------------------------------------------------------------------------
(* What a swap must get right.                                              *)

Loaded == \A o \in Orgs, t \in TableSet : rows[o][t] = {run.set}

\* A run that says it is done has brought the dataset to every organisation, the
\* whole of it and nothing else, and left no scaffolding, wherever earlier runs
\* died or failed: as long as its archive was extracted whole, no ssh call was
\* lost unmissed, and no session of an earlier run was at work.
DoneIsLoaded ==
    pc = "done" /\ ~run.overlapped /\ ~run.torn /\ ~run.lost
        => Loaded /\ ~scaffolding

\* "done -- $SET is loaded and verified", as the script says it, of a run that had
\* the database to itself: false of the code, for what it prints of its verification in 9.
\* and 10. does not end it, and a session without a load.sql exits with 0.
DoneAsSaid == pc = "done" /\ ~run.overlapped => Loaded

\* Nothing is emptied for an archive that was not proved: while a run's teardown
\* is at work, each organisation's manifest lies on the client (1., 3.).
ProvedBeforeEmptied ==
    \A s \in Running : s.phase = "td" /\ s.swap = run.n
        => \A o \in Orgs : files[run.set][o] # "none"

\* "the server's next insert would collide": when a swap is done, no id sequence
\* stands below an id in its table, in either mode (seqfix, load_script).
SequencesCover ==
    pc = "done" /\ ~run.overlapped => \A t \in TableSet : lastValue[t] >= Highest(t)

\* No session sets a sequence back below ids that another has committed.
NeverSetBack ==
    [][\A t \in TableSet :
          lastValue'[t] < lastValue[t] /\ ~run.overlapped => lastValue'[t] >= Highest(t)]_vars

PhaseOf(location) ==
    CASE location = "tearing" -> "td" [] location = "loading" -> "load"
      [] OTHER -> "seqfix"
WaitsForStarted ==
    /\ pc \in Waiting
    /\ \A w \in Wanted(PhaseOf(pc)) : \E s \in Own(PhaseOf(pc)) : s.orgs = w

\* A driver that waits for sessions that were all started does not wait forever,
\* however they end.
SessionsAreCollected == []<>~WaitsForStarted

=============================================================================
