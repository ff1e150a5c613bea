-------------------------------- MODULE Backup --------------------------------
(***************************************************************************)
(* The backup of New Relic's events: newrelic-export.py copies the hours   *)
(* that are still retained into one file each, before retention drops      *)
(* them, and newrelic-query.py reads the files back long afterwards.       *)
(*                                                                         *)
(* An event is known by its type, its hour, the millisecond of the hour    *)
(* and a number.  New Relic, which goes on taking events in and dropping   *)
(* them while a run asks, is external.  A run makes one query a step, the  *)
(* two counts of a bisection in one.                                       *)
(***************************************************************************)
EXTENDS Integers, Sequences, FiniteSets

CONSTANTS
    Types,       \* the event types
    Requests,    \* the command lines: --event-types, --since, --until, --force, --s3
    LastHour,    \* bound: hours 0 to LastHour
    HourLen,     \* milliseconds in an hour
    ROW_CAP,     \* rows a LIMIT MAX returns
    FACET_LIMIT, \* facets a query returns
    MaxEvents,   \* bound: events that ever arrive
    MaxFaults,   \* bound: network failures, crashes, short answers, late arrivals
    MaxExports   \* bound: runs of the script

ASSUME BackupAssumption ==
    /\ LastHour \in Nat /\ HourLen \in Nat \ {0} /\ ROW_CAP \in Nat \ {0}
    /\ FACET_LIMIT \in Nat \ {0}
    /\ \A r \in Requests : /\ r.types \in (SUBSET Types) \ {{}} /\ r.since \in 0..LastHour
                           /\ r.until \in 0..LastHour \cup {-1}
                           /\ r.force \in BOOLEAN /\ r.s3 \in BOOLEAN
    /\ MaxEvents \in Nat /\ MaxFaults \in Nat /\ MaxExports \in Nat

VARIABLES
    now,        \* the hour in progress
    ever,       \* events that ever arrived
    store,      \* events New Relic retains
    files,      \* --out: key of an hour -> the events of its file
    manifest,   \* key of an hour -> what manifest.json's "hours" says of it
    torn,       \* manifest.json was cut off while it was written
    bucket,     \* keys whose file in S3 is the one in --out
    run,        \* the run of the script
    late,       \* history: hours an event reached after they had ended
    unrecorded, \* history: hours rewritten by a run that died before its manifest
    faults, exports
vars == <<now, ever, store, files, manifest, torn, bucket, run, late,
          unrecorded, faults, exports>>
backup == <<files, manifest, torn, bucket>>
account == <<now, ever, store, late>>
-----------------------------------------------------------------------------
None == -1
Hours == 0..LastHour
Keys == Types \X Hours
Event == [type : Types, hour : Hours, ms : 0..(HourLen - 1), id : 1..MaxEvents]
KeyOf(e) == <<e.type, e.hour>>
Lesser(m, n) == IF m <= n THEN m ELSE n
With(f, k, v) == [x \in DOMAIN f \cup {k} |-> IF x = k THEN v ELSE f[x]]

\* SINCE a UNTIL b is half open.
window(k, a, b) == {e \in store : KeyOf(e) = k /\ a <= e.ms /\ e.ms < b}
count(k, a, b) == Cardinality(window(k, a, b))

\* LIMIT MAX returns the rows up to the cap, and now and then fewer.
Full(k, a, b) == Lesser(ROW_CAP, count(k, a, b))
Answers(k, a, b) == {rows \in SUBSET window(k, a, b) : Cardinality(rows) <= Full(k, a, b)}
MayFail == faults < MaxFaults
Failed(yes) == IF yes THEN MayFail /\ faults' = faults + 1 ELSE faults' = faults
-----------------------------------------------------------------------------
\* New Relic takes events in, late ones too, and drops the oldest of a type.
Arrive(t, h, m) ==
    LET id == 1 + Cardinality({e \in ever : e.type = t /\ e.hour = h /\ e.ms = m})
        e == [type |-> t, hour |-> h, ms |-> m, id |-> id]
    IN /\ Cardinality(ever) < MaxEvents /\ h <= now
       /\ ever' = ever \cup {e} /\ store' = store \cup {e}
       /\ late' = late \cup IF h < now THEN {<<t, h>>} ELSE {}
       /\ Failed(h < now)
       /\ UNCHANGED <<now, backup, run, unrecorded, exports>>
Tick ==
    /\ now < LastHour /\ now' = now + 1
    /\ UNCHANGED <<ever, store, backup, run, late, unrecorded, faults, exports>>
Expire(t, h, m) ==
    /\ store' = store \ {e \in store : e.type = t /\
                           (e.hour < h \/ (e.hour = h /\ e.ms <= m))}
    /\ store' # store
    /\ UNCHANGED <<now, ever, backup, run, late, unrecorded, faults, exports>>
-----------------------------------------------------------------------------
\* Never the hour in progress.
complete_hours_only(until) == Lesser(until, now)

Idling == [pc |-> "ended", todo |-> {}, asked |-> {}, type |-> None, hour |-> 0, since |-> 0,
           until |-> 0, force |-> FALSE, s3 |-> FALSE, done |-> << >>, wrote |-> {},
           shortfalls |-> {}, pending |-> << >>, counted |-> {}, rows |-> {},
           rc |-> None, tree |-> << >>]
Idle == run.pc \in {"ended", "dead"}

\* main and the head of export.  A manifest cut short kills every run until
\* somebody removes it.
Start(r) ==
    /\ Idle /\ ~torn /\ exports < MaxExports
    /\ exports' = exports + 1
    /\ run' = [Idling EXCEPT
         !.pc = "types", !.todo = r.types, !.asked = r.types, !.since = r.since,
         !.until = complete_hours_only(IF r.until = None THEN now + 1 ELSE r.until),
         !.force = r.force, !.s3 = r.s3, !.done = manifest]
    /\ UNCHANGED <<account, backup, unrecorded, faults>>
RemoveManifest ==
    /\ Idle /\ torn /\ torn' = FALSE /\ manifest' = << >> /\ unrecorded' = {}
    /\ UNCHANGED <<account, files, bucket, run, faults, exports>>

\* SELECT earliest(timestamp), outside the try: an error ends the process.
Earliest(t) ==
    LET kept == {e.hour : e \in {x \in store : x.type = t}}
        first == CHOOSE h \in kept : \A g \in kept : h <= g
    IN /\ run.pc = "types" /\ t \in run.todo
       /\ run' = IF kept = {} THEN [run EXCEPT !.todo = @ \ {t}]
                 ELSE [run EXCEPT !.todo = @ \ {t}, !.type = t, !.pc = "hours",
                                  !.hour = IF run.since <= first THEN first ELSE run.since]
       /\ UNCHANGED <<account, backup, unrecorded, faults, exports>>

Key == <<run.type, run.hour>>
\* Slip: an hour with a shortfall counts as done.
AnyRecord(k, done) == k \in DOMAIN done
Recorded(k, done) == k \in DOMAIN done /\ done[k].expected = done[k].written
\* Slip: the rows of the hour before are kept.
RowsCarryOver == [run EXCEPT !.pc = "hours", !.hour = @ + 1, !.pending = << >>,
                             !.counted = {}]
Next_hour == [run EXCEPT !.pc = "hours", !.hour = @ + 1, !.pending = << >>,
                         !.rows = {}, !.counted = {}]

\* The hour is skipped, counted, or found to be the end.
Skip ==
    /\ run.pc = "hours" /\ run.hour < run.until
    /\ ~run.force /\ Recorded(Key, run.done) /\ Key \in DOMAIN files
    /\ run' = Next_hour
    /\ UNCHANGED <<account, backup, unrecorded, faults, exports>>
CountHour ==
    /\ run.pc = "hours" /\ run.hour < run.until
    /\ run.force \/ ~Recorded(Key, run.done) \/ Key \notin DOMAIN files
    /\ LET n == count(Key, 0, HourLen)
       IN run' = IF n = 0
                 THEN [Next_hour EXCEPT !.done = With(@, Key, [expected |-> 0, written |-> 0])]
                 ELSE [run EXCEPT !.pc = "fetch", !.counted = window(Key, 0, HourLen),
                                  !.pending = <<[from |-> 0, to |-> HourLen, n |-> n]>>]
    /\ UNCHANGED <<account, backup, unrecorded, faults, exports>>
EndOfType ==
    /\ run.pc = "hours" /\ run.hour >= run.until
    /\ run' = [run EXCEPT !.pc = "types"]
    /\ UNCHANGED <<account, backup, unrecorded, faults, exports>>

\* NETWORK_ERRORS out of a count or a fetch: the hour is left for the next run.
LeaveHour ==
    /\ \/ run.pc = "fetch" /\ run.pending # << >>
       \/ /\ run.pc = "hours" /\ run.hour < run.until
          /\ run.force \/ ~Recorded(Key, run.done) \/ Key \notin DOMAIN files
    /\ Failed(TRUE)
    /\ run' = [Next_hour EXCEPT !.shortfalls = @ \cup {Key}]
    /\ UNCHANGED <<account, backup, unrecorded, exports>>
-----------------------------------------------------------------------------
\* fetch, the leftmost window first: nothing, a query, a query that cannot be
\* narrowed, or two halves.
Frame == Head(run.pending)
Noted(short) == run.shortfalls \cup IF short THEN {Key} ELSE {}
Fetching == run.pc = "fetch" /\ run.pending # << >>

\* Slip: a window of one millisecond is split.
SplitForever(f) == f.to - f.from <= 0
Narrowest(f) == f.to - f.from <= 1

FetchNothing ==
    /\ Fetching /\ Frame.n = 0
    /\ run' = [run EXCEPT !.pending = Tail(@)]
    /\ UNCHANGED <<account, backup, unrecorded, faults, exports>>
Select(rows) ==
    /\ Fetching /\ Frame.n # 0 /\ (Frame.n <= ROW_CAP \/ Narrowest(Frame))
    /\ rows \in Answers(Key, Frame.from, Frame.to)
    /\ Failed(Cardinality(rows) < Full(Key, Frame.from, Frame.to))
    /\ run' = [run EXCEPT !.pending = Tail(@), !.rows = @ \cup rows,
                          !.shortfalls = Noted(Frame.n > ROW_CAP
                                               \/ Cardinality(rows) # Frame.n)]
    /\ UNCHANGED <<account, backup, unrecorded, exports>>
Bisect ==
    LET mid == Frame.from + (Frame.to - Frame.from) \div 2
        left == count(Key, Frame.from, mid)
        right == count(Key, mid, Frame.to)
    IN /\ Fetching /\ Frame.n > ROW_CAP /\ ~Narrowest(Frame)
       /\ run' = [run EXCEPT
            !.pending = <<[from |-> Frame.from, to |-> mid, n |-> left],
                          [from |-> mid, to |-> Frame.to, n |-> right]>> \o Tail(@),
            !.shortfalls = Noted(left + right # Frame.n)]
       /\ UNCHANGED <<account, backup, unrecorded, faults, exports>>

\* write replaces the file in one step.
Write ==
    /\ run.pc = "fetch" /\ run.pending = << >>
    /\ files' = With(files, Key, run.rows)
    /\ bucket' = bucket \ {Key}
    /\ run' = [Next_hour EXCEPT
         !.done = With(@, Key, [expected |-> Cardinality(run.counted),
                                written |-> Cardinality(run.rows)]),
         !.wrote = @ \cup {Key}]
    /\ UNCHANGED <<account, manifest, torn, unrecorded, faults, exports>>
-----------------------------------------------------------------------------
\* The manifest is written in place, over the one that was there.
SaveManifest ==
    /\ run.pc = "types" /\ run.todo = {}
    /\ manifest' = run.done /\ unrecorded' = unrecorded \ run.wrote
    /\ run' = [run EXCEPT !.pc = "exit"]
    /\ UNCHANGED <<account, files, torn, bucket, faults, exports>>

\* Slip: the sync's status in rc's place.
StatusOfTheSync(short, synced) == IF synced THEN 0 ELSE 2
exit_status(short, synced) == IF ~synced THEN 2 ELSE IF short THEN 1 ELSE 0

\* The upload of --out, which holes no longer suppress; one that fails has sent a
\* part, and gives the process its status.
Upload(s3, synced, part) ==
    /\ \/ s3 /\ synced /\ part = DOMAIN files /\ Failed(FALSE)
       \/ s3 /\ ~synced /\ part \subseteq DOMAIN files /\ Failed(TRUE)
       \/ ~s3 /\ synced /\ part = {} /\ Failed(FALSE)
    /\ bucket' = bucket \cup part

\* Of a process that ended remain its command line and what it said.
Exit(synced, part) ==
    /\ run.pc = "exit" /\ Upload(run.s3, synced, part)
    /\ run' = [Idling EXCEPT !.asked = run.asked, !.since = run.since, !.until = run.until,
                              !.s3 = run.s3, !.shortfalls = run.shortfalls,
                              !.rc = exit_status(run.shortfalls # {}, synced)]
    /\ UNCHANGED <<account, files, manifest, torn, unrecorded, exports>>

\* A crash, a refused key, or an error where nothing catches it.
Crash ==
    /\ ~Idle /\ Failed(TRUE)
    /\ torn' \in IF run.pc = "types" /\ run.todo = {} THEN {TRUE, FALSE} ELSE {FALSE}
    /\ unrecorded' = unrecorded \cup IF run.pc = "exit" THEN {} ELSE run.wrote
    /\ run' = [Idling EXCEPT !.pc = "dead"]
    /\ UNCHANGED <<account, files, manifest, bucket, exports>>
-----------------------------------------------------------------------------
\* A tree of exactly the limit cannot be told from one cut there.
truncated(got) == got >= FACET_LIMIT

\* --timeslices: one query, one file, the upload, and a status of its own.
timeslices(facets, s3, synced, part) ==
    LET got == Lesser(FACET_LIMIT, facets)
    IN /\ Idle /\ exports < MaxExports /\ exports' = exports + 1
       /\ Upload(s3, synced, part)
       /\ run' = [Idling EXCEPT !.tree = <<facets, got>>, !.s3 = s3,
                                !.rc = exit_status(truncated(got) \/ facets = 0, synced)]
       /\ UNCHANGED <<account, files, manifest, torn, unrecorded>>
-----------------------------------------------------------------------------
Init ==
    /\ now = 0 /\ ever = {} /\ store = {} /\ files = << >> /\ manifest = << >>
    /\ torn = FALSE /\ bucket = {} /\ run = Idling
    /\ late = {} /\ unrecorded = {} /\ faults = 0 /\ exports = 0

Account ==
    \/ Tick
    \/ \E t \in Types, h \in Hours, m \in 0..(HourLen - 1) : Arrive(t, h, m) \/ Expire(t, h, m)
Begin ==
    \/ \E r \in Requests : Start(r)
    \/ RemoveManifest
    \/ \E facets \in 0..(FACET_LIMIT + 1), s3, synced \in BOOLEAN, part \in SUBSET DOMAIN files :
          timeslices(facets, s3, synced, part)
Step ==
    \/ \E t \in Types : Earliest(t)
    \/ Skip \/ CountHour \/ EndOfType \/ LeaveHour
    \/ FetchNothing \/ Bisect \/ Write \/ SaveManifest
    \/ \E rows \in SUBSET store : Select(rows)
    \/ \E synced \in BOOLEAN, part \in SUBSET DOMAIN files : Exit(synced, part)
Next == Account \/ Begin \/ Step \/ Crash

\* A run goes on until it ends.
Spec == Init /\ [][Next]_vars /\ WF_vars(Step)
-----------------------------------------------------------------------------
\* newrelic-query.py: the files of a window, by name, and their rows in it.
\* Slip: an hour that runs past the end is not opened.
WholeHoursOnly(h, a, b) == (h + 1) * HourLen <= a \/ (h + 1) * HourLen > b
outside(h, a, b) == (h + 1) * HourLen <= a \/ h * HourLen >= b
At(e) == e.hour * HourLen + e.ms
read(t, a, b) ==
    {e \in UNION {files[k] : k \in {x \in DOMAIN files : x[1] = t /\ ~outside(x[2], a, b)}} :
        a <= At(e) /\ At(e) < b}

\* A run of the log ends with its arrivals and a tail, and at the next run.
resolve(log, start, lasts) ==
    LET later == {s \in log : s > start}
        ceiling == CHOOSE s \in later : \A r \in later : s <= r
    IN IF later = {} THEN start + lasts ELSE Lesser(start + lasts, ceiling)
-----------------------------------------------------------------------------
TypeOK ==
    /\ now \in Hours /\ ever \subseteq Event /\ store \subseteq ever
    /\ DOMAIN files \subseteq Keys
    /\ \A k \in DOMAIN files : files[k] \subseteq {e \in ever : KeyOf(e) = k}
    /\ DOMAIN manifest \subseteq Keys
    /\ \A k \in DOMAIN manifest : manifest[k] \in [expected : Nat, written : Nat]
    /\ torn \in BOOLEAN /\ bucket \subseteq DOMAIN files
    /\ run.tree \in {<< >>} \cup (0..(FACET_LIMIT + 1)) \X (0..FACET_LIMIT)
    /\ run.pc \in {"types", "hours", "fetch", "exit", "ended", "dead"}
    /\ run.pc \in {"hours", "fetch"} => run.type \in Types
    /\ run.todo \subseteq run.asked /\ run.asked \subseteq Types
    /\ run.shortfalls \subseteq Keys /\ run.wrote \subseteq DOMAIN files
    /\ run.rc \in {None, 0, 1, 2}
    /\ late \subseteq Keys /\ unrecorded \subseteq Keys
    /\ faults \in 0..MaxFaults /\ exports \in 0..MaxExports

Whole(k) ==
    {e \in store : KeyOf(e) = k} \subseteq IF k \in DOMAIN files THEN files[k] ELSE {}
Unsaved == IF run.pc \in {"types", "hours", "fetch"} THEN run.wrote ELSE {}

\* An hour the next run will skip, because manifest.json calls it complete and
\* its file is there, misses no event that is still retained: nothing else
\* would ever fetch it.  Excepted are an event that came after its hour, and an
\* hour rewritten by a run that has not saved its manifest, or never did.
CompleteHoursAreWhole ==
    \A k \in DOMAIN manifest :
        (/\ Recorded(k, manifest) /\ k \in DOMAIN files
         /\ k \notin late \cup unrecorded \cup Unsaved) => Whole(k)

\* A run that ends names every hour it was asked for and does not hold whole, but
\* for one that an event reached after it had ended, and one rewritten by a run that
\* died before it saved its manifest; it exits 0 only with no hour named and with all
\* its files in S3, where it was to send them; and a tree captured with 0 is neither
\* cut nor empty.
ExitTellsTheTruth ==
    /\ run.pc = "ended" =>
         \A k \in run.asked \X {h \in Hours : run.since <= h /\ h < run.until} :
             Whole(k) \/ k \in run.shortfalls \cup late \cup unrecorded
    /\ run.pc = "ended" /\ run.rc = 0 =>
         run.shortfalls = {} /\ (run.s3 => DOMAIN files \subseteq bucket)
    /\ run.tree # << >> /\ run.rc = 0 => run.tree[1] = run.tree[2] /\ run.tree[2] > 0

\* newrelic-export.py, of an hour that a network failure left: it is "left out of
\* `done`, so the next run retries it".  False of the code, of an hour forced again.
LeftForTheNextRun ==
    run.pc = "exit" => \A k \in run.shortfalls \ run.wrote :
                           ~(Recorded(k, manifest) /\ k \in DOMAIN files)

\* newrelic-export.py, of what its manifest says: "Nothing is reported as backed up on
\* the strength of a query that returned".  So an hour that the next run will skip has
\* in its file the events that were counted.  False of the code, of a forced run that dies.
CountedIsHeld ==
    Idle /\ ~torn => \A k \in DOMAIN manifest :
        Recorded(k, manifest) /\ k \in DOMAIN files =>
            manifest[k].expected <= Cardinality(files[k])

\* Reading the backup for the window of a run, which opens only the hours whose
\* name says they overlap it, finds every row the files hold of that window,
\* and no row answers for two runs.
ReadsAreWhole ==
    \A t \in Types, r, s \in 0..(HourLen * LastHour), lasts \in {HourLen + 1} : r <= s =>
        LET end(x) == resolve({r, s}, x, lasts)
            rows(x) == {e \in UNION {files[k] : k \in DOMAIN files} :
                            e.type = t /\ x <= At(e) /\ At(e) < end(x)}
        IN /\ read(t, r, end(r)) = rows(r)
           /\ r < s => read(t, r, end(r)) \cap read(t, s, end(s)) = {}

\* A run ends, however finely it has to split its windows and whatever arrives
\* or is dropped meanwhile.
EveryExportEnds == ~Idle ~> Idle
==============================================================================
