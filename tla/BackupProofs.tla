---------------------------- MODULE BackupProofs ----------------------------
(***************************************************************************)
(* An hour that manifest.json calls complete misses nothing, a run that    *)
(* ends tells which hours it does not hold whole, and the files are read   *)
(* back in full: for any event types, command lines, caps and faults.      *)
(***************************************************************************)
EXTENDS Backup, FiniteSetTheorems, WellFoundedInduction, TLAPS

USE BackupAssumption
-----------------------------------------------------------------------------
Fields == {"pc", "todo", "asked", "type", "hour", "since", "until", "force", "s3", "done",
           "wrote", "shortfalls", "pending", "counted", "rows", "rc", "tree"}
Working == run.pc \in {"types", "hours", "fetch"}
Kept(k) == {e \in store : KeyOf(e) = k}
Sound(k, done) == Recorded(k, done) /\ k \in DOMAIN files => Whole(k)

\* Events are finitely many, within their hour, and none is of the future.
EventsAreReal ==
    /\ now \in Nat /\ IsFiniteSet(ever) /\ store \subseteq ever
    /\ \A e \in ever : e.hour \in Nat /\ e.hour <= now /\ e.ms \in 0..(HourLen - 1)

\* What manifest.json records are hours that have ended, and whole ones.
SavedIsSound ==
    \A k \in DOMAIN manifest :
        /\ k[2] \in Int /\ k[2] < now
        /\ k \notin late \cup unrecorded \cup Unsaved => Sound(k, manifest)

\* So is what a run means to save, where the run itself rewrote the hour too.
RunIsSound ==
    /\ DOMAIN run = Fields
    /\ Working =>
         /\ run.until \in Int /\ run.until <= now /\ run.since \in Int
         /\ \A k \in DOMAIN run.done :
              /\ k[2] \in Int /\ k[2] < now
              /\ k \notin late /\ (k \in run.wrote \/ k \notin unrecorded) => Sound(k, run.done)

\* While an hour is fetched, what is retained of it was counted, and so was what
\* is fetched: unless an event came late.
FetchIsSound ==
    /\ run.pc \in {"types", "hours"} => run.rows = {}
    /\ run.pc \in {"hours", "fetch"} => run.hour \in Int
    /\ run.pc = "fetch" =>
         /\ run.hour < run.until /\ IsFiniteSet(run.counted)
         /\ Key \notin late => Kept(Key) \subseteq run.counted /\ run.rows \subseteq run.counted

IInv == EventsAreReal /\ SavedIsSound /\ RunIsSound /\ FetchIsSound

\* Types, those of what a run remembers too: it visits hours that have ended, and
\* what it has fetched of one is of that hour.
Frames == [from : Int, to : Int, n : Nat]
Records == [expected : Nat, written : Nat]
StoreType ==
    /\ now \in Hours /\ ever \subseteq Event /\ store \subseteq ever
    /\ DOMAIN files \subseteq Keys
    /\ \A k \in DOMAIN files : files[k] \subseteq {e \in ever : KeyOf(e) = k}
    /\ DOMAIN manifest \subseteq Keys /\ \A k \in DOMAIN manifest : manifest[k] \in Records
    /\ torn \in BOOLEAN /\ bucket \subseteq DOMAIN files
    /\ late \subseteq Keys /\ unrecorded \subseteq Keys
    /\ faults \in 0..MaxFaults /\ exports \in 0..MaxExports
RunType ==
    /\ run.tree \in {<< >>} \cup (0..(FACET_LIMIT + 1)) \X (0..FACET_LIMIT)
    /\ run.pc \in {"types", "hours", "fetch", "exit", "ended", "dead"}
    /\ run.todo \subseteq run.asked /\ run.asked \subseteq Types
    /\ run.shortfalls \subseteq Keys /\ run.wrote \subseteq DOMAIN files
    /\ run.rc \in {None, 0, 1, 2}
    /\ run.since \in Nat /\ run.hour \in Nat /\ run.until \in Int /\ run.until <= now
    /\ run.pc \in {"hours", "fetch"} => run.type \in Types /\ run.since <= run.hour
    /\ DOMAIN run.done \subseteq Keys /\ \A k \in DOMAIN run.done : run.done[k] \in Records
    /\ run.pending \in Seq(Frames)
    /\ run.pc = "fetch" => run.rows \subseteq {e \in ever : KeyOf(e) = Key}
TypeInv == StoreType /\ RunType

\* The hours a run was asked for, those it has behind it, and what must be true of
\* one then.
Asked == run.asked \X {h \in Hours : run.since <= h /\ h < run.until}
Passed(k) ==
    \/ run.pc = "types" /\ k[1] \notin run.todo
    \/ run.pc \in {"hours", "fetch"} /\ k[1] \notin run.todo \cup {run.type}
    \/ run.pc \in {"hours", "fetch"} /\ k[1] = run.type /\ k[2] < run.hour
    \/ run.pc \in {"exit", "ended"}
Told(k) == Whole(k) \/ k \in run.shortfalls \cup late \cup (unrecorded \ run.wrote)

\* While an hour is fetched and nothing came late, no window has more than it was
\* counted to have; and while no shortfall was noted either, what is retained of the
\* hour is fetched or in a window that is still to come.
In(e, f) == f.from <= e.ms /\ e.ms < f.to
Windows(p) == {p[i] : i \in DOMAIN p}
WindowsAreCounted ==
    run.pc = "fetch" /\ Key \notin late =>
        /\ \A f \in Windows(run.pending) : count(Key, f.from, f.to) <= f.n
        /\ Key \notin run.shortfalls =>
              \A e \in Kept(Key) : e \in run.rows \/ \E f \in Windows(run.pending) : In(e, f)

\* A broken manifest is one a dead run left, and stops the next.
TornStops == torn => run.pc = "dead" \/ (run.pc = "ended" /\ run.asked = {})

StatusIsTrue ==
    /\ run.pc = "ended" /\ run.rc = 0 =>
         run.shortfalls = {} /\ (run.s3 => DOMAIN files \subseteq bucket)
    /\ run.tree # << >> /\ run.rc = 0 => run.tree[1] = run.tree[2] /\ run.tree[2] > 0

HoursAreTold == \A k \in Asked : Passed(k) => Told(k)
TellInv == HoursAreTold /\ WindowsAreCounted /\ TornStops /\ StatusIsTrue

-----------------------------------------------------------------------------
\* A set of hours that events have has a first one.
LEMMA FirstHour ==
    ASSUME NEW S \in SUBSET Nat, S # {}
    PROVE  LET first == CHOOSE h \in S : \A g \in S : h <= g
           IN  first \in S /\ \A g \in S : first <= g
<1>1. PICK h \in S : \A g \in S : <<g, h>> \notin OpToRel(<, Nat)
  BY NatLessThanWellFounded, WFMin
<1>2. \A g \in S : h <= g
  <2> SUFFICES ASSUME NEW g \in S, ~(h <= g) PROVE FALSE
    OBVIOUS
  <2>1. g \in Nat /\ h \in Nat /\ g < h
    BY SMT
  <2>2. <<g, h>> \in OpToRel(<, Nat)
    BY <2>1 DEF OpToRel
  <2> QED
    BY <1>1, <2>2
<1>3. \E first \in S : \A g \in S : first <= g
  BY <1>1, <1>2
<1> QED
  BY <1>3

\* The whole hour's window is what is retained of the hour.
LEMMA WindowIsTheHour ==
    ASSUME EventsAreReal, NEW k
    PROVE  window(k, 0, HourLen) = Kept(k) /\ IsFiniteSet(Kept(k))
<1>1. \A e \in store : 0 <= e.ms /\ e.ms < HourLen
  BY DEF EventsAreReal
<1>2. Kept(k) \in SUBSET ever
  BY DEF Kept, EventsAreReal
<1> QED
  BY <1>1, <1>2, FS_Subset DEF window, Kept, EventsAreReal

LEMMA NextHourIs ==
    ASSUME DOMAIN run = Fields
    PROVE  /\ DOMAIN Next_hour = Fields
           /\ Next_hour.pc = "hours" /\ Next_hour.hour = run.hour + 1 /\ Next_hour.rows = {}
           /\ Next_hour.done = run.done /\ Next_hour.wrote = run.wrote
           /\ Next_hour.until = run.until /\ Next_hour.since = run.since
BY DEF Next_hour, Fields

LEMMA InitIInv == Init => IInv
<1> SUFFICES ASSUME Init PROVE IInv
  OBVIOUS
<1>1. run.pc = "ended" /\ DOMAIN run = Fields
  BY DEF Init, Idling, Fields
<1>2. EventsAreReal
  BY FS_EmptySet DEF Init, EventsAreReal
<1>3. SavedIsSound
  BY DEF Init, SavedIsSound
<1> QED
  BY <1>1, <1>2, <1>3 DEF IInv, RunIsSound, FetchIsSound, Working

-----------------------------------------------------------------------------
\* An hour that has ended only loses events, unless one comes late.
LEMMA HoursShrink ==
    ASSUME IInv, Account, NEW k, k[2] \in Int, k[2] < now, k \notin late'
    PROVE  Kept(k)' \subseteq Kept(k)
<1>1. CASE Tick
  BY <1>1 DEF Tick, Kept
<1>2. ASSUME NEW t \in Types, NEW h \in Hours, NEW m \in 0..(HourLen - 1), Arrive(t, h, m)
      PROVE  Kept(k)' \subseteq Kept(k)
  <2>1. PICK e : /\ e.hour = h /\ e.type = t /\ store' = store \cup {e}
                 /\ late' = late \cup IF h < now THEN {<<t, h>>} ELSE {}
    BY <1>2 DEF Arrive
  <2>2. CASE h < now
    <3>1. KeyOf(e) \in late'
      BY <2>1, <2>2 DEF KeyOf
    <3> QED
      BY <2>1, <3>1 DEF Kept
  <2>3. CASE ~(h < now)
    <3>1. KeyOf(e)[2] # k[2]
      BY <2>1, <2>3 DEF KeyOf, Hours, IInv, EventsAreReal
    <3> QED
      BY <2>1, <3>1 DEF Kept
  <2> QED
    BY <2>2, <2>3
<1>3. ASSUME NEW t \in Types, NEW h \in Hours, NEW m \in 0..(HourLen - 1), Expire(t, h, m)
      PROVE  Kept(k)' \subseteq Kept(k)
  BY <1>3 DEF Expire, Kept
<1> QED
  BY <1>1, <1>2, <1>3 DEF Account

\* Time passes, events arrive and expire.
LEMMA AccountKeeps == ASSUME IInv, Account PROVE IInv'
<1>0. UNCHANGED <<files, manifest, run, unrecorded>>
  BY DEF Account, Tick, Arrive, Expire, backup
<1>1. EventsAreReal' /\ now <= now' /\ late \subseteq late'
  <2>1. CASE Tick
    BY <2>1 DEF Tick, IInv, EventsAreReal
  <2>2. ASSUME NEW t \in Types, NEW h \in Hours, NEW m \in 0..(HourLen - 1), Arrive(t, h, m)
        PROVE  EventsAreReal' /\ now <= now' /\ late \subseteq late'
    <3>1. PICK e : /\ e.hour = h /\ e.ms = m /\ h <= now
                   /\ ever' = ever \cup {e} /\ store' = store \cup {e}
      BY <2>2 DEF Arrive
    <3>2. IsFiniteSet(ever')
      BY <3>1, FS_AddElement DEF IInv, EventsAreReal
    <3>3. now' = now /\ late \subseteq late' /\ h \in Nat
      BY <2>2 DEF Arrive, Hours
    <3> QED
      BY <3>1, <3>2, <3>3 DEF IInv, EventsAreReal
  <2>3. ASSUME NEW t \in Types, NEW h \in Hours, NEW m \in 0..(HourLen - 1), Expire(t, h, m)
        PROVE  EventsAreReal' /\ now <= now' /\ late \subseteq late'
    BY <2>3 DEF Expire, IInv, EventsAreReal
  <2> QED
    BY <2>1, <2>2, <2>3 DEF Account
<1>2. ASSUME NEW k, k[2] \in Int, k[2] < now, k \notin late' PROVE Kept(k)' \subseteq Kept(k)
  BY <1>2, HoursShrink
<1>3. ASSUME NEW k, NEW done, k[2] \in Int, k[2] < now, k \notin late', Sound(k, done)
      PROVE  Sound(k, done)'
  BY <1>0, <1>2, <1>3 DEF Sound, Recorded, Whole, Kept
<1>4. now \in Int /\ now' \in Int
  BY <1>1 DEF IInv, EventsAreReal
<1>5. SavedIsSound'
  <2> SUFFICES ASSUME NEW k \in DOMAIN manifest
               PROVE  /\ k[2] \in Int /\ k[2] < now'
                      /\ k \notin (late \cup unrecorded \cup Unsaved)' => Sound(k, manifest)'
    BY <1>0 DEF SavedIsSound, Sound, Recorded
  <2>1. k[2] \in Int /\ k[2] < now
        /\ (k \notin late \cup unrecorded \cup Unsaved => Sound(k, manifest))
    BY DEF IInv, SavedIsSound
  <2>2. Unsaved' = Unsaved
    BY <1>0 DEF Unsaved
  <2> QED
    BY <1>0, <1>1, <1>3, <1>4, <2>1, <2>2
<1>6. RunIsSound'
  <2>1. DOMAIN run' = Fields
    BY <1>0 DEF IInv, RunIsSound
  <2> SUFFICES ASSUME Working
               PROVE  /\ run.until \in Int /\ run.until <= now' /\ run.since \in Int
                      /\ \A k \in DOMAIN run.done :
                           /\ k[2] \in Int /\ k[2] < now'
                           /\ k \notin late' /\ (k \in run.wrote \/ k \notin unrecorded)
                                => Sound(k, run.done)'
    BY <1>0, <2>1 DEF RunIsSound, Working, Sound, Recorded
  <2> QED
    BY <1>0, <1>1, <1>3, <1>4 DEF IInv, RunIsSound
<1>7. FetchIsSound'
  <2>1. CASE run.pc = "fetch"
    <3>1. Key[2] = run.hour /\ Key' = Key
      BY <1>0 DEF Key
    <3>2. run.hour \in Int /\ run.hour < now
      BY <1>4, <2>1 DEF IInv, FetchIsSound, RunIsSound, Working
    <3>3. Key \notin late' => Kept(Key)' \subseteq Kept(Key)
      BY <1>2, <3>1, <3>2
    <3> QED
      BY <1>0, <1>1, <2>1, <3>1, <3>3 DEF IInv, FetchIsSound
  <2>2. CASE run.pc # "fetch"
    BY <1>0, <2>2 DEF IInv, FetchIsSound
  <2> QED
    BY <2>1, <2>2
<1> QED
  BY <1>1, <1>5, <1>6, <1>7 DEF IInv

-----------------------------------------------------------------------------
\* A run begins, or a broken manifest is removed.
LEMMA BeginKeeps == ASSUME IInv, Begin PROVE IInv'
<1>1. EventsAreReal'
  <2>1. UNCHANGED account
    BY DEF Begin, Start, RemoveManifest, timeslices
  <2> QED
    BY <2>1 DEF account, IInv, EventsAreReal
<1>2. ASSUME NEW r \in Requests, Start(r) PROVE IInv'
  <2>1. UNCHANGED <<now, late, store, files, manifest, unrecorded>> /\ Idle
    BY <1>2 DEF Start, account, backup
  <2>2. /\ DOMAIN run' = Fields /\ run'.pc = "types" /\ run'.done = manifest
        /\ run'.wrote = {} /\ run'.rows = {} /\ run'.since = r.since
        /\ run'.until = complete_hours_only(IF r.until = None THEN now + 1 ELSE r.until)
    BY <1>2 DEF Start, Idling, Fields
  <2>3. run'.until \in Int /\ run'.until <= now /\ run'.since \in Int
    BY <2>2 DEF complete_hours_only, Lesser, None, IInv, EventsAreReal
  <2>4. Unsaved = {} /\ Unsaved' = {}
    BY <2>1, <2>2 DEF Unsaved, Idle
  <2>5. SavedIsSound'
    BY <2>1, <2>4 DEF IInv, SavedIsSound, Sound, Recorded, Whole
  <2>6. RunIsSound'
    <3>1. ASSUME NEW k \in DOMAIN manifest
          PROVE  /\ k[2] \in Int /\ k[2] < now
                 /\ k \notin late \cup unrecorded => Sound(k, manifest)
      BY <2>4 DEF IInv, SavedIsSound
    <3>2. \A k : Sound(k, run.done)' <=> Sound(k, manifest)
      BY <2>1, <2>2 DEF Sound, Recorded, Whole
    <3> QED
      BY <2>1, <2>2, <2>3, <3>1, <3>2 DEF RunIsSound
  <2>7. FetchIsSound'
    BY <2>2 DEF FetchIsSound
  <2> QED
    BY <1>1, <2>5, <2>6, <2>7 DEF IInv
<1>3. ASSUME RemoveManifest PROVE IInv'
  <2>1. UNCHANGED run /\ manifest' = << >> /\ Idle
    BY <1>3 DEF RemoveManifest
  <2> QED
    BY <1>1, <2>1 DEF IInv, SavedIsSound, RunIsSound, FetchIsSound, Working, Idle
<1>4. ASSUME NEW facets \in 0..(FACET_LIMIT + 1), NEW s3 \in BOOLEAN, NEW synced \in BOOLEAN,
             NEW part \in SUBSET DOMAIN files, timeslices(facets, s3, synced, part)
      PROVE  IInv'
  <2>1. UNCHANGED <<now, late, store, files, manifest, unrecorded>> /\ Idle
    BY <1>4 DEF timeslices, account, backup
  <2>2. DOMAIN run' = Fields /\ run'.pc = "ended"
    BY <1>4 DEF timeslices, Idling, Fields
  <2>3. Unsaved = {} /\ Unsaved' = {}
    BY <2>1, <2>2 DEF Unsaved, Idle
  <2>4. SavedIsSound'
    BY <2>1, <2>3 DEF IInv, SavedIsSound, Sound, Recorded, Whole
  <2> QED
    BY <1>1, <2>2, <2>4 DEF IInv, RunIsSound, FetchIsSound, Working
<1> QED
  BY <1>2, <1>3, <1>4 DEF Begin

\* A step of the run that writes no file and no manifest keeps what is saved.
LEMMA SavedStays ==
    ASSUME IInv, UNCHANGED <<account, files, manifest, unrecorded>>, Unsaved' = Unsaved
    PROVE  EventsAreReal' /\ SavedIsSound'
<1>1. UNCHANGED <<now, late, store, ever>>
  BY DEF account
<1> QED
  BY <1>1 DEF IInv, EventsAreReal, SavedIsSound, Sound, Recorded, Whole

\* A step within a run that touches neither what is done nor what it wrote.
LEMMA RunStays ==
    ASSUME IInv, UNCHANGED <<account, files, manifest, unrecorded>>, Working, Working',
           DOMAIN run' = Fields, run'.done = run.done, run'.wrote = run.wrote,
           run'.until = run.until, run'.since = run.since
    PROVE  EventsAreReal' /\ SavedIsSound' /\ RunIsSound'
<1>1. UNCHANGED <<now, late, store, ever>>
  BY DEF account
<1>2. Unsaved' = Unsaved
  BY DEF Unsaved, Working
<1>3. \A k : Sound(k, run.done)' <=> Sound(k, run.done)
  BY <1>1 DEF Sound, Recorded, Whole
<1>4. RunIsSound'
  BY <1>1, <1>3 DEF IInv, RunIsSound
<1> QED
  BY <1>2, <1>4, SavedStays

LEMMA WalkKeeps ==
    ASSUME IInv, \/ \E t \in Types : Earliest(t)
                 \/ Skip \/ EndOfType \/ LeaveHour
    PROVE  IInv'
<1>0. DOMAIN run = Fields
  BY DEF IInv, RunIsSound
<1>1. ASSUME NEW t \in Types, Earliest(t) PROVE IInv'
  <2> DEFINE kept == {e.hour : e \in {x \in store : x.type = t}}
             first == CHOOSE h \in kept : \A g \in kept : h <= g
  <2>1. run.pc = "types" /\ run.rows = {} /\ UNCHANGED <<account, files, manifest, unrecorded>>
    BY <1>1 DEF Earliest, backup, IInv, FetchIsSound
  <2>2. /\ DOMAIN run' = Fields /\ run'.done = run.done /\ run'.wrote = run.wrote
        /\ run'.until = run.until /\ run'.since = run.since /\ run'.rows = run.rows
        /\ \/ run'.pc = "types"
           \/ run'.pc = "hours" /\ kept # {} /\ run'.hour \in {first, run.since}
    <3>1. run' = IF kept = {} THEN [run EXCEPT !.todo = @ \ {t}]
                 ELSE [run EXCEPT !.todo = @ \ {t}, !.type = t, !.pc = "hours",
                                  !.hour = IF run.since <= first THEN first ELSE run.since]
      BY <1>1 DEF Earliest
    <3> HIDE DEF kept, first
    <3> QED
      BY <1>0, <2>1, <3>1 DEF Fields
  <2>3. kept # {} => first \in Int
    <3>1. kept \in SUBSET Nat
      BY DEF IInv, EventsAreReal
    <3> HIDE DEF kept
    <3>2. kept # {} => first \in kept
      BY Zenon, <3>1, FirstHour
    <3> HIDE DEF first
    <3>3. \A h \in kept : h \in Int
      BY <3>1
    <3> QED
      BY <3>2, <3>3
  <2> HIDE DEF kept, first
  <2>4. run.since \in Int
    BY <2>1 DEF IInv, RunIsSound, Working
  <2>5. FetchIsSound'
    BY <2>1, <2>2, <2>3, <2>4 DEF FetchIsSound
  <2>6. Working /\ Working'
    BY <2>1, <2>2 DEF Working
  <2> QED
    BY <2>1, <2>2, <2>5, <2>6, RunStays DEF IInv
<1>2. ASSUME \/ Skip \/ LeaveHour PROVE IInv'
  <2>1. Working /\ run.pc # "types" /\ UNCHANGED <<account, files, manifest, unrecorded>>
    BY <1>2 DEF Skip, LeaveHour, backup, Working
  <2>2. run' = Next_hour \/ \E s : run' = [Next_hour EXCEPT !.shortfalls = s]
    BY <1>2 DEF Skip, LeaveHour
  <2>3. /\ DOMAIN run' = Fields /\ run'.pc = "hours" /\ run'.hour = run.hour + 1
        /\ run'.rows = {} /\ run'.done = run.done /\ run'.wrote = run.wrote
        /\ run'.until = run.until /\ run'.since = run.since
    BY <1>0, <2>2, NextHourIs DEF Fields
  <2>4. FetchIsSound'
    BY <2>1, <2>3 DEF IInv, FetchIsSound, Working
  <2>5. Working'
    BY <2>3 DEF Working
  <2> QED
    BY <2>1, <2>3, <2>4, <2>5, RunStays DEF IInv
<1>3. ASSUME EndOfType PROVE IInv'
  <2>1. Working /\ run.pc = "hours" /\ UNCHANGED <<account, files, manifest, unrecorded>>
    BY <1>3 DEF EndOfType, backup, Working
  <2>2. /\ DOMAIN run' = Fields /\ run'.pc = "types" /\ run'.rows = run.rows
        /\ run'.done = run.done /\ run'.wrote = run.wrote
        /\ run'.until = run.until /\ run'.since = run.since
    BY <1>0, <1>3 DEF EndOfType, Fields
  <2>3. FetchIsSound'
    BY <2>1, <2>2 DEF IInv, FetchIsSound
  <2>4. Working'
    BY <2>2 DEF Working
  <2> QED
    BY <2>1, <2>2, <2>3, <2>4, RunStays DEF IInv
<1> QED
  BY <1>1, <1>2, <1>3

\* The hour is counted: an empty one is done, and as empty as it says.
LEMMA CountKeeps == ASSUME IInv, CountHour PROVE IInv'
<1>0. DOMAIN run = Fields
  BY DEF IInv, RunIsSound
<1>1. /\ Working /\ run.pc = "hours" /\ run.hour < run.until /\ run.rows = {}
      /\ UNCHANGED <<now, ever, store, late, files, manifest, unrecorded>>
      /\ run.hour \in Int /\ run.until \in Int /\ run.until <= now
  BY DEF CountHour, Working, account, backup, IInv, FetchIsSound, RunIsSound
<1>2. window(Key, 0, HourLen) = Kept(Key) /\ IsFiniteSet(Kept(Key))
  BY WindowIsTheHour DEF IInv
<1>3. CASE count(Key, 0, HourLen) = 0
  <2>1. Kept(Key) = {}
    BY <1>2, <1>3, FS_EmptySet DEF count
  <2>2. run' = [Next_hour EXCEPT !.done = With(@, Key, [expected |-> 0, written |-> 0])]
    BY <1>3 DEF CountHour
  <2>3. /\ DOMAIN run' = Fields /\ run'.pc = "hours" /\ run'.hour = run.hour + 1
        /\ run'.rows = {} /\ run'.wrote = run.wrote
        /\ run'.until = run.until /\ run'.since = run.since
        /\ run'.done = With(run.done, Key, [expected |-> 0, written |-> 0])
    BY <1>0, <2>2, NextHourIs DEF Fields
  <2>4. Unsaved' = Unsaved
    BY <1>1, <2>3 DEF Unsaved
  <2>5. EventsAreReal' /\ SavedIsSound'
    BY <1>1, <2>4, SavedStays DEF account
  <2>6. ASSUME NEW k, k = Key PROVE Sound(k, run.done)'
    <3>1. Kept(k)' = {}
      BY <1>1, <2>1, <2>6 DEF Kept
    <3> QED
      BY <3>1 DEF Sound, Whole, Kept
  <2>7. ASSUME NEW k \in DOMAIN run'.done
        PROVE  /\ k[2] \in Int /\ k[2] < now
               /\ k \notin late /\ (k \in run.wrote \/ k \notin unrecorded)
                    => Sound(k, run.done)'
    <3>1. CASE k = Key
      <4>1. k[2] = run.hour
        BY <3>1 DEF Key
      <4>2. now \in Int
        BY DEF IInv, EventsAreReal
      <4> QED
        BY <1>1, <2>6, <3>1, <4>1, <4>2
    <3>2. CASE k # Key
      <4>1. k \in DOMAIN run.done /\ run'.done[k] = run.done[k]
        BY <2>3, <3>2 DEF With
      <4>2. Sound(k, run.done) => Sound(k, run.done)'
        BY <1>1, <2>3, <4>1 DEF Sound, Recorded, Whole
      <4> QED
        BY <1>1, <4>1, <4>2 DEF IInv, RunIsSound
    <3> QED
      BY <3>1, <3>2
  <2>8. RunIsSound'
    <3>1. run.since \in Int
      BY <1>1 DEF IInv, RunIsSound
    <3> QED
      BY <1>1, <2>3, <2>7, <3>1 DEF RunIsSound
  <2>9. FetchIsSound'
    BY <1>1, <2>3 DEF FetchIsSound
  <2> QED
    BY <2>5, <2>8, <2>9 DEF IInv
<1>4. CASE count(Key, 0, HourLen) # 0
  <2> DEFINE frames == <<[from |-> 0, to |-> HourLen, n |-> count(Key, 0, HourLen)]>>
  <2>1. run' = [run EXCEPT !.pc = "fetch", !.counted = window(Key, 0, HourLen),
                           !.pending = frames]
    BY <1>4 DEF CountHour
  <2> HIDE DEF frames
  <2>2. /\ DOMAIN run' = Fields /\ run'.pc = "fetch" /\ run'.rows = {}
        /\ run'.counted = Kept(Key) /\ run'.done = run.done /\ run'.wrote = run.wrote
        /\ run'.until = run.until /\ run'.since = run.since
        /\ run'.hour = run.hour /\ run'.type = run.type
    BY <1>0, <1>1, <1>2, <2>1 DEF Fields
  <2>3. Key' = Key /\ Kept(Key)' = Kept(Key)
    BY <1>1, <2>2 DEF Key, Kept
  <2>4. FetchIsSound'
    BY <1>1, <1>2, <2>2, <2>3 DEF FetchIsSound
  <2>5. Working'
    BY <2>2 DEF Working
  <2> QED
    BY <1>1, <2>2, <2>4, <2>5, RunStays DEF IInv, account
<1> QED
  BY <1>3, <1>4

\* A window is answered, or split: rows come from what is retained.
LEMMA FetchKeeps ==
    ASSUME IInv, FetchNothing \/ Bisect \/ \E rows \in SUBSET store : Select(rows)
    PROVE  IInv'
<1>0. DOMAIN run = Fields
  BY DEF IInv, RunIsSound
<1>1. /\ Working /\ run.pc = "fetch"
      /\ UNCHANGED <<now, ever, store, late, files, manifest, unrecorded>>
  BY DEF FetchNothing, Bisect, Select, Fetching, Working, account, backup
<1>2. \E p, s : \E new \in SUBSET Kept(Key) :
        run' = [run EXCEPT !.pending = p, !.rows = run.rows \cup new, !.shortfalls = s]
  <2>1. CASE FetchNothing
    <3>1. run' = [run EXCEPT !.pending = Tail(run.pending)]
      BY <2>1 DEF FetchNothing
    <3>2. run' = [run EXCEPT !.pending = Tail(run.pending), !.rows = run.rows \cup {},
                             !.shortfalls = run.shortfalls]
      BY <1>0, <3>1 DEF Fields
    <3> QED
      BY <3>2
  <2>2. CASE Bisect
    <3>1. PICK p, s : run' = [run EXCEPT !.pending = p, !.shortfalls = s]
      BY <2>2 DEF Bisect
    <3>2. run' = [run EXCEPT !.pending = p, !.rows = run.rows \cup {}, !.shortfalls = s]
      BY <1>0, <3>1 DEF Fields
    <3> QED
      BY <3>2
  <2>3. ASSUME NEW rows \in SUBSET store, Select(rows)
        PROVE  \E p, s : \E new \in SUBSET Kept(Key) :
                 run' = [run EXCEPT !.pending = p, !.rows = run.rows \cup new, !.shortfalls = s]
    <3>1. PICK p, s : run' = [run EXCEPT !.pending = p, !.rows = run.rows \cup rows,
                                         !.shortfalls = s]
      BY <2>3 DEF Select
    <3>2. rows \in SUBSET Kept(Key)
      BY <2>3 DEF Select, Answers, window, Kept
    <3> QED
      BY <3>1, <3>2
  <2> QED
    BY <2>1, <2>2, <2>3
<1>3. PICK new \in SUBSET Kept(Key) :
        /\ DOMAIN run' = Fields /\ run'.pc = "fetch" /\ run'.rows = run.rows \cup new
        /\ run'.counted = run.counted /\ run'.done = run.done /\ run'.wrote = run.wrote
        /\ run'.until = run.until /\ run'.since = run.since
        /\ run'.hour = run.hour /\ run'.type = run.type
  BY <1>0, <1>1, <1>2 DEF Fields
<1>4. Key' = Key /\ Kept(Key)' = Kept(Key)
  BY <1>1, <1>3 DEF Key, Kept
<1>5. FetchIsSound'
  BY <1>1, <1>3, <1>4 DEF IInv, FetchIsSound
<1>6. Working'
  BY <1>3 DEF Working
<1> QED
  BY <1>1, <1>3, <1>5, <1>6, RunStays DEF IInv, account

\* The file is replaced.  If its rows are as many as were counted, they are the
\* rows that were counted, unless an event came late.
LEMMA WriteKeeps == ASSUME IInv, Write PROVE IInv'
<1>0. DOMAIN run = Fields
  BY DEF IInv, RunIsSound
<1> DEFINE record == [expected |-> Cardinality(run.counted), written |-> Cardinality(run.rows)]
<1>1. /\ Working /\ run.pc = "fetch"
      /\ UNCHANGED <<now, ever, store, late, manifest, unrecorded>>
      /\ files' = With(files, Key, run.rows)
  BY DEF Write, Working, account
<1>2. run' = [Next_hour EXCEPT !.done = With(@, Key, record), !.wrote = @ \cup {Key}]
  BY DEF Write
<1>3. record.expected = Cardinality(run.counted) /\ record.written = Cardinality(run.rows)
  OBVIOUS
<1> HIDE DEF record
<1>4. /\ DOMAIN run' = Fields /\ run'.pc = "hours" /\ run'.hour = run.hour + 1
      /\ run'.rows = {} /\ run'.wrote = run.wrote \cup {Key}
      /\ run'.until = run.until /\ run'.since = run.since
      /\ run'.done = With(run.done, Key, record)
  BY <1>0, <1>2, NextHourIs DEF Fields
<1>5. Unsaved' = Unsaved \cup {Key}
  BY <1>1, <1>4 DEF Unsaved
<1>6. \A k : k # Key => /\ k \in DOMAIN files' <=> k \in DOMAIN files
                        /\ k \in DOMAIN files => files'[k] = files[k]
  BY <1>1 DEF With
<1>7. ASSUME NEW k, NEW done, k # Key, Sound(k, done) PROVE Sound(k, done)'
  BY <1>1, <1>6, <1>7 DEF Sound, Recorded, Whole
<1>8. SavedIsSound'
  <2> SUFFICES ASSUME NEW k \in DOMAIN manifest
               PROVE  /\ k[2] \in Int /\ k[2] < now
                      /\ k \notin late \cup unrecorded \cup Unsaved' => Sound(k, manifest)'
    BY <1>1 DEF SavedIsSound, Sound, Recorded
  <2>1. k[2] \in Int /\ k[2] < now
        /\ (k \notin late \cup unrecorded \cup Unsaved => Sound(k, manifest))
    BY DEF IInv, SavedIsSound
  <2>2. k # Key => (Sound(k, manifest) => Sound(k, manifest)')
    BY <1>1, <1>6 DEF Sound, Recorded, Whole
  <2> QED
    BY <1>5, <2>1, <2>2
<1>9. ASSUME NEW k, k = Key, k \notin late PROVE Sound(k, run.done)'
  <2> SUFFICES ASSUME Recorded(k, run.done)' PROVE Whole(k)'
    BY <1>1 DEF Sound
  <2>1. Cardinality(run.counted) = Cardinality(run.rows)
    <3>1. run'.done[k] = record
      BY <1>4, <1>9 DEF With
    <3> QED
      BY <1>3, <3>1 DEF Recorded
  <2>2. run.rows \in SUBSET run.counted /\ IsFiniteSet(run.counted) /\ Kept(k) \subseteq run.counted
    BY <1>1, <1>9 DEF IInv, FetchIsSound
  <2>3. run.rows = run.counted
    BY <2>1, <2>2, FS_Subset
  <2>4. k \in DOMAIN files' /\ files'[k] = run.rows
    BY <1>1, <1>9 DEF With
  <2> QED
    BY <1>1, <2>2, <2>3, <2>4 DEF Whole, Kept
<1>10. ASSUME NEW k \in DOMAIN run'.done
       PROVE  /\ k[2] \in Int /\ k[2] < now
              /\ k \notin late /\ (k \in run'.wrote \/ k \notin unrecorded)
                   => Sound(k, run.done)'
  <2>1. CASE k = Key
    <3>1. k[2] = run.hour
      BY <2>1 DEF Key
    <3>2. /\ run.hour \in Int /\ run.hour < run.until /\ run.until \in Int
          /\ run.until <= now /\ now \in Int
      BY <1>1 DEF IInv, EventsAreReal, FetchIsSound, RunIsSound
    <3> QED
      BY <1>9, <2>1, <3>1, <3>2
  <2>2. CASE k # Key
    <3>1. k \in DOMAIN run.done /\ run'.done[k] = run.done[k]
      BY <1>4, <2>2 DEF With
    <3>2. Sound(k, run.done) => Sound(k, run.done)'
      BY <1>1, <1>6, <2>2, <3>1 DEF Sound, Recorded, Whole
    <3> QED
      BY <1>1, <1>4, <2>2, <3>1, <3>2 DEF IInv, RunIsSound
  <2> QED
    BY <2>1, <2>2
<1>11. RunIsSound'
  <2>1. run.since \in Int /\ run.until \in Int /\ run.until <= now
    BY <1>1 DEF IInv, RunIsSound
  <2> QED
    BY <1>1, <1>4, <1>10, <2>1 DEF RunIsSound
<1>12. FetchIsSound'
  BY <1>1, <1>4 DEF IInv, FetchIsSound
<1> QED
  BY <1>1, <1>8, <1>11, <1>12 DEF IInv, EventsAreReal

\* The manifest is saved, the process exits, or dies.
LEMMA EndKeeps ==
    ASSUME IInv, \/ SaveManifest \/ Crash
                 \/ \E synced \in BOOLEAN, part \in SUBSET DOMAIN files : Exit(synced, part)
    PROVE  IInv'
<1>0. DOMAIN run = Fields /\ UNCHANGED <<now, ever, store, late, files>>
  BY DEF IInv, RunIsSound, SaveManifest, Exit, Crash, account
<1>1. EventsAreReal'
  BY <1>0 DEF IInv, EventsAreReal
<1>2. CASE SaveManifest
  <2>1. /\ Working /\ manifest' = run.done /\ unrecorded' = unrecorded \ run.wrote
        /\ DOMAIN run' = Fields /\ run'.pc = "exit"
    BY <1>0, <1>2 DEF SaveManifest, Working, Fields
  <2>2. SavedIsSound'
    <3> SUFFICES ASSUME NEW k \in DOMAIN run.done
                 PROVE  /\ k[2] \in Int /\ k[2] < now
                        /\ k \notin late \cup unrecorded' => Sound(k, manifest)'
      BY <1>0, <2>1 DEF SavedIsSound
    <3>1. /\ k[2] \in Int /\ k[2] < now
          /\ k \notin late /\ (k \in run.wrote \/ k \notin unrecorded) => Sound(k, run.done)
      BY <2>1 DEF IInv, RunIsSound
    <3>2. Sound(k, run.done) => Sound(k, manifest)'
      BY <1>0, <2>1 DEF Sound, Recorded, Whole
    <3> QED
      BY <2>1, <3>1, <3>2
  <2> QED
    BY <1>1, <2>1, <2>2 DEF IInv, RunIsSound, FetchIsSound, Working
<1>3. ASSUME NEW synced \in BOOLEAN, NEW part \in SUBSET DOMAIN files, Exit(synced, part)
      PROVE  IInv'
  <2>1. /\ run.pc = "exit" /\ DOMAIN run' = Fields /\ run'.pc = "ended"
        /\ UNCHANGED <<manifest, unrecorded>>
    BY <1>0, <1>3 DEF Exit, Idling, Fields
  <2>2. Unsaved' = Unsaved
    BY <2>1 DEF Unsaved
  <2>3. SavedIsSound'
    BY <1>0, <2>1, <2>2, SavedStays DEF account
  <2> QED
    BY <1>1, <2>1, <2>3 DEF IInv, RunIsSound, FetchIsSound, Working
<1>4. CASE Crash
  <2>1. /\ DOMAIN run' = Fields /\ run'.pc = "dead" /\ manifest' = manifest
        /\ unrecorded' = unrecorded \cup IF run.pc = "exit" THEN {} ELSE run.wrote
    BY <1>0, <1>4 DEF Crash, Idling, Fields
  <2>2. unrecorded \cup Unsaved \subseteq unrecorded'
    BY <2>1 DEF Unsaved
  <2>3. \A k : Sound(k, manifest)' <=> Sound(k, manifest)
    BY <1>0, <2>1 DEF Sound, Recorded, Whole
  <2>4. SavedIsSound'
    BY <1>0, <2>1, <2>2, <2>3 DEF IInv, SavedIsSound
  <2> QED
    BY <1>1, <2>1, <2>4 DEF IInv, RunIsSound, FetchIsSound, Working
<1> QED
  BY <1>2, <1>3, <1>4
-----------------------------------------------------------------------------
(* Types.                                                                   *)

\* Going on to the next hour changes nothing else of the run.
LEMMA NextHourKeeps ==
    ASSUME DOMAIN run = Fields
    PROVE  /\ Next_hour.todo = run.todo /\ Next_hour.asked = run.asked /\ Next_hour.type = run.type
           /\ Next_hour.s3 = run.s3 /\ Next_hour.shortfalls = run.shortfalls
           /\ Next_hour.pending = << >> /\ Next_hour.rc = run.rc /\ Next_hour.tree = run.tree
BY DEF Next_hour, Fields

\* The hour a run visits is one that has ended.
LEMMA KeyIsReal ==
    ASSUME IInv, TypeInv, run.pc \in {"hours", "fetch"}, run.hour < run.until
    PROVE  /\ Key \in Keys /\ Key = <<run.type, run.hour>> /\ Key[1] = run.type /\ Key[2] = run.hour
           /\ run.hour \in Nat /\ run.hour < now
<1>1. run.hour \in Nat /\ run.type \in Types /\ run.until \in Int /\ run.until <= now /\ now \in Hours
  BY DEF TypeInv, RunType, StoreType
<1>2. run.hour \in Hours /\ run.hour < now
  BY <1>1 DEF Hours
<1> QED
  BY <1>1, <1>2 DEF Key, Keys

\* Failures are counted within their bound.
LEMMA FailedStays ==
    ASSUME faults \in 0..MaxFaults, NEW yes, Failed(yes)
    PROVE  faults' \in 0..MaxFaults
BY DEF Failed, MayFail

\* At first nothing is stored and no run is under way.
LEMMA InitTypes == Init => TypeInv
<1> SUFFICES ASSUME Init PROVE TypeInv
  OBVIOUS
<1>1. << >> \in Seq(Frames) /\ DOMAIN << >> = {} /\ 0 \in Hours
  BY DEF Hours
<1>2. StoreType
  <2>1. /\ now = 0 /\ ever = {} /\ store = {} /\ files = << >> /\ manifest = << >>
        /\ torn = FALSE /\ bucket = {} /\ late = {} /\ unrecorded = {} /\ faults = 0
        /\ exports = 0
    BY DEF Init
  <2>2. DOMAIN files = {} /\ DOMAIN manifest = {}
    BY <1>1, <2>1
  <2>3. faults \in 0..MaxFaults /\ exports \in 0..MaxExports
    BY <2>1
  <2>4. ever \subseteq Event /\ store \subseteq ever /\ bucket \subseteq DOMAIN files
    BY <2>1
  <2> QED
    BY <1>1, <2>1, <2>2, <2>3, <2>4 DEF StoreType
<1>3. /\ run.pc = "ended" /\ run.todo = {} /\ run.asked = {} /\ run.since = 0
      /\ run.hour = 0 /\ run.until = 0 /\ run.done = << >> /\ run.wrote = {}
      /\ run.shortfalls = {} /\ run.pending = << >> /\ run.rc = None /\ run.tree = << >>
      /\ now = 0
  BY DEF Init, Idling
<1>4. RunType
  BY <1>1, <1>3 DEF RunType, None
<1> QED
  BY <1>2, <1>4 DEF TypeInv

\* An event that arrives is of its type and hour, and numbered within the bound.
LEMMA ArrivalIsReal ==
    ASSUME IInv, TypeInv, NEW t \in Types, NEW h \in Hours, NEW m \in 0..(HourLen - 1), Arrive(t, h, m)
    PROVE  \E e \in Event : /\ e.type = t /\ e.hour = h /\ ever' = ever \cup {e}
                            /\ store' = store \cup {e}
<1> DEFINE same == {e \in ever : e.type = t /\ e.hour = h /\ e.ms = m}
           id == 1 + Cardinality(same)
           e == [type |-> t, hour |-> h, ms |-> m, id |-> id]
<1>1. ever' = ever \cup {e} /\ store' = store \cup {e} /\ Cardinality(ever) < MaxEvents
  BY DEF Arrive
<1>2. IsFiniteSet(ever) /\ same \in SUBSET ever
  BY DEF IInv, EventsAreReal
<1>3. /\ Cardinality(same) \in Nat /\ Cardinality(ever) \in Nat
      /\ Cardinality(same) <= Cardinality(ever)
  BY <1>2, FS_Subset, FS_CardinalityType
<1> HIDE DEF same
<1>4. id \in 1..MaxEvents
  BY <1>1, <1>3
<1> HIDE DEF id
<1>5. e \in Event /\ e.type = t /\ e.hour = h
  BY <1>4 DEF Event
<1> QED
  BY <1>1, <1>5

\* Time passes, events arrive and expire.
LEMMA AccountTypes == ASSUME IInv, TypeInv, Account PROVE TypeInv'
<1> DEFINE Goal == /\ now' \in Hours /\ now <= now' /\ ever \subseteq ever'
                   /\ ever' \subseteq Event /\ store' \subseteq ever' /\ late' \subseteq Keys
                   /\ faults' \in 0..MaxFaults
                   /\ UNCHANGED <<files, manifest, torn, bucket, run, unrecorded, exports>>
<1>1. Goal
  <2>1. CASE Tick
    BY <2>1 DEF Tick, backup, TypeInv, StoreType, Hours
  <2>2. ASSUME NEW t \in Types, NEW h \in Hours, NEW m \in 0..(HourLen - 1), Arrive(t, h, m)
        PROVE  Goal
    <3>1. PICK e \in Event : ever' = ever \cup {e} /\ store' = store \cup {e}
      BY <2>2, ArrivalIsReal
    <3>2. /\ now' = now /\ UNCHANGED <<backup, run, unrecorded, exports>> /\ Failed(h < now)
          /\ late' = late \cup IF h < now THEN {<<t, h>>} ELSE {}
      BY <2>2 DEF Arrive
    <3> QED
      BY <3>1, <3>2, FailedStays DEF TypeInv, StoreType, Hours, Keys, backup
  <2>3. ASSUME NEW t \in Types, NEW h \in Hours, NEW m \in 0..(HourLen - 1), Expire(t, h, m)
        PROVE  Goal
    BY <2>3 DEF Expire, backup, TypeInv, StoreType, Hours
  <2> HIDE DEF Goal
  <2> QED
    BY <2>1, <2>2, <2>3 DEF Account
<1>2. StoreType'
  BY <1>1 DEF TypeInv, StoreType
<1>3. run.until <= now'
  BY <1>1 DEF TypeInv, RunType, StoreType, Hours
<1>4. Key' = Key
  BY <1>1 DEF Key
<1>5. RunType'
  BY <1>1, <1>3, <1>4 DEF TypeInv, RunType
<1> QED
  BY <1>2, <1>5 DEF TypeInv

\* A run begins, or a broken manifest is removed.
LEMMA BeginTypes == ASSUME IInv, TypeInv, Begin PROVE TypeInv'
<1>0. << >> \in Seq(Frames) /\ now \in Nat /\ 0 <= now
  BY DEF IInv, EventsAreReal
<1>1. ASSUME NEW r \in Requests, Start(r) PROVE TypeInv'
  <2>1. UNCHANGED <<account, backup, unrecorded, faults>> /\ exports' \in 0..MaxExports
    BY <1>1 DEF Start, TypeInv, StoreType
  <2>2. /\ run'.pc = "types" /\ run'.todo = r.types /\ run'.asked = r.types
        /\ run'.since = r.since /\ run'.done = manifest /\ run'.wrote = {}
        /\ run'.shortfalls = {} /\ run'.tree = << >> /\ run'.rc = None /\ run'.hour = 0
        /\ run'.pending = << >>
        /\ run'.until = complete_hours_only(IF r.until = None THEN now + 1 ELSE r.until)
    BY <1>1 DEF Start, Idling
  <2>3. run'.until \in Int /\ run'.until <= now
    BY <1>0, <2>2 DEF complete_hours_only, Lesser, None
  <2>4. StoreType'
    BY <2>1 DEF TypeInv, StoreType, account, backup
  <2>5. r.types \subseteq Types /\ r.since \in Nat
    BY BackupAssumption
  <2>6. DOMAIN manifest \subseteq Keys /\ \A k \in DOMAIN manifest : manifest[k] \in Records
    BY DEF TypeInv, StoreType
  <2>7. RunType'
    BY <1>0, <2>1, <2>2, <2>3, <2>5, <2>6 DEF RunType, account, None
  <2> QED
    BY <2>4, <2>7 DEF TypeInv
<1>2. ASSUME RemoveManifest PROVE TypeInv'
  <2>1. /\ UNCHANGED <<now, ever, store, late, files, bucket, run, faults, exports>>
        /\ manifest' = << >> /\ DOMAIN manifest' = {} /\ torn' = FALSE /\ unrecorded' = {}
    BY <1>2 DEF RemoveManifest, account
  <2>2. StoreType'
    BY <2>1 DEF TypeInv, StoreType
  <2>3. Key' = Key
    BY <2>1 DEF Key
  <2>4. RunType'
    BY <2>1, <2>3 DEF TypeInv, RunType
  <2> QED
    BY <2>2, <2>4 DEF TypeInv
<1>3. ASSUME NEW facets \in 0..(FACET_LIMIT + 1), NEW s3 \in BOOLEAN, NEW synced \in BOOLEAN,
             NEW part \in SUBSET DOMAIN files, timeslices(facets, s3, synced, part)
      PROVE  TypeInv'
  <2> DEFINE got == Lesser(FACET_LIMIT, facets)
  <2>1. /\ UNCHANGED <<account, files, manifest, torn, unrecorded>> /\ exports' \in 0..MaxExports
        /\ bucket' = bucket \cup part /\ faults' \in 0..MaxFaults
    <3>1. /\ UNCHANGED <<account, files, manifest, torn, unrecorded>> /\ exports < MaxExports
          /\ exports' = exports + 1 /\ Upload(s3, synced, part)
      BY <1>3 DEF timeslices
    <3>2. bucket' = bucket \cup part /\ (Failed(TRUE) \/ Failed(FALSE))
      BY <3>1 DEF Upload
    <3>3. faults' \in 0..MaxFaults
      BY <3>2, FailedStays DEF TypeInv, StoreType
    <3> QED
      BY <3>1, <3>2, <3>3 DEF TypeInv, StoreType
  <2>2. got \in 0..FACET_LIMIT
    BY DEF Lesser
  <2>3. /\ run'.pc = "ended" /\ run'.todo = {} /\ run'.asked = {} /\ run'.since = 0
        /\ run'.done = << >> /\ run'.wrote = {} /\ run'.shortfalls = {} /\ run'.until = 0
        /\ run'.tree = <<facets, got>> /\ run'.rc \in {0, 1, 2} /\ run'.hour = 0
        /\ run'.pending = << >>
    <3> DEFINE rc == exit_status(truncated(got) \/ facets = 0, synced)
    <3>1. run' = [Idling EXCEPT !.tree = <<facets, got>>, !.s3 = s3, !.rc = rc]
      BY <1>3 DEF timeslices
    <3>2. rc \in {0, 1, 2}
      BY DEF exit_status
    <3> HIDE DEF rc, got
    <3> QED
      BY <3>1, <3>2 DEF Idling
  <2> HIDE DEF got
  <2>4. StoreType'
    BY <2>1 DEF TypeInv, StoreType, account, backup
  <2>5. RunType'
    BY <1>0, <2>1, <2>2, <2>3 DEF RunType, account, None
  <2> QED
    BY <2>4, <2>5 DEF TypeInv
<1> QED
  BY <1>1, <1>2, <1>3 DEF Begin

\* The run goes from type to type and from hour to hour.
LEMMA WalkTypes ==
    ASSUME IInv, TypeInv, \/ \E t \in Types : Earliest(t)
                          \/ Skip \/ EndOfType \/ LeaveHour
    PROVE  TypeInv'
<1>0. DOMAIN run = Fields
  BY DEF IInv, RunIsSound
<1>1. StoreType' /\ UNCHANGED <<account, files>>
  <2>1. UNCHANGED <<account, backup, unrecorded, exports>> /\ faults' \in 0..MaxFaults
    BY FailedStays DEF Earliest, Skip, EndOfType, LeaveHour, TypeInv, StoreType
  <2> QED
    BY <2>1 DEF TypeInv, StoreType, account, backup
<1>2. ASSUME NEW t \in Types, Earliest(t) PROVE RunType'
  <2> DEFINE kept == {e.hour : e \in {x \in store : x.type = t}}
             first == CHOOSE h \in kept : \A g \in kept : h <= g
  <2>1. \/ run' = [run EXCEPT !.todo = @ \ {t}]
        \/ kept # {} /\ run' = [run EXCEPT !.todo = @ \ {t}, !.type = t, !.pc = "hours",
                                  !.hour = IF run.since <= first THEN first ELSE run.since]
    BY <1>2 DEF Earliest
  <2>2. kept # {} => first \in Nat
    <3>1. kept \in SUBSET Nat
      BY DEF IInv, EventsAreReal
    <3> HIDE DEF kept
    <3>2. kept # {} => first \in kept
      BY Zenon, <3>1, FirstHour
    <3> HIDE DEF first
    <3> QED
      BY <3>1, <3>2
  <2>3. run.pc = "types" /\ run.since \in Nat
    BY <1>2 DEF Earliest, TypeInv, RunType
  <2> HIDE DEF kept, first
  <2>4. /\ run'.todo = run.todo \ {t} /\ run'.asked = run.asked /\ run'.since = run.since
        /\ run'.until = run.until /\ run'.done = run.done /\ run'.wrote = run.wrote
        /\ run'.shortfalls = run.shortfalls /\ run'.pending = run.pending /\ run'.rc = run.rc
        /\ run'.tree = run.tree
    BY <1>0, <2>1 DEF Fields
  <2>5. \/ run'.pc = "types" /\ run'.hour = run.hour
        \/ run'.pc = "hours" /\ run'.type = t /\ run'.hour \in Nat /\ run.since <= run'.hour
    <3>1. CASE run' = [run EXCEPT !.todo = @ \ {t}]
      BY <1>0, <2>3, <3>1 DEF Fields
    <3>2. CASE /\ kept # {}
               /\ run' = [run EXCEPT !.todo = @ \ {t}, !.type = t, !.pc = "hours",
                                  !.hour = IF run.since <= first THEN first ELSE run.since]
      <4>1. /\ run'.pc = "hours" /\ run'.type = t
            /\ run'.hour = IF run.since <= first THEN first ELSE run.since
        BY <1>0, <3>2 DEF Fields
      <4> QED
        BY <2>2, <2>3, <3>2, <4>1
    <3> QED
      BY <2>1, <3>1, <3>2
  <2> QED
    BY <1>1, <2>4, <2>5 DEF TypeInv, RunType, account
<1>3. ASSUME Skip \/ LeaveHour PROVE RunType'
  <2>1. /\ run'.pc = "hours" /\ run'.hour = run.hour + 1 /\ run'.done = run.done
        /\ run'.wrote = run.wrote /\ run'.until = run.until /\ run'.since = run.since
        /\ run'.todo = run.todo /\ run'.asked = run.asked /\ run'.type = run.type
        /\ run'.pending = << >> /\ run'.rc = run.rc /\ run'.tree = run.tree
        /\ run'.shortfalls \in {run.shortfalls, run.shortfalls \cup {Key}}
    <3>1. CASE Skip
      <4>1. run' = Next_hour
        BY <3>1 DEF Skip
      <4> QED
        BY <1>0, <4>1, NextHourIs, NextHourKeeps
    <3>2. CASE LeaveHour
      <4>1. run' = [Next_hour EXCEPT !.shortfalls = @ \cup {Key}]
        BY <3>2 DEF LeaveHour
      <4> QED
        BY <1>0, <4>1, NextHourIs, NextHourKeeps DEF Fields
    <3> QED
      BY <1>3, <3>1, <3>2
  <2>3. run.pc \in {"hours", "fetch"} /\ run.hour < run.until
    BY <1>3 DEF Skip, LeaveHour, IInv, FetchIsSound
  <2>4. run'.shortfalls \subseteq Keys
    BY <2>1, <2>3, KeyIsReal DEF TypeInv, RunType
  <2>5. << >> \in Seq(Frames)
    OBVIOUS
  <2>6. now' = now /\ DOMAIN files \subseteq DOMAIN files'
    BY <1>1 DEF account
  <2>7. run'.type \in Types /\ run'.since <= run'.hour /\ run'.hour \in Nat
    BY <2>1, <2>3 DEF TypeInv, RunType
  <2> QED
    BY <2>1, <2>4, <2>5, <2>6, <2>7 DEF TypeInv, RunType
<1>4. ASSUME EndOfType PROVE RunType'
  <2>1. run' = [run EXCEPT !.pc = "types"] /\ run.pc = "hours"
    BY <1>4 DEF EndOfType
  <2>2. /\ run'.pc = "types" /\ run'.hour = run.hour /\ run'.done = run.done
        /\ run'.wrote = run.wrote /\ run'.until = run.until /\ run'.since = run.since
        /\ run'.todo = run.todo /\ run'.asked = run.asked
        /\ run'.shortfalls = run.shortfalls /\ run'.pending = run.pending /\ run'.rc = run.rc
        /\ run'.tree = run.tree
    BY <1>0, <2>1 DEF Fields
  <2> QED
    BY <1>1, <2>2 DEF TypeInv, RunType, account
<1> QED
  BY <1>1, <1>2, <1>3, <1>4 DEF TypeInv

\* What is counted is finite, and of its hour.
LEMMA WindowIsReal ==
    ASSUME IInv, NEW k, NEW a, NEW b
    PROVE  /\ window(k, a, b) \in SUBSET Kept(k) /\ IsFiniteSet(window(k, a, b))
           /\ count(k, a, b) \in Nat /\ Kept(k) \subseteq {e \in ever : KeyOf(e) = k}
<1>1. window(k, a, b) \in SUBSET Kept(k) /\ Kept(k) \in SUBSET {e \in ever : KeyOf(e) = k}
  BY DEF window, Kept, IInv, EventsAreReal
<1>2. window(k, a, b) \in SUBSET ever
  BY <1>1
<1>3. IsFiniteSet(window(k, a, b))
  BY <1>2, FS_Subset DEF IInv, EventsAreReal
<1> QED
  BY <1>1, <1>3, FS_CardinalityType DEF count

\* An hour is counted.
LEMMA CountTypes == ASSUME IInv, TypeInv, CountHour PROVE TypeInv'
<1>0. DOMAIN run = Fields
  BY DEF IInv, RunIsSound
<1>1. /\ run.pc = "hours" /\ run.hour < run.until /\ run.rows = {}
      /\ UNCHANGED <<now, ever, store, late, files, manifest, torn, bucket, unrecorded,
                     faults, exports>>
  BY DEF CountHour, account, backup, IInv, FetchIsSound
<1>2. StoreType'
  BY <1>1 DEF TypeInv, StoreType
<1>3. Key \in Keys
  BY <1>1, KeyIsReal
<1>4. CASE count(Key, 0, HourLen) = 0
  <2> DEFINE record == [expected |-> 0, written |-> 0]
  <2>1. run' = [Next_hour EXCEPT !.done = With(@, Key, record)]
    BY <1>4 DEF CountHour
  <2>2. record \in Records
    BY DEF Records
  <2> HIDE DEF record
  <2>3. /\ run'.pc = "hours" /\ run'.hour = run.hour + 1
        /\ run'.wrote = run.wrote /\ run'.until = run.until /\ run'.since = run.since
        /\ run'.todo = run.todo /\ run'.asked = run.asked /\ run'.type = run.type
        /\ run'.pending = << >> /\ run'.rc = run.rc /\ run'.tree = run.tree
        /\ run'.shortfalls = run.shortfalls /\ run'.done = With(run.done, Key, record)
    BY <1>0, <2>1, NextHourIs, NextHourKeeps DEF Fields
  <2>4. /\ DOMAIN run'.done \subseteq Keys
        /\ \A k \in DOMAIN run'.done : run'.done[k] \in Records
    BY <1>3, <2>2, <2>3 DEF With, TypeInv, RunType
  <2>5. << >> \in Seq(Frames)
    OBVIOUS
  <2>6. RunType'
    BY <1>1, <2>3, <2>4, <2>5 DEF TypeInv, RunType
  <2> QED
    BY <1>2, <2>6 DEF TypeInv
<1>5. CASE count(Key, 0, HourLen) # 0
  <2> DEFINE frames == <<[from |-> 0, to |-> HourLen, n |-> count(Key, 0, HourLen)]>>
  <2>1. run' = [run EXCEPT !.pc = "fetch", !.counted = window(Key, 0, HourLen),
                           !.pending = frames]
    BY <1>5 DEF CountHour
  <2>2. frames \in Seq(Frames)
    BY WindowIsReal DEF Frames
  <2> HIDE DEF frames
  <2>3. /\ run'.pc = "fetch" /\ run'.hour = run.hour /\ run'.rows = {}
        /\ run'.wrote = run.wrote /\ run'.until = run.until /\ run'.since = run.since
        /\ run'.todo = run.todo /\ run'.asked = run.asked /\ run'.type = run.type
        /\ run'.pending = frames /\ run'.rc = run.rc /\ run'.tree = run.tree
        /\ run'.shortfalls = run.shortfalls /\ run'.done = run.done
    BY <1>0, <1>1, <2>1 DEF Fields
  <2>4. RunType'
    BY <1>1, <2>2, <2>3 DEF TypeInv, RunType
  <2> QED
    BY <1>2, <2>4 DEF TypeInv
<1> QED
  BY <1>4, <1>5

\* One step of fetch: what is left of the windows, and what came of the first.
LEMMA FetchSteps ==
    ASSUME IInv, TypeInv, FetchNothing \/ Bisect \/ \E rows \in SUBSET store : Select(rows)
    PROVE  \E p \in Seq(Frames), new \in SUBSET Kept(Key), short \in BOOLEAN :
             run' = [run EXCEPT !.pending = p, !.rows = run.rows \cup new,
                                !.shortfalls = Noted(short)]
<1>0. DOMAIN run = Fields
  BY DEF IInv, RunIsSound
<1>1. run.pending \in Seq(Frames) /\ run.pending # << >>
  BY DEF FetchNothing, Bisect, Select, Fetching, TypeInv, RunType
<1>2. Tail(run.pending) \in Seq(Frames) /\ Frame \in Frames
  BY <1>1 DEF Frame
<1>3. CASE FetchNothing
  <2>1. run' = [run EXCEPT !.pending = Tail(run.pending)]
    BY <1>3 DEF FetchNothing
  <2>2. run' = [run EXCEPT !.pending = Tail(run.pending), !.rows = run.rows \cup {},
                           !.shortfalls = Noted(FALSE)]
    BY <1>0, <2>1 DEF Fields, Noted
  <2> QED
    BY <1>2, <2>2
<1>4. CASE Bisect
  <2> DEFINE mid == Frame.from + (Frame.to - Frame.from) \div 2
             left == count(Key, Frame.from, mid)
             right == count(Key, mid, Frame.to)
             l == [from |-> Frame.from, to |-> mid, n |-> left]
             r == [from |-> mid, to |-> Frame.to, n |-> right]
             short == left + right # Frame.n
  <2>1. run' = [run EXCEPT !.pending = <<l, r>> \o Tail(run.pending), !.shortfalls = Noted(short)]
    BY <1>4 DEF Bisect
  <2>2. Frame.from \in Int /\ Frame.to \in Int /\ left \in Nat /\ right \in Nat
    <3>1. Frame.from \in Int /\ Frame.to \in Int
      BY <1>2 DEF Frames
    <3>2. left \in Nat /\ right \in Nat
      <4> HIDE DEF mid
      <4> QED
        BY WindowIsReal
    <3> QED
      BY <3>1, <3>2
  <2>3. mid \in Int /\ short \in BOOLEAN
    BY <2>2
  <2> HIDE DEF mid, left, right, short
  <2>4. l \in Frames /\ r \in Frames
    BY <2>2, <2>3 DEF Frames
  <2> HIDE DEF l, r
  <2>5. <<l, r>> \o Tail(run.pending) \in Seq(Frames)
    BY <1>2, <2>4
  <2>6. PICK p \in Seq(Frames) : run' = [run EXCEPT !.pending = p, !.shortfalls = Noted(short)]
    BY <2>1, <2>5
  <2>7. run' = [run EXCEPT !.pending = p, !.rows = run.rows \cup {}, !.shortfalls = Noted(short)]
    BY <1>0, <2>6 DEF Fields
  <2> QED
    BY <2>3, <2>7
<1>5. ASSUME NEW rows \in SUBSET store, Select(rows)
      PROVE  \E p \in Seq(Frames), new \in SUBSET Kept(Key), short \in BOOLEAN :
               run' = [run EXCEPT !.pending = p, !.rows = run.rows \cup new,
                                  !.shortfalls = Noted(short)]
  <2> DEFINE short == Frame.n > ROW_CAP \/ Cardinality(rows) # Frame.n
  <2>1. run' = [run EXCEPT !.pending = Tail(run.pending), !.rows = run.rows \cup rows,
                           !.shortfalls = Noted(short)]
    BY <1>5 DEF Select
  <2>2. rows \in SUBSET Kept(Key)
    BY <1>5 DEF Select, Answers, window, Kept
  <2>3. short \in BOOLEAN
    OBVIOUS
  <2> HIDE DEF short
  <2> QED
    BY <1>2, <2>1, <2>2, <2>3
<1> QED
  BY <1>3, <1>4, <1>5

\* A window is answered, or split.
LEMMA FetchTypes ==
    ASSUME IInv, TypeInv, FetchNothing \/ Bisect \/ \E rows \in SUBSET store : Select(rows)
    PROVE  TypeInv'
<1>0. DOMAIN run = Fields
  BY DEF IInv, RunIsSound
<1>1. /\ run.pc = "fetch" /\ run.hour < run.until
      /\ UNCHANGED <<now, ever, store, late, files, manifest, torn, bucket, unrecorded,
                     exports>>
  BY DEF FetchNothing, Bisect, Select, Fetching, account, backup, IInv, FetchIsSound
<1>2. faults' \in 0..MaxFaults
  BY FailedStays DEF FetchNothing, Bisect, Select, TypeInv, StoreType
<1>3. StoreType'
  BY <1>1, <1>2 DEF TypeInv, StoreType
<1>4. Key \in Keys /\ Kept(Key) \subseteq {e \in ever : KeyOf(e) = Key}
  BY <1>1, KeyIsReal, WindowIsReal
<1>5. PICK p \in Seq(Frames), new \in SUBSET Kept(Key), short \in BOOLEAN :
        run' = [run EXCEPT !.pending = p, !.rows = run.rows \cup new, !.shortfalls = Noted(short)]
  BY FetchSteps
<1>6. /\ run'.pc = "fetch" /\ run'.hour = run.hour /\ run'.rows = run.rows \cup new
      /\ run'.wrote = run.wrote /\ run'.until = run.until /\ run'.since = run.since
      /\ run'.todo = run.todo /\ run'.asked = run.asked /\ run'.type = run.type
      /\ run'.pending = p /\ run'.rc = run.rc /\ run'.tree = run.tree
      /\ run'.shortfalls = Noted(short) /\ run'.done = run.done
  BY <1>0, <1>1, <1>5 DEF Fields
<1>7. Key' = Key
  BY <1>6 DEF Key
<1>8. Noted(short) \subseteq Keys
  BY <1>4 DEF Noted, TypeInv, RunType
<1>9. run'.rows \subseteq {e \in ever : KeyOf(e) = Key}
  BY <1>1, <1>4, <1>6 DEF TypeInv, RunType
<1>10. RunType'
  BY <1>1, <1>6, <1>7, <1>8, <1>9 DEF TypeInv, RunType
<1> QED
  BY <1>3, <1>10 DEF TypeInv

\* The file is replaced.
LEMMA WriteTypes == ASSUME IInv, TypeInv, Write PROVE TypeInv'
<1>0. DOMAIN run = Fields
  BY DEF IInv, RunIsSound
<1> DEFINE record == [expected |-> Cardinality(run.counted), written |-> Cardinality(run.rows)]
<1>1. /\ run.pc = "fetch" /\ run.hour < run.until
      /\ UNCHANGED <<now, ever, store, late, manifest, torn, unrecorded, faults, exports>>
      /\ files' = With(files, Key, run.rows) /\ bucket' = bucket \ {Key}
  BY DEF Write, account, IInv, FetchIsSound
<1>2. run' = [Next_hour EXCEPT !.done = With(@, Key, record), !.wrote = @ \cup {Key}]
  BY DEF Write
<1>3. record \in Records
  <2>1. IsFiniteSet(run.counted)
    BY <1>1 DEF IInv, FetchIsSound
  <2>2. run.rows \in SUBSET ever
    BY <1>1 DEF TypeInv, RunType
  <2>3. IsFiniteSet(run.rows)
    BY <2>2, FS_Subset DEF IInv, EventsAreReal
  <2> QED
    BY <2>1, <2>3, FS_CardinalityType DEF Records
<1> HIDE DEF record
<1>4. /\ run'.pc = "hours" /\ run'.hour = run.hour + 1
      /\ run'.wrote = run.wrote \cup {Key} /\ run'.until = run.until /\ run'.since = run.since
      /\ run'.todo = run.todo /\ run'.asked = run.asked /\ run'.type = run.type
      /\ run'.pending = << >> /\ run'.rc = run.rc /\ run'.tree = run.tree
      /\ run'.shortfalls = run.shortfalls /\ run'.done = With(run.done, Key, record)
  BY <1>0, <1>2, NextHourIs, NextHourKeeps DEF Fields
<1>5. Key \in Keys
  BY <1>1, KeyIsReal
<1>6. /\ DOMAIN files' = DOMAIN files \cup {Key}
      /\ \A k \in DOMAIN files' : files'[k] = IF k = Key THEN run.rows ELSE files[k]
  BY <1>1 DEF With
<1>7. StoreType'
  <2>1. \A k \in DOMAIN files' : files'[k] \subseteq {e \in ever : KeyOf(e) = k}
    BY <1>1, <1>6 DEF TypeInv, StoreType, RunType
  <2>2. DOMAIN files' \subseteq Keys /\ bucket' \subseteq DOMAIN files'
    BY <1>1, <1>5, <1>6 DEF TypeInv, StoreType
  <2> QED
    BY <1>1, <2>1, <2>2 DEF TypeInv, StoreType
<1>8. /\ DOMAIN run'.done \subseteq Keys
      /\ \A k \in DOMAIN run'.done : run'.done[k] \in Records
  BY <1>3, <1>4, <1>5 DEF With, TypeInv, RunType
<1>9. << >> \in Seq(Frames) /\ run'.wrote \subseteq DOMAIN files'
  BY <1>4, <1>6 DEF TypeInv, RunType
<1>10. RunType'
  <2>1. /\ run.tree \in {<< >>} \cup (0..(FACET_LIMIT + 1)) \X (0..FACET_LIMIT)
        /\ run.todo \subseteq run.asked /\ run.asked \subseteq Types
        /\ run.shortfalls \subseteq Keys /\ run.rc \in {None, 0, 1, 2}
    BY DEF TypeInv, RunType
  <2>2. /\ run.since \in Nat /\ run.hour \in Nat /\ run.until \in Int /\ run.until <= now
        /\ run.type \in Types /\ run.since <= run.hour
    BY <1>1 DEF TypeInv, RunType
  <2>3. run'.hour \in Nat /\ run'.since <= run'.hour
    BY <1>4, <2>2
  <2> QED
    BY <1>1, <1>4, <1>8, <1>9, <2>1, <2>2, <2>3 DEF RunType
<1> QED
  BY <1>7, <1>10 DEF TypeInv

\* The manifest is saved, the process exits, or dies.
LEMMA EndTypes ==
    ASSUME IInv, TypeInv, \/ SaveManifest \/ Crash
                          \/ \E synced \in BOOLEAN, part \in SUBSET DOMAIN files : Exit(synced, part)
    PROVE  TypeInv'
<1>0. DOMAIN run = Fields /\ UNCHANGED <<now, ever, store, late, files, exports>>
  BY DEF IInv, RunIsSound, SaveManifest, Exit, Crash, account
<1>1. << >> \in Seq(Frames) /\ DOMAIN << >> = {} /\ now \in Nat
  BY DEF IInv, EventsAreReal
<1>2. CASE SaveManifest
  <2>1. /\ manifest' = run.done /\ unrecorded' = unrecorded \ run.wrote
        /\ UNCHANGED <<torn, bucket, faults>> /\ run' = [run EXCEPT !.pc = "exit"]
    BY <1>2 DEF SaveManifest
  <2>2. StoreType'
    BY <1>0, <2>1 DEF TypeInv, StoreType, RunType
  <2>3. /\ run'.pc = "exit" /\ run'.hour = run.hour
        /\ run'.wrote = run.wrote /\ run'.until = run.until /\ run'.since = run.since
        /\ run'.todo = run.todo /\ run'.asked = run.asked
        /\ run'.pending = run.pending /\ run'.rc = run.rc /\ run'.tree = run.tree
        /\ run'.shortfalls = run.shortfalls /\ run'.done = run.done
    BY <1>0, <2>1 DEF Fields
  <2>4. RunType'
    BY <1>0, <2>3 DEF TypeInv, RunType
  <2> QED
    BY <2>2, <2>4 DEF TypeInv
<1>3. ASSUME NEW synced \in BOOLEAN, NEW part \in SUBSET DOMAIN files, Exit(synced, part)
      PROVE  TypeInv'
  <2>1. /\ UNCHANGED <<manifest, torn, unrecorded>> /\ bucket' = bucket \cup part
        /\ faults' \in 0..MaxFaults
    BY <1>3, FailedStays DEF Exit, Upload, TypeInv, StoreType
  <2>2. StoreType'
    BY <1>0, <2>1 DEF TypeInv, StoreType
  <2>3. /\ run'.pc = "ended" /\ run'.hour = 0 /\ run'.wrote = {} /\ run'.until = run.until
        /\ run'.since = run.since /\ run'.todo = {} /\ run'.asked = run.asked
        /\ run'.pending = << >> /\ run'.rc = exit_status(run.shortfalls # {}, synced)
        /\ run'.tree = << >> /\ run'.shortfalls = run.shortfalls /\ run'.done = << >>
    BY <1>3 DEF Exit, Idling
  <2>4. run'.rc \in {0, 1, 2}
    BY <2>3 DEF exit_status
  <2>5. DOMAIN run'.done = {} /\ run'.pending \in Seq(Frames)
    BY <1>1, <2>3
  <2>6. RunType'
    BY <1>0, <2>3, <2>4, <2>5 DEF TypeInv, RunType
  <2> QED
    BY <2>2, <2>6 DEF TypeInv
<1>4. CASE Crash
  <2>1. /\ UNCHANGED <<manifest, bucket>> /\ torn' \in BOOLEAN /\ faults' \in 0..MaxFaults
        /\ unrecorded' \subseteq unrecorded \cup run.wrote
    BY <1>4, FailedStays DEF Crash, TypeInv, StoreType
  <2>2. StoreType'
    BY <1>0, <2>1 DEF TypeInv, StoreType, RunType
  <2>3. /\ run'.pc = "dead" /\ run'.hour = 0 /\ run'.wrote = {} /\ run'.until = 0
        /\ run'.since = 0 /\ run'.todo = {} /\ run'.asked = {}
        /\ run'.pending = << >> /\ run'.rc = None
        /\ run'.tree = << >> /\ run'.shortfalls = {} /\ run'.done = << >>
    BY <1>4 DEF Crash, Idling
  <2>4. DOMAIN run'.done = {} /\ run'.pending \in Seq(Frames)
    BY <1>1, <2>3
  <2>5. RunType'
    BY <1>0, <1>1, <2>3, <2>4 DEF TypeInv, RunType
  <2> QED
    BY <2>2, <2>5 DEF TypeInv
<1> QED
  BY <1>2, <1>3, <1>4

-----------------------------------------------------------------------------
(* What a run tells at its end.                                             *)

\* The windows still to come are the leftmost and the others.
LEMMA WindowsSplit ==
    ASSUME NEW p \in Seq(Frames), p # << >>
    PROVE  Windows(p) = {Head(p)} \cup Windows(Tail(p)) /\ Head(p) \in Frames
<1>1. /\ Len(p) \in Nat /\ Len(p) >= 1 /\ DOMAIN p = 1..Len(p) /\ Head(p) = p[1]
      /\ DOMAIN Tail(p) = 1..(Len(p) - 1) /\ Head(p) \in Frames
  OBVIOUS
<1>2. \A i \in 1..(Len(p) - 1) : Tail(p)[i] = p[i + 1]
  BY <1>1
<1>3. \A i \in 1..Len(p) : i = 1 \/ (i - 1 \in 1..(Len(p) - 1) /\ (i - 1) + 1 = i)
  BY <1>1
<1>4. \A i \in 1..(Len(p) - 1) : i + 1 \in 1..Len(p)
  BY <1>1
<1>5. ASSUME NEW f \in Windows(p), f # Head(p) PROVE f \in Windows(Tail(p))
  <2>1. PICK i \in 1..Len(p) : f = p[i]
    BY <1>1, <1>5 DEF Windows
  <2>2. i - 1 \in 1..(Len(p) - 1) /\ (i - 1) + 1 = i
    BY <1>1, <1>3, <1>5, <2>1
  <2>3. f = Tail(p)[i - 1]
    BY <1>2, <2>1, <2>2
  <2> QED
    BY <1>1, <2>2, <2>3 DEF Windows
<1>6. \A f \in Windows(Tail(p)) : f \in Windows(p)
  BY <1>1, <1>2, <1>4 DEF Windows
<1>7. Head(p) \in Windows(p)
  BY <1>1 DEF Windows
<1> QED
  BY <1>1, <1>5, <1>6, <1>7

\* A window is split into two, put before the others.
LEMMA WindowsHalved ==
    ASSUME NEW q \in Seq(Frames), NEW l \in Frames, NEW r \in Frames
    PROVE  Windows(<<l, r>> \o q) = {l, r} \cup Windows(q)
<1> DEFINE p == <<l, r>> \o q
<1>1. /\ Len(q) \in Nat /\ DOMAIN q = 1..Len(q) /\ DOMAIN p = 1..(Len(q) + 2)
      /\ p[1] = l /\ p[2] = r
  OBVIOUS
<1>2. \A i \in 1..Len(q) : p[i + 2] = q[i]
  OBVIOUS
<1>3. \A i \in 1..(Len(q) + 2) : i = 1 \/ i = 2 \/ (i - 2 \in 1..Len(q) /\ (i - 2) + 2 = i)
  BY <1>1
<1>4. \A i \in 1..Len(q) : i + 2 \in 1..(Len(q) + 2)
  BY <1>1
<1>5. 1 \in 1..(Len(q) + 2) /\ 2 \in 1..(Len(q) + 2)
  BY <1>1
<1> HIDE DEF p
<1>6. ASSUME NEW f \in Windows(p), f # l, f # r PROVE f \in Windows(q)
  <2>1. PICK i \in 1..(Len(q) + 2) : f = p[i]
    BY <1>1 DEF Windows
  <2>2. i - 2 \in 1..Len(q) /\ (i - 2) + 2 = i
    BY <1>1, <1>3, <1>6, <2>1
  <2>3. f = q[i - 2]
    BY <1>2, <2>1, <2>2
  <2> QED
    BY <1>1, <2>2, <2>3 DEF Windows
<1>7. \A f \in Windows(q) : f \in Windows(p)
  BY <1>1, <1>2, <1>4 DEF Windows
<1>8. l \in Windows(p) /\ r \in Windows(p)
  BY <1>1, <1>5 DEF Windows
<1>9. Windows(p) = {l, r} \cup Windows(q)
  BY <1>6, <1>7, <1>8
<1> QED
  BY <1>9 DEF p

\* What is true of an hour stays true while its file stays, and what is retained of
\* it only shrinks.
LEMMA ToldStays ==
    ASSUME NEW k, Told(k), Kept(k)' \subseteq Kept(k),
           k \in DOMAIN files' <=> k \in DOMAIN files, k \in DOMAIN files => files'[k] = files[k],
           run.shortfalls \subseteq run'.shortfalls, late \subseteq late',
           k \in unrecorded \ run.wrote => k \in unrecorded' \ run'.wrote
    PROVE  Told(k)'
BY DEF Told, Whole, Kept

\* An hour of which nothing is retained is told of whatever its file holds.
LEMMA NothingKept ==
    ASSUME NEW k, Kept(k)' = {}
    PROVE  Told(k)'
BY DEF Told, Whole, Kept

\* A step within a run leaves the status and the manifest's state alone.
LEMMA QuietStays ==
    ASSUME TornStops, StatusIsTrue, run.pc \in {"types", "hours", "fetch"},
           run'.pc \in {"types", "hours", "fetch", "exit"}, torn' = torn,
           run'.tree = run.tree, run'.rc = run.rc
    PROVE  TornStops' /\ StatusIsTrue'
BY DEF TornStops, StatusIsTrue

\* When a run leaves an hour, that hour is the only one it has newly behind it.
LEMMA OneMorePassed ==
    ASSUME IInv, TypeInv, run.pc \in {"hours", "fetch"}, run'.pc = "hours",
           run'.todo = run.todo, run'.asked = run.asked, run'.type = run.type,
           run'.since = run.since, run'.until = run.until, run'.hour = run.hour + 1,
           NEW k \in Asked', Passed(k)', k # Key
    PROVE  k \in Asked /\ Passed(k)
<1>1. k \in Asked
  BY DEF Asked
<1>2. k = <<k[1], k[2]>> /\ k[2] \in Nat
  BY <1>1 DEF Asked, Hours
<1>3. run.hour \in Nat
  BY DEF TypeInv, RunType
<1>4. CASE k[1] \notin run.todo \cup {run.type}
  BY <1>1, <1>4 DEF Passed
<1>5. CASE k[1] = run.type /\ k[2] < run.hour + 1
  <2>1. k[2] # run.hour
    BY <1>2, <1>5 DEF Key
  <2>2. k[2] < run.hour
    BY <1>2, <1>3, <1>5, <2>1
  <2> QED
    BY <1>1, <1>5, <2>2 DEF Passed
<1> QED
  BY <1>4, <1>5 DEF Passed

\* At first no run has anything to tell.
LEMMA InitTells == Init => TellInv
<1> SUFFICES ASSUME Init PROVE TellInv
  OBVIOUS
<1>1. run.pc = "ended" /\ run.asked = {} /\ run.rc = None /\ run.tree = << >> /\ torn = FALSE
  BY DEF Init, Idling
<1> QED
  BY <1>1 DEF TellInv, HoursAreTold, Asked, WindowsAreCounted, TornStops, StatusIsTrue, None

\* What arrives and expires falsifies nothing a run tells: an hour behind it has ended, and gains
\* an event only as a late one.
LEMMA AccountTells == ASSUME IInv, TypeInv, TellInv, Account PROVE TellInv'
<1>1. /\ UNCHANGED <<files, manifest, torn, bucket, run, unrecorded>> /\ late \subseteq late'
  BY DEF Account, Tick, Arrive, Expire, backup
<1>2. now \in Nat /\ run.until \in Int /\ run.until <= now /\ run.hour \in Nat
  BY DEF TypeInv, RunType, StoreType, Hours
<1>3. HoursAreTold'
  <2> SUFFICES ASSUME NEW k \in Asked, Passed(k) PROVE Told(k)'
    BY <1>1 DEF HoursAreTold, Asked, Passed
  <2>1. k[2] \in Int /\ k[2] < run.until
    BY DEF Asked, Hours
  <2>2. k[2] < now
    BY <1>2, <2>1
  <2>3. Told(k)
    BY DEF TellInv, HoursAreTold
  <2>4. CASE k \in late'
    BY <2>4 DEF Told
  <2>5. CASE k \notin late'
    <3>1. Kept(k)' \subseteq Kept(k)
      BY <2>1, <2>2, <2>5, HoursShrink
    <3> QED
      BY <1>1, <2>3, <3>1, ToldStays
  <2> QED
    BY <2>4, <2>5
<1>4. WindowsAreCounted'
  <2>1. Key' = Key
    BY <1>1 DEF Key
  <2> SUFFICES ASSUME run.pc = "fetch", Key \notin late'
               PROVE  /\ \A f \in Windows(run.pending) : count(Key, f.from, f.to)' <= f.n
                      /\ Key \notin run.shortfalls =>
                           \A e \in Kept(Key)' : \/ e \in run.rows
                                                 \/ \E f \in Windows(run.pending) : In(e, f)
    BY <1>1, <2>1 DEF WindowsAreCounted, Kept, count, window
  <2>2. Key[2] = run.hour /\ run.hour < run.until
    BY DEF Key, IInv, FetchIsSound
  <2>3. Kept(Key)' \subseteq Kept(Key)
    BY <1>2, <2>1, <2>2, HoursShrink DEF Kept
  <2>4. Key \notin late
    BY <1>1
  <2>5. ASSUME NEW f \in Windows(run.pending) PROVE count(Key, f.from, f.to)' <= f.n
    <3>1. /\ window(Key, f.from, f.to)' \subseteq window(Key, f.from, f.to)
          /\ IsFiniteSet(window(Key, f.from, f.to)) /\ count(Key, f.from, f.to) \in Nat
      BY <2>1, <2>3, WindowIsReal DEF window, Kept
    <3>2. count(Key, f.from, f.to)' \in Nat /\ count(Key, f.from, f.to)' <= count(Key, f.from, f.to)
      BY <3>1, FS_Subset, FS_CardinalityType DEF count
    <3>3. f \in Frames
      BY DEF TypeInv, RunType, Windows
    <3>4. f.n \in Nat /\ count(Key, f.from, f.to) <= f.n
      BY <2>4, <3>3 DEF TellInv, WindowsAreCounted, Frames
    <3> QED
      BY <3>1, <3>2, <3>4
  <2> QED
    BY <2>3, <2>4, <2>5 DEF TellInv, WindowsAreCounted
<1>5. TornStops' /\ StatusIsTrue'
  BY <1>1 DEF TellInv, TornStops, StatusIsTrue
<1> QED
  BY <1>3, <1>4, <1>5 DEF TellInv

\* A run begins with all its types still to do.
LEMMA BeginTells == ASSUME IInv, TypeInv, TellInv, Begin PROVE TellInv'
<1>1. ASSUME NEW r \in Requests, Start(r) PROVE TellInv'
  <2>1. /\ run'.pc = "types" /\ run'.todo = run'.asked /\ run'.tree = << >> /\ run'.rc = None
        /\ torn' = FALSE
    BY <1>1 DEF Start, Idling, backup, TypeInv, StoreType
  <2> QED
    BY <2>1 DEF TellInv, HoursAreTold, Asked, Passed, WindowsAreCounted, TornStops,
                StatusIsTrue, None
<1>2. ASSUME RemoveManifest PROVE TellInv'
  <2>1. /\ UNCHANGED <<run, files, bucket>> /\ torn' = FALSE
        /\ \/ run.pc = "dead"
           \/ run.pc = "ended" /\ run.asked = {}
    BY <1>2 DEF RemoveManifest, Idle, TellInv, TornStops
  <2>2. HoursAreTold'
    BY <2>1 DEF HoursAreTold, Asked, Passed
  <2> QED
    BY <2>1, <2>2 DEF TellInv, WindowsAreCounted, TornStops, StatusIsTrue
<1>3. ASSUME NEW facets \in 0..(FACET_LIMIT + 1), NEW s3 \in BOOLEAN, NEW synced \in BOOLEAN,
             NEW part \in SUBSET DOMAIN files, timeslices(facets, s3, synced, part)
      PROVE  TellInv'
  <2> DEFINE got == Lesser(FACET_LIMIT, facets)
             rc == exit_status(truncated(got) \/ facets = 0, synced)
  <2>1. /\ run' = [Idling EXCEPT !.tree = <<facets, got>>, !.s3 = s3, !.rc = rc]
        /\ files' = files /\ Upload(s3, synced, part)
    BY <1>3 DEF timeslices
  <2>2. rc = 0 => facets = got /\ got > 0 /\ synced
    BY DEF truncated, Lesser, exit_status
  <2> HIDE DEF got, rc
  <2>3. /\ run'.pc = "ended" /\ run'.asked = {} /\ run'.shortfalls = {} /\ run'.s3 = s3
        /\ run'.tree = <<facets, got>> /\ run'.rc = rc
    BY <2>1 DEF Idling
  <2>4. s3 /\ synced => DOMAIN files \subseteq bucket'
    BY <2>1 DEF Upload
  <2>5. StatusIsTrue'
    BY <2>1, <2>2, <2>3, <2>4 DEF StatusIsTrue
  <2> QED
    BY <2>3, <2>5 DEF TellInv, HoursAreTold, Asked, WindowsAreCounted, TornStops
<1> QED
  BY <1>1, <1>2, <1>3 DEF Begin

\* The last type is done: every hour asked for is behind the run.
LEMMA EndTells ==
    ASSUME IInv, TypeInv, TellInv,
           \/ SaveManifest \/ Crash
           \/ \E synced \in BOOLEAN, part \in SUBSET DOMAIN files : Exit(synced, part)
    PROVE  TellInv'
<1>0. DOMAIN run = Fields /\ UNCHANGED <<now, ever, store, late, files>>
  BY DEF IInv, RunIsSound, SaveManifest, Exit, Crash, account
<1>1. \A k : Kept(k)' = Kept(k)
  BY <1>0 DEF Kept
<1>2. CASE SaveManifest
  <2>1. /\ run.pc = "types" /\ run.todo = {} /\ unrecorded' = unrecorded \ run.wrote
        /\ torn' = torn /\ run' = [run EXCEPT !.pc = "exit"]
    BY <1>2 DEF SaveManifest
  <2>2. /\ run'.pc = "exit" /\ run'.asked = run.asked /\ run'.since = run.since
        /\ run'.until = run.until /\ run'.shortfalls = run.shortfalls
        /\ run'.wrote = run.wrote /\ run'.tree = run.tree /\ run'.rc = run.rc
    BY <1>0, <2>1 DEF Fields
  <2>3. HoursAreTold'
    <3> SUFFICES ASSUME NEW k \in Asked PROVE Told(k)'
      BY <2>2 DEF HoursAreTold, Asked
    <3>1. Told(k)
      BY <2>1 DEF Passed, TellInv, HoursAreTold
    <3> QED
      BY <1>0, <1>1, <2>1, <2>2, <3>1, ToldStays
  <2>4. TornStops' /\ StatusIsTrue'
    BY <2>1, <2>2, QuietStays DEF TellInv
  <2> QED
    BY <2>2, <2>3, <2>4 DEF TellInv, WindowsAreCounted
<1>3. ASSUME NEW synced \in BOOLEAN, NEW part \in SUBSET DOMAIN files, Exit(synced, part)
      PROVE  TellInv'
  <2>1. /\ run.pc = "exit" /\ UNCHANGED <<torn, unrecorded>> /\ bucket' = bucket \cup part
        /\ run.s3 /\ synced => part = DOMAIN files
    BY <1>3 DEF Exit, Upload
  <2>2. /\ run'.pc = "ended" /\ run'.asked = run.asked /\ run'.since = run.since
        /\ run'.until = run.until /\ run'.shortfalls = run.shortfalls /\ run'.wrote = {}
        /\ run'.tree = << >> /\ run'.rc = exit_status(run.shortfalls # {}, synced)
        /\ run'.s3 = run.s3
    BY <1>3 DEF Exit, Idling
  <2>3. HoursAreTold'
    <3> SUFFICES ASSUME NEW k \in Asked PROVE Told(k)'
      BY <2>2 DEF HoursAreTold, Asked
    <3>1. Told(k)
      BY <2>1 DEF Passed, TellInv, HoursAreTold
    <3> QED
      BY <1>0, <1>1, <2>1, <2>2, <3>1, ToldStays
  <2>4. StatusIsTrue'
    <3>1. run'.rc = 0 => synced /\ run.shortfalls = {}
      BY <2>2 DEF exit_status
    <3> QED
      BY <1>0, <2>1, <2>2, <3>1 DEF StatusIsTrue
  <2>5. TornStops'
    BY <2>1 DEF TellInv, TornStops
  <2> QED
    BY <2>2, <2>3, <2>4, <2>5 DEF TellInv, WindowsAreCounted
<1>4. CASE Crash
  <2>1. run'.pc = "dead" /\ run'.tree = << >>
    BY <1>4 DEF Crash, Idling
  <2> QED
    BY <2>1 DEF TellInv, HoursAreTold, Passed, WindowsAreCounted, TornStops, StatusIsTrue
<1> QED
  BY <1>2, <1>3, <1>4

\* The hours before the first that is retained have nothing to miss.
LEMMA EarliestTells == ASSUME IInv, TypeInv, TellInv, NEW t \in Types, Earliest(t)
                        PROVE  TellInv'
<1>0. DOMAIN run = Fields
  BY DEF IInv, RunIsSound
<1> DEFINE kept == {e.hour : e \in {x \in store : x.type = t}}
           first == CHOOSE h \in kept : \A g \in kept : h <= g
<1>1. /\ run.pc = "types" /\ UNCHANGED <<account, backup, unrecorded>>
      /\ \/ kept = {} /\ run' = [run EXCEPT !.todo = @ \ {t}]
         \/ kept # {} /\ run' = [run EXCEPT !.todo = @ \ {t}, !.type = t, !.pc = "hours",
                                  !.hour = IF run.since <= first THEN first ELSE run.since]
  BY DEF Earliest
<1>2. ASSUME NEW k, k[1] = t, \A h \in kept : k[2] < h PROVE Kept(k) = {}
  <2> SUFFICES ASSUME NEW e \in Kept(k) PROVE FALSE
    OBVIOUS
  <2>1. e \in store /\ e.type = t /\ e.hour = k[2]
    BY <1>2 DEF Kept, KeyOf
  <2>2. e.hour \in kept /\ e.hour \in Nat
    BY <2>1 DEF IInv, EventsAreReal
  <2> QED
    BY <1>2, <2>1, <2>2
<1>3. kept \in SUBSET Nat
  BY DEF IInv, EventsAreReal
<1>4. kept # {} => first \in Nat /\ \A g \in kept : g \in Nat /\ first <= g
  <2> HIDE DEF kept
  <2>1. kept # {} => first \in kept /\ \A g \in kept : first <= g
    BY Zenon, <1>3, FirstHour
  <2> HIDE DEF first
  <2> QED
    BY <1>3, <2>1
<1> HIDE DEF kept, first
<1>5. /\ run'.todo = run.todo \ {t} /\ run'.asked = run.asked /\ run'.since = run.since
      /\ run'.until = run.until /\ run'.wrote = run.wrote
      /\ run'.shortfalls = run.shortfalls /\ run'.rc = run.rc /\ run'.tree = run.tree
  <2>1. CASE run' = [run EXCEPT !.todo = @ \ {t}]
    BY <1>0, <2>1 DEF Fields
  <2>2. CASE run' = [run EXCEPT !.todo = @ \ {t}, !.type = t, !.pc = "hours",
                                !.hour = IF run.since <= first THEN first ELSE run.since]
    BY <1>0, <2>2 DEF Fields
  <2> QED
    BY <1>1, <2>1, <2>2
<1>6. \/ kept = {} /\ run'.pc = "types"
      \/ /\ kept # {} /\ run'.pc = "hours" /\ run'.type = t
         /\ run'.hour = IF run.since <= first THEN first ELSE run.since
  <2>1. CASE kept = {}
    BY <1>0, <1>1, <2>1 DEF Fields
  <2>2. CASE kept # {}
    BY <1>0, <1>1, <2>2 DEF Fields
  <2> QED
    BY <2>1, <2>2
<1>7. HoursAreTold'
  <2> SUFFICES ASSUME NEW k \in Asked, Passed(k)' PROVE Told(k)'
    BY <1>5 DEF HoursAreTold, Asked
  <2>1. k[2] \in Nat /\ run.since \in Nat /\ run.since <= k[2]
    BY DEF Asked, Hours, TypeInv, RunType
  <2>2. \/ k[1] \notin run.todo
        \/ k[1] = t /\ kept = {}
        \/ k[1] = t /\ kept # {} /\ k[2] < run'.hour
    BY <1>5, <1>6 DEF Passed
  <2>3. CASE k[1] \notin run.todo
    <3>1. Told(k)
      BY <1>1, <2>3 DEF Passed, TellInv, HoursAreTold
    <3> QED
      BY <1>1, <1>5, <3>1, ToldStays DEF account, backup, Kept
  <2>4. CASE k[1] = t /\ \A h \in kept : k[2] < h
    <3>1. Kept(k)' = {}
      BY <1>1, <1>2, <2>4 DEF account, Kept
    <3> QED
      BY <3>1, NothingKept
  <2>5. CASE k[1] = t /\ kept # {} /\ k[2] < run'.hour
    <3>1. k[2] < first
      BY <1>4, <1>6, <2>1, <2>5
    <3>2. \A h \in kept : k[2] < h
      BY <1>4, <2>1, <2>5, <3>1
    <3> QED
      BY <2>4, <2>5, <3>2
  <2> QED
    BY <2>2, <2>3, <2>4, <2>5
<1>8. TornStops' /\ StatusIsTrue'
  BY <1>1, <1>5, <1>6, QuietStays DEF TellInv, backup
<1> QED
  BY <1>6, <1>7, <1>8 DEF TellInv, WindowsAreCounted

\* A run that leaves an hour has one more behind it: what is to show is that it tells
\* the truth of that one.
LEMMA LeavingTells ==
    ASSUME IInv, TypeInv, TellInv, NEW key, key = Key, Told(key)',
           run.pc \in {"hours", "fetch"}, run.hour < run.until,
           UNCHANGED <<account, torn, unrecorded>>,
           run'.pc = "hours", run'.hour = run.hour + 1,
           run'.todo = run.todo, run'.asked = run.asked, run'.type = run.type,
           run'.since = run.since, run'.until = run.until, run'.tree = run.tree,
           run'.rc = run.rc, run.shortfalls \subseteq run'.shortfalls,
           \A k : k # Key => /\ k \in DOMAIN files' <=> k \in DOMAIN files
                             /\ k \in DOMAIN files => files'[k] = files[k],
           run'.wrote \subseteq run.wrote \cup {Key}
    PROVE  TellInv'
<1>1. HoursAreTold'
  <2> SUFFICES ASSUME NEW k \in Asked', Passed(k)' PROVE Told(k)'
    BY DEF HoursAreTold
  <2>1. CASE k = Key
    BY <2>1
  <2>2. CASE k # Key
    <3>1. k \in Asked /\ Passed(k)
      BY <2>2, OneMorePassed
    <3>2. Told(k)
      BY <3>1 DEF TellInv, HoursAreTold
    <3> QED
      BY <2>2, <3>2, ToldStays DEF account, Kept
  <2> QED
    BY <2>1, <2>2
<1>2. TornStops' /\ StatusIsTrue'
  BY QuietStays DEF TellInv
<1> QED
  BY <1>1, <1>2 DEF TellInv, WindowsAreCounted

\* An hour is skipped because it is recorded as whole, or left with a shortfall.
LEMMA WalkTells ==
    ASSUME IInv, TypeInv, TellInv, Skip \/ EndOfType \/ LeaveHour
    PROVE  TellInv'
<1>0. DOMAIN run = Fields
  BY DEF IInv, RunIsSound
<1>1. UNCHANGED <<account, backup, unrecorded>>
  BY DEF Skip, EndOfType, LeaveHour
<1>2. PICK key : key = Key
  OBVIOUS
<1>3. CASE Skip
  <2>1. /\ run.pc = "hours" /\ run.hour < run.until /\ run' = Next_hour
        /\ Recorded(key, run.done) /\ key \in DOMAIN files
    BY <1>2, <1>3 DEF Skip
  <2>2. /\ run'.pc = "hours" /\ run'.hour = run.hour + 1 /\ run'.wrote = run.wrote
        /\ run'.until = run.until /\ run'.since = run.since
        /\ run'.todo = run.todo /\ run'.asked = run.asked /\ run'.type = run.type
        /\ run'.rc = run.rc /\ run'.tree = run.tree /\ run'.shortfalls = run.shortfalls
    BY <1>0, <2>1, NextHourIs, NextHourKeeps
  <2>3. Told(key)
    <3>1. key \notin late /\ (key \in run.wrote \/ key \notin unrecorded) => Sound(key, run.done)
      BY <2>1 DEF IInv, RunIsSound, Working, Recorded
    <3> QED
      BY <2>1, <3>1 DEF Told, Sound
  <2>4. Told(key)'
    BY <1>1, <2>2, <2>3, ToldStays DEF account, backup, Kept
  <2> QED
    BY <1>1, <1>2, <2>1, <2>2, <2>4, LeavingTells DEF backup
<1>4. CASE LeaveHour
  <2>1. run' = [Next_hour EXCEPT !.shortfalls = @ \cup {Key}]
    BY <1>4 DEF LeaveHour
  <2>2. /\ run'.pc = "hours" /\ run'.hour = run.hour + 1 /\ run'.wrote = run.wrote
        /\ run'.until = run.until /\ run'.since = run.since
        /\ run'.todo = run.todo /\ run'.asked = run.asked /\ run'.type = run.type
        /\ run'.rc = run.rc /\ run'.tree = run.tree
        /\ run'.shortfalls = run.shortfalls \cup {Key}
    BY <1>0, <2>1, NextHourIs, NextHourKeeps DEF Fields
  <2>3. run.pc \in {"hours", "fetch"} /\ run.hour < run.until
    BY <1>4 DEF LeaveHour, IInv, FetchIsSound
  <2>4. Told(key)'
    BY <1>2, <2>2 DEF Told
  <2> QED
    BY <1>1, <1>2, <2>2, <2>3, <2>4, LeavingTells DEF backup
<1>5. CASE EndOfType
  <2>1. run' = [run EXCEPT !.pc = "types"] /\ run.pc = "hours" /\ run.hour >= run.until
    BY <1>5 DEF EndOfType
  <2>2. /\ run'.pc = "types" /\ run'.wrote = run.wrote
        /\ run'.until = run.until /\ run'.since = run.since
        /\ run'.todo = run.todo /\ run'.asked = run.asked
        /\ run'.shortfalls = run.shortfalls /\ run'.rc = run.rc /\ run'.tree = run.tree
    BY <1>0, <2>1 DEF Fields
  <2>3. HoursAreTold'
    <3> SUFFICES ASSUME NEW k \in Asked, Passed(k)' PROVE Told(k)'
      BY <2>2 DEF HoursAreTold, Asked
    <3>1. k[2] \in Nat /\ k[2] < run.until /\ run.until \in Int /\ run.hour \in Nat
      BY DEF Asked, Hours, TypeInv, RunType
    <3>2. Passed(k)
      BY <2>1, <2>2, <3>1 DEF Passed
    <3>3. Told(k)
      BY <3>2 DEF TellInv, HoursAreTold
    <3> QED
      BY <1>1, <2>2, <3>3, ToldStays DEF account, backup, Kept
  <2>4. TornStops' /\ StatusIsTrue'
    BY <1>1, <2>1, <2>2, QuietStays DEF TellInv, backup
  <2> QED
    BY <2>2, <2>3, <2>4 DEF TellInv, WindowsAreCounted
<1> QED
  BY <1>3, <1>4, <1>5

\* An hour is counted: nothing is retained of it, or its one window holds all there is.
LEMMA CountTells == ASSUME IInv, TypeInv, TellInv, CountHour PROVE TellInv'
<1>0. DOMAIN run = Fields
  BY DEF IInv, RunIsSound
<1>1. /\ run.pc = "hours" /\ run.hour < run.until /\ run.rows = {}
      /\ UNCHANGED <<account, backup, unrecorded>>
  BY DEF CountHour, IInv, FetchIsSound
<1>2. window(Key, 0, HourLen) = Kept(Key) /\ IsFiniteSet(Kept(Key))
  BY WindowIsTheHour DEF IInv
<1>3. PICK key : key = Key
  OBVIOUS
<1>4. CASE count(Key, 0, HourLen) = 0
  <2>1. Kept(key)' = {}
    BY <1>1, <1>2, <1>3, <1>4, FS_EmptySet DEF count, Kept, account
  <2> DEFINE done == With(run.done, Key, [expected |-> 0, written |-> 0])
  <2>2. run' = [Next_hour EXCEPT !.done = With(@, Key, [expected |-> 0, written |-> 0])]
    BY <1>4 DEF CountHour
  <2>3. /\ run'.pc = "hours" /\ run'.hour = run.hour + 1 /\ run'.wrote = run.wrote
        /\ run'.until = run.until /\ run'.since = run.since
        /\ run'.todo = run.todo /\ run'.asked = run.asked /\ run'.type = run.type
        /\ run'.rc = run.rc /\ run'.tree = run.tree /\ run'.shortfalls = run.shortfalls
    BY <1>0, <2>2, NextHourIs, NextHourKeeps DEF Fields
  <2>4. Told(key)'
    BY <2>1, NothingKept
  <2> QED
    BY <1>1, <1>3, <2>3, <2>4, LeavingTells DEF backup
<1>5. CASE count(Key, 0, HourLen) # 0
  <2>0. PICK frame : frame = [from |-> 0, to |-> HourLen, n |-> count(Key, 0, HourLen)]
    OBVIOUS
  <2>1. run' = [run EXCEPT !.pc = "fetch", !.counted = window(Key, 0, HourLen),
                           !.pending = <<frame>>]
    BY <1>5, <2>0 DEF CountHour
  <2>2. /\ frame.from = 0 /\ frame.to = HourLen /\ frame.n = count(Key, 0, HourLen)
        /\ count(Key, 0, HourLen) \in Nat
    BY <2>0, WindowIsReal
  <2>3. /\ run'.pc = "fetch" /\ run'.hour = run.hour /\ run'.rows = {}
        /\ run'.wrote = run.wrote /\ run'.until = run.until /\ run'.since = run.since
        /\ run'.todo = run.todo /\ run'.asked = run.asked /\ run'.type = run.type
        /\ run'.pending = <<frame>> /\ run'.rc = run.rc /\ run'.tree = run.tree
        /\ run'.shortfalls = run.shortfalls
    BY <1>0, <1>1, <2>1 DEF Fields
  <2>4. HoursAreTold'
    <3> SUFFICES ASSUME NEW k \in Asked, Passed(k)' PROVE Told(k)'
      BY <2>3 DEF HoursAreTold, Asked
    <3>1. Passed(k)
      BY <1>1, <2>3 DEF Passed
    <3>2. Told(k)
      BY <3>1 DEF TellInv, HoursAreTold
    <3> QED
      BY <1>1, <2>3, <3>2, ToldStays DEF account, backup, Kept
  <2>5. Windows(run'.pending) = {frame}
    <3>1. DOMAIN <<frame>> = {1} /\ <<frame>>[1] = frame
      OBVIOUS
    <3> QED
      BY <2>3, <3>1 DEF Windows
  <2>6. WindowsAreCounted'
    <3>1. Key' = key /\ Kept(key)' = Kept(key) /\ count(key, 0, HourLen)' = frame.n
      BY <1>1, <1>3, <2>2, <2>3 DEF Key, Kept, account, count, window
    <3>2. \A e \in Kept(key) : In(e, frame)
      BY <1>2, <1>3, <2>2 DEF window, In
    <3>3. count(key, frame.from, frame.to)' <= frame.n
      BY <2>2, <3>1
    <3>4. /\ \A f \in Windows(run'.pending) : count(key, f.from, f.to)' <= f.n
          /\ \A e \in Kept(key)' : \E f \in Windows(run'.pending) : In(e, f)
      BY <2>5, <3>1, <3>2, <3>3
    <3> HIDE DEF count, Kept, Windows, In
    <3> QED
      BY <3>1, <3>4 DEF WindowsAreCounted
  <2>7. TornStops' /\ StatusIsTrue'
    BY <1>1, <2>3, QuietStays DEF TellInv, backup
  <2> QED
    BY <2>4, <2>6, <2>7 DEF TellInv
<1> QED
  BY <1>4, <1>5

\* The file is replaced: with no shortfall noted and nothing come late, the rows that
\* were fetched are all that is retained.
LEMMA WriteTells == ASSUME IInv, TypeInv, TellInv, Write PROVE TellInv'
<1>0. DOMAIN run = Fields
  BY DEF IInv, RunIsSound
<1> DEFINE record == [expected |-> Cardinality(run.counted), written |-> Cardinality(run.rows)]
<1>1. /\ run.pc = "fetch" /\ run.hour < run.until /\ run.pending = << >>
      /\ UNCHANGED <<account, torn, unrecorded>> /\ files' = With(files, Key, run.rows)
  BY DEF Write, IInv, FetchIsSound
<1>2. run' = [Next_hour EXCEPT !.done = With(@, Key, record), !.wrote = @ \cup {Key}]
  BY DEF Write
<1> HIDE DEF record
<1>3. /\ run'.pc = "hours" /\ run'.hour = run.hour + 1
      /\ run'.wrote = run.wrote \cup {Key} /\ run'.until = run.until /\ run'.since = run.since
      /\ run'.todo = run.todo /\ run'.asked = run.asked /\ run'.type = run.type
      /\ run'.rc = run.rc /\ run'.tree = run.tree /\ run'.shortfalls = run.shortfalls
  BY <1>0, <1>2, NextHourIs, NextHourKeeps DEF Fields
<1>4. PICK key : key = Key
  OBVIOUS
<1>5. /\ key \in DOMAIN files' /\ files'[key] = run.rows
      /\ \A k : k # Key => /\ k \in DOMAIN files' <=> k \in DOMAIN files
                           /\ k \in DOMAIN files => files'[k] = files[k]
  BY <1>1, <1>4 DEF With
<1>6. Told(key)'
  <2>1. CASE Key \in late \cup run.shortfalls
    BY <1>1, <1>3, <1>4, <2>1 DEF Told, account
  <2>2. CASE Key \notin late \cup run.shortfalls
    <3>1. Windows(run.pending) = {}
      BY <1>1 DEF Windows
    <3>2. Kept(Key) \subseteq run.rows
      BY <1>1, <2>2, <3>1 DEF TellInv, WindowsAreCounted
    <3> QED
      BY <1>1, <1>4, <1>5, <3>2 DEF Told, Whole, Kept, account
  <2> QED
    BY <2>1, <2>2
<1> QED
  BY <1>1, <1>3, <1>4, <1>5, <1>6, LeavingTells

\* Fetching an hour loses no event: a window is empty, is answered with all it was
\* counted to have or noted as short, or is the sum of its halves.
LEMMA FetchTells ==
    ASSUME IInv, TypeInv, TellInv, FetchNothing \/ Bisect \/ \E rows \in SUBSET store : Select(rows)
    PROVE  TellInv'
<1>0. DOMAIN run = Fields
  BY DEF IInv, RunIsSound
<1>1. /\ run.pc = "fetch" /\ run.pending # << >> /\ UNCHANGED <<account, backup, unrecorded>>
      /\ run.pending \in Seq(Frames) /\ Tail(run.pending) \in Seq(Frames)
  <2>1. /\ run.pc = "fetch" /\ run.pending # << >> /\ UNCHANGED <<account, backup, unrecorded>>
    BY DEF FetchNothing, Bisect, Select, Fetching
  <2>2. PICK p \in Seq(Frames) : p = run.pending
    BY DEF TypeInv, RunType
  <2>3. Tail(p) \in Seq(Frames)
    BY <2>1, <2>2
  <2> QED
    BY <2>1, <2>2, <2>3
<1>2. PICK key : key = Key
  OBVIOUS
<1>3. PICK q \in Seq(Frames) : q = Tail(run.pending)
  BY <1>1
<1>4. PICK f \in Frames : f = Frame /\ Windows(run.pending) = {f} \cup Windows(q)
  BY <1>1, <1>3, WindowsSplit DEF Frame
<1>5. \A a, b : /\ window(key, a, b)' = window(key, a, b) /\ IsFiniteSet(window(key, a, b))
                /\ count(key, a, b)' = count(key, a, b) /\ count(key, a, b) \in Nat
  <2> SUFFICES ASSUME NEW a, NEW b
               PROVE  /\ window(key, a, b)' = window(key, a, b) /\ IsFiniteSet(window(key, a, b))
                      /\ count(key, a, b)' = count(key, a, b) /\ count(key, a, b) \in Nat
    OBVIOUS
  <2>1. window(key, a, b)' = window(key, a, b)
    BY <1>1 DEF window, account
  <2>2. count(key, a, b)' = count(key, a, b)
    BY <2>1 DEF count
  <2> QED
    BY <2>1, <2>2, WindowIsReal
<1>6. f.from \in Int /\ f.to \in Int /\ f.n \in Nat
  BY DEF Frames
<1> DEFINE Counted(p) == \A w \in Windows(p) : count(key, w.from, w.to) <= w.n
           Holds(rows, p) == \A e \in Kept(key) : e \in rows \/ \E w \in Windows(p) : In(e, w)
<1>7. key \notin late => Counted(run.pending) /\ (key \notin run.shortfalls => Holds(run.rows, run.pending))
  BY <1>1, <1>2 DEF TellInv, WindowsAreCounted
<1>8. \E p, rows, short :
        /\ p \in Seq(Frames)
        /\ run' = [run EXCEPT !.pending = p, !.rows = rows, !.shortfalls = short]
        /\ run.shortfalls \subseteq short
        /\ key \notin late => Counted(p) /\ (key \notin short => Holds(rows, p))
  <2>1. CASE FetchNothing
    <3>1. run' = [run EXCEPT !.pending = q] /\ f.n = 0
      BY <1>3, <1>4, <2>1 DEF FetchNothing
    <3>2. run' = [run EXCEPT !.pending = q, !.rows = run.rows, !.shortfalls = run.shortfalls]
      BY <1>0, <3>1 DEF Fields
    <3>3. key \notin late => window(key, f.from, f.to) = {}
      <4>1. key \notin late => count(key, f.from, f.to) <= 0
        BY <1>4, <1>7, <3>1
      <4> QED
        BY <1>5, <4>1, FS_EmptySet DEF count
    <3>4. key \notin late => \A e \in Kept(key) : ~In(e, f)
      BY <3>3 DEF window, Kept, In
    <3>5. key \notin late => Counted(q) /\ (key \notin run.shortfalls => Holds(run.rows, q))
      BY <1>4, <1>7, <3>4
    <3> HIDE DEF Counted, Holds
    <3> QED
      BY <3>2, <3>5
  <2>2. ASSUME NEW rows \in SUBSET store, Select(rows)
        PROVE  \E p, r, short :
                 /\ p \in Seq(Frames)
                 /\ run' = [run EXCEPT !.pending = p, !.rows = r, !.shortfalls = short]
                 /\ run.shortfalls \subseteq short
                 /\ key \notin late => Counted(p) /\ (key \notin short => Holds(r, p))
    <3> DEFINE short == Noted(f.n > ROW_CAP \/ Cardinality(rows) # f.n)
    <3>1. run' = [run EXCEPT !.pending = q, !.rows = run.rows \cup rows, !.shortfalls = short]
      BY <1>3, <1>4, <2>2 DEF Select
    <3>2. run.shortfalls \subseteq short
      BY DEF Noted
    <3>3. ASSUME key \notin late, key \notin short PROVE rows = window(key, f.from, f.to)
      <4>1. rows \in SUBSET window(key, f.from, f.to)
        BY <1>2, <1>4, <2>2 DEF Select, Answers
      <4>2. Cardinality(rows) = f.n
        BY <1>2, <3>3 DEF Noted
      <4>3. count(key, f.from, f.to) <= f.n
        BY <1>4, <1>7, <3>3
      <4>4. /\ Cardinality(rows) <= count(key, f.from, f.to)
            /\ Cardinality(rows) = count(key, f.from, f.to) => rows = window(key, f.from, f.to)
        BY <1>5, <4>1, FS_Subset DEF count
      <4> QED
        BY <1>5, <1>6, <4>2, <4>3, <4>4
    <3>4. ASSUME key \notin late, key \notin short PROVE Holds(run.rows \cup rows, q)
      <4>1. \A e \in Kept(key) : In(e, f) => e \in rows
        BY <3>3, <3>4 DEF window, Kept, In
      <4>2. key \notin run.shortfalls
        BY <3>2, <3>4
      <4> QED
        BY <1>4, <1>7, <3>4, <4>1, <4>2
    <3>5. key \notin late => Counted(q)
      BY <1>4, <1>7
    <3> HIDE DEF Counted, Holds, short
    <3> QED
      BY <3>1, <3>2, <3>4, <3>5
  <2>3. CASE Bisect
    <3>1. PICK mid : mid = f.from + (f.to - f.from) \div 2
      OBVIOUS
    <3>2. mid \in Int
      BY <1>6, <3>1
    <3>3. PICK l \in Frames : l = [from |-> f.from, to |-> mid, n |-> count(key, f.from, mid)]
      BY <1>5, <1>6, <3>2 DEF Frames
    <3>4. PICK r \in Frames : r = [from |-> mid, to |-> f.to, n |-> count(key, mid, f.to)]
      BY <1>5, <1>6, <3>2 DEF Frames
    <3>5. PICK p \in Seq(Frames) : p = <<l, r>> \o q
      <4>1. <<l, r>> \in Seq(Frames)
        OBVIOUS
      <4>2. <<l, r>> \o q \in Seq(Frames)
        BY <4>1
      <4> QED
        BY <4>2
    <3>6. PICK short : run' = [run EXCEPT !.pending = p, !.shortfalls = short]
                       /\ run.shortfalls \subseteq short
      <4> DEFINE short == Noted(count(Key, Frame.from, mid) + count(Key, mid, Frame.to) # Frame.n)
      <4>1. run' = [run EXCEPT
              !.pending = <<[from |-> Frame.from, to |-> mid, n |-> count(Key, Frame.from, mid)],
                            [from |-> mid, to |-> Frame.to, n |-> count(Key, mid, Frame.to)]>>
                          \o Tail(run.pending),
              !.shortfalls = short]
        BY <1>4, <2>3, <3>1 DEF Bisect
      <4>2. run.shortfalls \subseteq short
        BY DEF Noted
      <4> HIDE DEF short
      <4> QED
        BY <1>2, <1>3, <1>4, <3>3, <3>4, <3>5, <4>1, <4>2
    <3>7. run' = [run EXCEPT !.pending = p, !.rows = run.rows, !.shortfalls = short]
      BY <1>0, <3>6 DEF Fields
    <3>8. Windows(p) = {l, r} \cup Windows(q)
      BY <3>5, WindowsHalved
    <3>9. count(key, l.from, l.to) <= l.n /\ count(key, r.from, r.to) <= r.n
      BY <1>5, <3>3, <3>4
    <3>10. key \notin late => Counted(p)
      BY <1>4, <1>7, <3>8, <3>9
    <3>11. \A e \in Kept(key) : In(e, f) => In(e, l) \/ In(e, r)
      <4>1. \A e \in Kept(key) : e.ms \in Int
        BY DEF Kept, IInv, EventsAreReal
      <4> QED
        BY <1>6, <3>2, <3>3, <3>4, <4>1 DEF In
    <3>12. key \notin late /\ key \notin short => Holds(run.rows, p)
      BY <1>4, <1>7, <3>6, <3>8, <3>11
    <3> HIDE DEF Counted, Holds
    <3> QED
      BY <3>6, <3>7, <3>10, <3>12
  <2> HIDE DEF Counted, Holds
  <2> QED
    BY <2>1, <2>2, <2>3
<1>9. PICK p, rows, short :
        /\ p \in Seq(Frames)
        /\ run' = [run EXCEPT !.pending = p, !.rows = rows, !.shortfalls = short]
        /\ run.shortfalls \subseteq short
        /\ key \notin late => Counted(p) /\ (key \notin short => Holds(rows, p))
  BY <1>8
<1> HIDE DEF Counted, Holds
<1>10. /\ run'.pc = "fetch" /\ run'.hour = run.hour /\ run'.rows = rows
       /\ run'.wrote = run.wrote /\ run'.until = run.until /\ run'.since = run.since
       /\ run'.todo = run.todo /\ run'.asked = run.asked /\ run'.type = run.type
       /\ run'.pending = p /\ run'.rc = run.rc /\ run'.tree = run.tree
       /\ run'.shortfalls = short
  BY <1>0, <1>1, <1>9 DEF Fields
<1>11. HoursAreTold'
  <2> SUFFICES ASSUME NEW k \in Asked, Passed(k)' PROVE Told(k)'
    BY <1>10 DEF HoursAreTold, Asked
  <2>1. Passed(k)
    BY <1>1, <1>10 DEF Passed
  <2>2. Told(k)
    BY <2>1 DEF TellInv, HoursAreTold
  <2> QED
    BY <1>1, <1>9, <1>10, <2>2, ToldStays DEF account, backup, Kept
<1>12. WindowsAreCounted'
  <2>1. Key' = key /\ Kept(key)' = Kept(key) /\ late' = late
    BY <1>1, <1>2, <1>10 DEF Key, Kept, account
  <2>2. key \notin late => \A w \in Windows(p) : count(key, w.from, w.to)' <= w.n
    BY <1>5, <1>9 DEF Counted
  <2>3. key \notin late /\ key \notin short =>
          \A e \in Kept(key)' : e \in rows \/ \E w \in Windows(p) : In(e, w)
    BY <1>9, <2>1 DEF Holds
  <2> HIDE DEF count, Kept, Windows, In
  <2> QED
    BY <1>10, <2>1, <2>2, <2>3 DEF WindowsAreCounted
<1>13. TornStops' /\ StatusIsTrue'
  BY <1>1, <1>10, QuietStays DEF TellInv, backup
<1> QED
  BY <1>11, <1>12, <1>13 DEF TellInv

\* What the files hold is of their hour: reading only the hours whose name overlaps
\* a window misses no row of it.
LEMMA ReadingMissesNothing ==
    ASSUME TypeOK, NEW t \in Types, NEW a \in Int, NEW b \in Int
    PROVE  read(t, a, b) = {e \in UNION {files[k] : k \in DOMAIN files} :
                              e.type = t /\ a <= At(e) /\ At(e) < b}
<1>1. ASSUME NEW k \in DOMAIN files, NEW e \in files[k]
      PROVE  /\ e.type = k[1] /\ e.hour = k[2] /\ k[2] \in Nat /\ At(e) \in Int
             /\ k[2] * HourLen <= At(e) /\ At(e) < (k[2] + 1) * HourLen
             /\ k[2] * HourLen \in Int /\ (k[2] + 1) * HourLen \in Int
  <2>1. k \in Keys /\ e \in Event /\ KeyOf(e) = k
    BY <1>1 DEF TypeOK
  <2>2. e.type = k[1] /\ e.hour = k[2] /\ k[2] \in Nat /\ e.ms \in 0..(HourLen - 1)
    BY <2>1 DEF KeyOf, Event, Hours
  <2>3. PICK p \in Int : p = k[2] * HourLen
    BY <2>2
  <2>4. (k[2] + 1) * HourLen = p + HourLen
    BY <2>2, <2>3
  <2>5. At(e) = p + e.ms
    BY <2>2, <2>3 DEF At
  <2> QED
    BY <2>2, <2>3, <2>4, <2>5
<1>2. ASSUME NEW k \in DOMAIN files, NEW e \in files[k], e.type = t, a <= At(e), At(e) < b
      PROVE  k[1] = t /\ ~outside(k[2], a, b)
  BY <1>1, <1>2 DEF outside
<1>3. ASSUME NEW e \in read(t, a, b)
      PROVE  /\ e \in UNION {files[k] : k \in DOMAIN files}
             /\ e.type = t /\ a <= At(e) /\ At(e) < b
  <2>1. PICK k \in DOMAIN files : k[1] = t /\ e \in files[k] /\ a <= At(e) /\ At(e) < b
    BY DEF read
  <2> QED
    BY <1>1, <2>1
<1>4. ASSUME NEW e \in UNION {files[k] : k \in DOMAIN files},
             e.type = t, a <= At(e), At(e) < b
      PROVE  e \in read(t, a, b)
  <2>1. PICK k \in DOMAIN files : e \in files[k]
    OBVIOUS
  <2>2. k[1] = t /\ ~outside(k[2], a, b)
    BY <1>2, <1>4, <2>1
  <2> QED
    BY <1>4, <2>1, <2>2 DEF read
<1> QED
  BY <1>3, <1>4

\* A run of the log ends no later than the next one starts.
LEMMA RunsEndInTurn ==
    ASSUME NEW r \in Int, NEW s \in Int, r <= s, NEW lasts \in Int
    PROVE  /\ resolve({r, s}, r, lasts) \in Int
           /\ r < s => resolve({r, s}, r, lasts) <= s
<1> DEFINE later == {x \in {r, s} : x > r}
           ceiling == CHOOSE x \in later : \A y \in later : x <= y
<1>1. resolve({r, s}, r, lasts) = IF later = {} THEN r + lasts ELSE Lesser(r + lasts, ceiling)
  BY DEF resolve
<1>2. CASE r = s
  <2>1. later = {}
    BY <1>2
  <2> QED
    BY <1>1, <1>2, <2>1
<1>3. CASE r < s
  <2>1. later = {s}
    BY <1>3
  <2>2. ceiling = s
    <3>1. \E x \in {s} : \A y \in {s} : x <= y
      OBVIOUS
    <3>2. (CHOOSE x \in {s} : \A y \in {s} : x <= y) \in {s}
      BY <3>1
    <3> QED
      BY <2>1, <3>2
  <2> HIDE DEF later, ceiling
  <2> QED
    BY <1>1, <2>1, <2>2 DEF Lesser
<1> QED
  BY <1>2, <1>3
-----------------------------------------------------------------------------
(* The theorems.                                                            *)

\* The three invariants, whatever step is taken.
LEMMA StepKeeps ==
    ASSUME IInv, TypeInv, TellInv, [Next]_vars
    PROVE  IInv' /\ TypeInv' /\ TellInv'
<1>1. CASE Account
  BY <1>1, AccountKeeps, AccountTypes, AccountTells
<1>2. CASE Begin
  BY <1>2, BeginKeeps, BeginTypes, BeginTells
<1>3. ASSUME NEW t \in Types, Earliest(t) PROVE IInv' /\ TypeInv' /\ TellInv'
  BY <1>3, WalkKeeps, WalkTypes, EarliestTells
<1>4. CASE Skip \/ EndOfType \/ LeaveHour
  BY <1>4, WalkKeeps, WalkTypes, WalkTells
<1>5. CASE CountHour
  BY <1>5, CountKeeps, CountTypes, CountTells
<1>6. CASE FetchNothing \/ Bisect \/ \E rows \in SUBSET store : Select(rows)
  BY <1>6, FetchKeeps, FetchTypes, FetchTells
<1>7. CASE Write
  BY <1>7, WriteKeeps, WriteTypes, WriteTells
<1>8. CASE \/ SaveManifest \/ Crash
           \/ \E synced \in BOOLEAN, part \in SUBSET DOMAIN files : Exit(synced, part)
  BY <1>8, EndKeeps, EndTypes, EndTells
<1>9. CASE UNCHANGED vars
  <2>1. UNCHANGED <<now, ever, store, files, manifest, torn, bucket, run, late, unrecorded,
                    faults, exports>>
    BY <1>9 DEF vars
  <2>2. Unsaved' = Unsaved /\ Working' = Working /\ Key' = Key
    BY <2>1 DEF Unsaved, Working, Key
  <2>3. IInv'
    BY <2>1, <2>2 DEF IInv, EventsAreReal, SavedIsSound, RunIsSound, FetchIsSound, Sound,
                      Recorded, Whole, Kept
  <2>4. TypeInv'
    BY <2>1, <2>2 DEF TypeInv, StoreType, RunType
  <2>5. HoursAreTold'
    BY <2>1 DEF TellInv, HoursAreTold, Asked, Passed, Told, Whole
  <2>6. WindowsAreCounted' /\ TornStops' /\ StatusIsTrue'
    BY <2>1, <2>2 DEF TellInv, WindowsAreCounted, Kept, count, window, TornStops, StatusIsTrue
  <2> QED
    BY <2>3, <2>4, <2>5, <2>6 DEF TellInv
<1> QED
  BY <1>1, <1>2, <1>3, <1>4, <1>5, <1>6, <1>7, <1>8, <1>9 DEF Next, Step

\* They hold throughout.
LEMMA Invariants == Spec => [](IInv /\ TypeInv /\ TellInv)
<1>1. Init => IInv /\ TypeInv /\ TellInv
  BY InitIInv, InitTypes, InitTells
<1>2. (IInv /\ TypeInv /\ TellInv) /\ [Next]_vars => (IInv /\ TypeInv /\ TellInv)'
  BY StepKeeps
<1> QED
  BY <1>1, <1>2, PTL DEF Spec

\* The state stays well formed: the files of an hour hold events of that hour, S3
\* holds no file --out has not, and what a run was asked for and wrote is real.
THEOREM TypesAreKept == Spec => []TypeOK
<1>1. TypeInv => TypeOK
  <2> SUFFICES ASSUME TypeInv PROVE TypeOK
    OBVIOUS
  <2>1. \A k \in DOMAIN manifest : manifest[k] \in [expected : Nat, written : Nat]
    BY DEF TypeInv, StoreType, Records
  <2> QED
    BY <2>1 DEF TypeInv, StoreType, RunType, TypeOK
<1> QED
  BY <1>1, Invariants, PTL

\* A run that ends has told of every hour it does not hold whole, exits 0 only with
\* none and with all its files in S3, and calls no cut or empty tree captured.
THEOREM ExitIsTrue == Spec => []ExitTellsTheTruth
<1>1. TellInv => ExitTellsTheTruth
  <2> SUFFICES ASSUME TellInv PROVE ExitTellsTheTruth
    OBVIOUS
  <2>1. ASSUME run.pc = "ended", NEW k \in Asked
        PROVE  Whole(k) \/ k \in run.shortfalls \cup late \cup unrecorded
    <3>1. Told(k)
      BY <2>1 DEF TellInv, HoursAreTold, Passed
    <3> QED
      BY <3>1 DEF Told
  <2> QED
    BY <2>1 DEF TellInv, StatusIsTrue, ExitTellsTheTruth, Asked
<1> QED
  BY <1>1, Invariants, PTL

\* Reading the backup for the window of a run opens only the hours that overlap it
\* and misses no row the files hold; no row answers for two runs.
THEOREM ReadsMissNothing == Spec => []ReadsAreWhole
<1>1. TypeOK => ReadsAreWhole
  <2> SUFFICES ASSUME TypeOK, NEW t \in Types,
                      NEW r \in 0..(HourLen * LastHour), NEW s \in 0..(HourLen * LastHour),
                      NEW lasts \in {HourLen + 1}, r <= s
               PROVE  LET end(x) == resolve({r, s}, x, lasts)
                          rows(x) == {e \in UNION {files[k] : k \in DOMAIN files} :
                                        e.type = t /\ x <= At(e) /\ At(e) < end(x)}
                      IN /\ read(t, r, end(r)) = rows(r)
                         /\ r < s => read(t, r, end(r)) \cap read(t, s, end(s)) = {}
    BY DEF ReadsAreWhole
  <2>1. r \in Int /\ s \in Int /\ lasts \in Int
    OBVIOUS
  <2>2. PICK e \in Int : e = resolve({r, s}, r, lasts) /\ (r < s => e <= s)
    BY <2>1, RunsEndInTurn
  <2>3. read(t, r, e) = {x \in UNION {files[k] : k \in DOMAIN files} :
                           x.type = t /\ r <= At(x) /\ At(x) < e}
    BY <2>1, <2>2, ReadingMissesNothing
  <2>4. ASSUME r < s, NEW b, NEW x \in read(t, r, e), x \in read(t, s, b) PROVE FALSE
    <3>1. At(x) < e /\ s <= At(x) /\ x \in UNION {files[k] : k \in DOMAIN files}
      BY <2>3, <2>4 DEF read
    <3>2. At(x) \in Int
      <4>1. x \in Event
        BY <3>1 DEF TypeOK
      <4> QED
        BY <4>1 DEF At, Event, Hours
    <3> QED
      BY <2>1, <2>2, <2>4, <3>1, <3>2
  <2> QED
    BY <2>2, <2>3, <2>4
<1> QED
  BY <1>1, TypesAreKept, PTL

\* An hour that the next run will skip misses no event that is still retained,
\* but for late ones and hours whose manifest was never saved.
THEOREM CompleteIsWhole == Spec => []CompleteHoursAreWhole
<1>1. IInv => CompleteHoursAreWhole
  BY DEF IInv, SavedIsSound, Sound, CompleteHoursAreWhole
<1> QED
  BY <1>1, Invariants, PTL

-----------------------------------------------------------------------------
(* Every step of a run advances: what termination needs besides fairness.   *)

\* What a run has before it: types, then the hours of one, then its windows.
SameType == run'.todo = run.todo /\ run'.until = run.until
SameHour == SameType /\ run'.hour = run.hour
TypeBegun == run.pc = "types" /\ \E t \in run.todo : run'.todo = run.todo \ {t}
HourBehind ==
    SameType /\ run'.pc = "hours" /\ run.hour < run.until /\ run'.hour = run.hour + 1
HourBegun == SameHour /\ run.pc = "hours" /\ run'.pc = "fetch"
WindowBehind ==
    SameHour /\ run.pc = "fetch" /\ run'.pc = "fetch" /\ run'.pending = Tail(run.pending)

\* A window in two halves that leave none of it out, neither of them empty.
WindowHalved ==
    /\ SameHour /\ run.pc = "fetch" /\ run'.pc = "fetch"
    /\ Len(run'.pending) = Len(run.pending) + 1
    /\ LET l == run'.pending[1]
           r == run'.pending[2]
       IN /\ run'.pending = <<l, r>> \o Tail(run.pending)
          /\ l.from = Frame.from /\ l.to = r.from /\ r.to = Frame.to
          /\ l.from < l.to /\ r.from < r.to

\* A type is over after its last hour, a run after its last type.
Closing ==
    \/ SameType /\ run.pc = "hours" /\ run'.pc = "types" /\ run.hour >= run.until
    \/ run.pc = "types" /\ run'.pc = "exit" /\ run.todo = {}
    \/ run.pc = "exit" /\ run'.pc = "ended"

\* Less is left to ask.
Advances ==
    \/ TypeBegun \/ HourBehind \/ HourBegun
    \/ WindowBehind \/ WindowHalved \/ Closing

\* Whatever the counts answer, a step of a run leaves less to ask: a type fewer,
\* an hour fewer, a window fewer, or a window in two that are each narrower, so
\* that the splitting of an hour that keeps filling up stops at the millisecond.
EveryQueryAdvances ==
    [][~Idle /\ run' # run /\ run'.pc # "dead" => Advances]_vars

\* An hour that is passed, however, is behind.
LEMMA HourIsBehind ==
    ASSUME DOMAIN run = Fields, run.hour < run.until,
           \/ run' = Next_hour
           \/ \E s : run' = [Next_hour EXCEPT !.shortfalls = s]
           \/ \E d : run' = [Next_hour EXCEPT !.done = d]
           \/ \E d, w : run' = [Next_hour EXCEPT !.done = d, !.wrote = w]
    PROVE  HourBehind
<1>1. /\ DOMAIN Next_hour = Fields
      /\ Next_hour.pc = "hours" /\ Next_hour.hour = run.hour + 1
      /\ Next_hour.until = run.until /\ Next_hour.todo = run.todo
  BY NextHourIs, NextHourKeeps
<1>2. PICK next : next = Next_hour
  OBVIOUS
<1>3. /\ run'.pc = next.pc /\ run'.hour = next.hour
      /\ run'.until = next.until /\ run'.todo = next.todo
  BY <1>1, <1>2 DEF Fields
<1> QED
  BY <1>1, <1>2, <1>3 DEF HourBehind, SameType

\* Going from hour to hour and from type to type, a run gets on.
LEMMA WalkAdvances ==
    ASSUME IInv, TypeInv,
           \/ \E t \in Types : Earliest(t)
           \/ Skip \/ CountHour \/ EndOfType \/ LeaveHour \/ Write
    PROVE  Advances
<1>0. DOMAIN run = Fields
  BY DEF IInv, RunIsSound
<1>1. ASSUME NEW t \in Types, Earliest(t) PROVE TypeBegun
  <2>1. run.pc = "types" /\ t \in run.todo
    BY <1>1 DEF Earliest
  <2>2. \/ run' = [run EXCEPT !.todo = @ \ {t}]
        \/ \E h : run' = [run EXCEPT !.todo = @ \ {t}, !.type = t, !.pc = "hours", !.hour = h]
    BY <1>1 DEF Earliest
  <2>3. run'.todo = run.todo \ {t}
    BY <1>0, <2>2 DEF Fields
  <2> QED
    BY <2>1, <2>3 DEF TypeBegun
<1>2. CASE Skip
  <2>1. run.hour < run.until /\ run' = Next_hour
    BY <1>2 DEF Skip
  <2>2. HourBehind
    BY <1>0, <2>1, HourIsBehind
  <2> QED
    BY <2>2 DEF Advances
<1>3. CASE CountHour
  <2>1. run.pc = "hours" /\ run.hour < run.until
    BY <1>3 DEF CountHour
  <2>2. \/ \E d : run' = [Next_hour EXCEPT !.done = d]
        \/ \E c, p : run' = [run EXCEPT !.pc = "fetch", !.counted = c, !.pending = p]
    BY <1>3 DEF CountHour
  <2>3. CASE \E d : run' = [Next_hour EXCEPT !.done = d]
    <3>1. HourBehind
      BY <1>0, <2>1, <2>3, HourIsBehind
    <3> QED
      BY <3>1 DEF Advances
  <2>4. CASE \E c, p : run' = [run EXCEPT !.pc = "fetch", !.counted = c, !.pending = p]
    <3>1. /\ run'.pc = "fetch" /\ run'.todo = run.todo /\ run'.until = run.until
          /\ run'.hour = run.hour
      BY <1>0, <2>4 DEF Fields
    <3> QED
      BY <2>1, <3>1 DEF Advances, HourBegun, SameHour, SameType
  <2> QED
    BY <2>2, <2>3, <2>4
<1>4. CASE EndOfType
  <2>1. run.pc = "hours" /\ run.hour >= run.until /\ run' = [run EXCEPT !.pc = "types"]
    BY <1>4 DEF EndOfType
  <2>2. run'.pc = "types" /\ run'.todo = run.todo /\ run'.until = run.until
    BY <1>0, <2>1 DEF Fields
  <2> QED
    BY <2>1, <2>2 DEF Advances, Closing, SameType
<1>5. CASE LeaveHour
  <2>1. run.hour < run.until
    BY <1>5 DEF LeaveHour, IInv, FetchIsSound
  <2>2. \E s : run' = [Next_hour EXCEPT !.shortfalls = s]
    <3>1. PICK s : s = Next_hour.shortfalls \cup {Key}
      OBVIOUS
    <3>2. run' = [Next_hour EXCEPT !.shortfalls = s]
      BY <1>5, <3>1 DEF LeaveHour
    <3> QED
      BY <3>2
  <2>3. HourBehind
    BY <1>0, <2>1, <2>2, HourIsBehind
  <2> QED
    BY <2>3 DEF Advances
<1>6. CASE Write
  <2>1. run.hour < run.until
    BY <1>6 DEF Write, IInv, FetchIsSound
  <2>2. \E d, w : run' = [Next_hour EXCEPT !.done = d, !.wrote = w]
    BY <1>6 DEF Write
  <2>3. HourBehind
    BY <1>0, <2>1, <2>2, HourIsBehind
  <2> QED
    BY <2>3 DEF Advances
<1>7. TypeBegun => Advances
  BY DEF Advances
<1> QED
  BY <1>1, <1>2, <1>3, <1>4, <1>5, <1>6, <1>7

\* The middle of a window wider than a millisecond is inside it.
LEMMA MiddleIsInside ==
    ASSUME NEW a \in Int, NEW b \in Int, b - a > 1
    PROVE  a < a + (b - a) \div 2 /\ a + (b - a) \div 2 < b
<1>1. PICK w \in Int : w = b - a
  OBVIOUS
<1>2. 0 < w \div 2 /\ w \div 2 < w /\ w \div 2 \in Int
  BY <1>1
<1> QED
  BY <1>1, <1>2

\* Fetching an hour, it has a window less to ask, or two narrower ones.
LEMMA FetchAdvances ==
    ASSUME IInv, TypeInv, FetchNothing \/ Bisect \/ \E rows \in SUBSET store : Select(rows)
    PROVE  Advances
<1>0. DOMAIN run = Fields
  BY DEF IInv, RunIsSound
<1>1. run.pc = "fetch" /\ run.pending \in Seq(Frames) /\ run.pending # << >>
  BY DEF FetchNothing, Bisect, Select, Fetching, TypeInv, RunType
<1>2. Tail(run.pending) \in Seq(Frames) /\ Frame \in Frames
      /\ Len(Tail(run.pending)) = Len(run.pending) - 1
  BY <1>1 DEF Frame
<1>3. ASSUME \/ run' = [run EXCEPT !.pending = Tail(@)]
             \/ \E r, s : run' = [run EXCEPT !.pending = Tail(@), !.rows = r, !.shortfalls = s]
      PROVE  Advances
  <2>1. /\ run'.pc = run.pc /\ run'.todo = run.todo /\ run'.until = run.until
        /\ run'.hour = run.hour /\ run'.pending = Tail(run.pending)
    BY <1>0, <1>3 DEF Fields
  <2> QED
    BY <1>1, <2>1 DEF Advances, WindowBehind, SameHour, SameType
<1>4. CASE FetchNothing
  BY <1>3, <1>4 DEF FetchNothing
<1>5. ASSUME NEW rows \in SUBSET store, Select(rows) PROVE Advances
  <2>1. PICK r, s : r = run.rows \cup rows
                    /\ s = Noted(Frame.n > ROW_CAP \/ Cardinality(rows) # Frame.n)
    OBVIOUS
  <2>2. run' = [run EXCEPT !.pending = Tail(@), !.rows = r, !.shortfalls = s]
    BY <1>5, <2>1 DEF Select
  <2> QED
    BY <1>3, <2>2
<1>6. CASE Bisect
  <2>1. PICK mid : mid = Frame.from + (Frame.to - Frame.from) \div 2
    OBVIOUS
  <2>2. Frame.from \in Int /\ Frame.to \in Int /\ Frame.to - Frame.from > 1
    BY <1>2, <1>6 DEF Frames, Bisect, Narrowest
  <2>3. mid \in Int /\ Frame.from < mid /\ mid < Frame.to
    BY <2>1, <2>2, MiddleIsInside
  <2>4. PICK l : l = [from |-> Frame.from, to |-> mid, n |-> count(Key, Frame.from, mid)]
    OBVIOUS
  <2>5. PICK r : r = [from |-> mid, to |-> Frame.to, n |-> count(Key, mid, Frame.to)]
    OBVIOUS
  <2>6. /\ l.from = Frame.from /\ l.to = mid /\ r.from = mid /\ r.to = Frame.to
        /\ l \in Frames /\ r \in Frames
    <3>1. count(Key, Frame.from, mid) \in Nat /\ count(Key, mid, Frame.to) \in Nat
      BY WindowIsReal
    <3> QED
      BY <2>2, <2>3, <2>4, <2>5, <3>1 DEF Frames
  <2>7. PICK p : p = <<l, r>> \o Tail(run.pending)
    OBVIOUS
  <2>8. p[1] = l /\ p[2] = r /\ Len(p) = Len(run.pending) + 1
    BY <1>1, <1>2, <2>6, <2>7
  <2>9. \E s : run' = [run EXCEPT !.pending = p, !.shortfalls = s]
    <3>1. PICK s : s = Noted(count(Key, Frame.from, mid) + count(Key, mid, Frame.to) # Frame.n)
      OBVIOUS
    <3>2. run' = [run EXCEPT !.pending = p, !.shortfalls = s]
      BY <1>6, <2>1, <2>4, <2>5, <2>7, <3>1 DEF Bisect
    <3> QED
      BY <3>2
  <2>10. /\ run'.pc = run.pc /\ run'.todo = run.todo /\ run'.until = run.until
         /\ run'.hour = run.hour /\ run'.pending = p
    BY <1>0, <2>9 DEF Fields
  <2>11. SameHour
    BY <2>10 DEF SameHour, SameType
  <2>12. WindowHalved
    BY <1>1, <2>3, <2>6, <2>7, <2>8, <2>10, <2>11 DEF WindowHalved
  <2> QED
    BY <2>12 DEF Advances
<1> QED
  BY <1>4, <1>5, <1>6

\* However an hour fills up and however often its windows are split, each step of a
\* run leaves it less to ask.
THEOREM QueriesAdvance == Spec => EveryQueryAdvances
<1>1. ASSUME IInv, TypeInv, [Next]_vars, ~Idle, run' # run, run'.pc # "dead"
      PROVE  Advances
  <2>1. CASE Account \/ UNCHANGED vars
    BY <1>1, <2>1 DEF Account, Tick, Arrive, Expire, vars
  <2>2. CASE Begin
    BY <1>1, <2>2 DEF Begin, Start, RemoveManifest, timeslices
  <2>3. CASE Crash
    <3>1. run'.pc = "dead"
      BY <2>3 DEF Crash, Idling
    <3> QED
      BY <1>1, <3>1
  <2>4. CASE SaveManifest
    <3>1. run.pc = "types" /\ run.todo = {} /\ run' = [run EXCEPT !.pc = "exit"]
      BY <2>4 DEF SaveManifest
    <3>2. run'.pc = "exit"
      BY <1>1, <3>1 DEF IInv, RunIsSound, Fields
    <3> QED
      BY <3>1, <3>2 DEF Advances, Closing
  <2>5. ASSUME NEW synced \in BOOLEAN, NEW part \in SUBSET DOMAIN files, Exit(synced, part)
        PROVE  Advances
    <3>1. run.pc = "exit" /\ run'.pc = "ended"
      BY <2>5 DEF Exit, Idling
    <3> QED
      BY <3>1 DEF Advances, Closing
  <2>6. CASE \/ \E t \in Types : Earliest(t)
             \/ Skip \/ CountHour \/ EndOfType \/ LeaveHour \/ Write
    BY <1>1, <2>6, WalkAdvances
  <2>7. CASE FetchNothing \/ Bisect \/ \E rows \in SUBSET store : Select(rows)
    BY <1>1, <2>7, FetchAdvances
  <2> QED
    BY <1>1, <2>1, <2>2, <2>3, <2>4, <2>5, <2>6, <2>7 DEF Next, Step
<1>2. IInv /\ TypeInv /\ [Next]_vars =>
        (~Idle /\ run' # run /\ run'.pc # "dead" => Advances)
  BY <1>1
<1> QED
  BY <1>2, Invariants, PTL DEF Spec, EveryQueryAdvances
=============================================================================
