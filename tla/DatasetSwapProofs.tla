--------------------------- MODULE DatasetSwapProofs ---------------------------
(***************************************************************************)
(* Theorems about DatasetSwap, for every pilot, set of tables, archives    *)
(* and number of runs: what is emptied was proved, what is done is loaded, *)
(* the id sequences cover what is there and are not set back.              *)
(*                                                                         *)
(* The invariant has four layers, each preserved with the help of those    *)
(* before it: types, the phases of a run and whose sessions are at work in *)
(* them, the id sequences, and what the pilot holds.  The last two speak   *)
(* of runs that began while no session of an earlier one was at work.      *)
(***************************************************************************)
EXTENDS DatasetSwap, TLAPS, SequenceTheorems, FiniteSetTheorems, WellFoundedInduction

-----------------------------------------------------------------------------
(* The inductive invariant, in four layers.                                 *)

\* The SQL statements of the scripts, and a session that runs them.
Line == [op : {"copy", "setval", "raise"}, org : Orgs, table : TableSet]
Statement == [op : {"delete"}] \cup Line

Session == [swap : Nat, phase : SessionPhases, orgs : Seq(Orgs), set : Datasets,
            todo : Seq(Statement), seen : Nat \cup {Unread}, rc : {"running", "ok", "failed"}]

\* Types; a session is at work exactly while statements are left, unless it failed.
SessionType(s) ==
    /\ s \in Session /\ s.swap <= run.n
    /\ s.rc = "running" => s.todo # <<>>
    /\ s.rc = "ok" => s.todo = <<>>

SwapType ==
    /\ rows \in [Orgs -> [TableSet -> SUBSET Datasets]]
    /\ lastValue \in [TableSet -> Nat]
    /\ scaffolding \in BOOLEAN
    /\ files \in [Datasets -> [Orgs -> Extents]]
    /\ run \in Run /\ pc \in Locations
    /\ \A s \in sessions : SessionType(s)

\* Where a run stands before it has launched a phase's sessions, and while it
\* waits for them.
Before(phase) ==
    {"fetch", "prove", "indexes", "teardown"}
      \cup (IF phase = "td" THEN {} ELSE {"tearing", "count", "vacuum", "load"})
      \cup (IF phase = "seqfix" THEN {"loading", "seqfix"} ELSE {})
WaitFor(phase) ==
    CASE phase = "td" -> "tearing" [] phase = "load" -> "loading" [] OTHER -> "fixing"

Later(phase, other) ==
    \/ phase = "load" /\ other = "td"
    \/ phase = "seqfix" /\ other \in {"td", "load"}

\* Where a run is entitled to empty the pilot, and what entitles it: each
\* organisation's manifest is there.
Entitled == {"indexes", "teardown", "tearing"}
Proved == \A o \in Orgs : files[run.set][o] # "none"

\* A session of the current run is one of its phase's, launched when the run came
\* to the phase; it is at work only while the run waits for it, or died.
OwnSession(s) ==
    s.swap = run.n =>
        /\ s.set = run.set /\ s.orgs \in Wanted(s.phase) /\ pc \notin Before(s.phase)
        /\ s.phase = "seqfix" => run.parallel
        /\ s.rc = "running" => pc \in {WaitFor(s.phase), "down", "failed"}
        /\ s.rc = "running" /\ s.phase = "td" => Proved

\* The run has one session for each wanted list of organisations, and none is at
\* work once a later phase has begun.
OnePerOrgs ==
    \A s, z \in sessions :
        s.swap = run.n /\ z.swap = run.n /\ s.phase = z.phase /\ s.orgs = z.orgs => s = z
LatestAtWork ==
    \A s, z \in sessions :
        s.swap = run.n /\ z.swap = run.n /\ s.rc = "running" => ~Later(z.phase, s.phase)

PhaseInv ==
    /\ pc \in Entitled => Proved
    /\ pc \in {"seqfix", "fixing"} => run.parallel
    /\ \A s \in sessions : OwnSession(s)
    /\ OnePerOrgs /\ LatestAtWork

\* What is in a phase's scripts.
Ops(phase) ==
    CASE phase = "td" -> {"delete"}
      [] phase = "seqfix" -> {"raise"}
      [] OTHER -> IF run.parallel THEN {"copy"} ELSE {"copy", "setval", "raise"}

\* A session that is to leave the id sequences right: the one of a sequential load,
\* or the one after a parallel load.
Sequencer(s) == s.phase = "seqfix" \/ (s.phase = "load" /\ ~run.parallel)

RaiseIn(todo, t) == \E i \in DOMAIN todo : todo[i].op = "raise" /\ todo[i].table = t

\* Each copy is followed by a raise of its table's sequence.
CopiesThenRaises(todo) ==
    \A i \in DOMAIN todo : todo[i].op = "copy" =>
        \E j \in DOMAIN todo : j > i /\ todo[j].op = "raise" /\ todo[j].table = todo[i].table

Covers(t) == lastValue[t] >= Highest(t)

\* A session runs its phase's statements; the MAX(id) that it has read is still the
\* highest; a sequence that does not cover its table is still to be raised.
OnlyItsOps(s) == \A i \in DOMAIN s.todo : s.todo[i].op \in Ops(s.phase)
ReadIsHighest(s) ==
    s.rc = "running" /\ s.seen # Unread =>
        /\ Head(s.todo).op \in {"setval", "raise"}
        /\ s.seen = Highest(Head(s.todo).table)
WillCover(s) ==
    Sequencer(s) =>
        /\ CopiesThenRaises(s.todo)
        /\ s.rc # "failed" => \A t \in TableSet : Covers(t) \/ RaiseIn(s.todo, t)
SequencerInv(s) == OnlyItsOps(s) /\ ReadIsHighest(s) /\ WillCover(s)

\* A run that began while nothing was at work has the database to itself.
SequenceInv ==
    ~run.overlapped =>
        /\ \A s \in sessions : s.swap = run.n /\ SequencerInv(s)
        /\ pc \in {"finish", "done"} => \A t \in TableSet : Covers(t)

CopyIn(todo, o, t) == [op |-> "copy", org |-> o, table |-> t] \in {todo[i] : i \in DOMAIN todo}

Emptied(o) == \A t \in TableSet : rows[o][t] = {}

\* A teardown that ended well has emptied its organisations; a load that goes well
\* has each of its tables loaded, or still to be copied.
TeardownInv(s) ==
    s.phase = "td" /\ s.rc = "ok" => \A i \in DOMAIN s.orgs : Emptied(s.orgs[i])
LoadInv(s) ==
    s.phase = "load" /\ s.rc # "failed" =>
        \A i \in DOMAIN s.orgs, t \in TableSet :
            rows[s.orgs[i]][t] = {run.set} \/ CopyIn(s.todo, s.orgs[i], t)

\* Where the pilot is empty, where it holds nothing but the dataset, and where it
\* holds all of it.
ContentInv ==
    /\ pc \in {"load", "loading", "seqfix", "fixing", "finish", "done"} => ~scaffolding
    /\ pc \in Active \ {"fetch"} /\ ~run.torn => \A o \in Orgs : files[run.set][o] = "whole"
    /\ ~run.overlapped /\ ~run.lost =>
          /\ pc = "tearing" => \A s \in sessions : TeardownInv(s)
          /\ pc \in {"count", "vacuum", "load"} => \A o \in Orgs : Emptied(o)
          /\ pc = "loading" => \A o \in Orgs, t \in TableSet : rows[o][t] \subseteq {run.set}
          /\ pc = "loading" /\ ~run.torn => \A s \in sessions : LoadInv(s)
          /\ pc \in {"seqfix", "fixing", "finish", "done"} /\ ~run.torn => Loaded

-----------------------------------------------------------------------------
(* Sequences, finite sets and what the constants are.                       *)

\* Induction, in the form of a set that holds 0 and is closed under successor.
LEMMA NatSetInduction ==
  ASSUME NEW A, A \subseteq Nat, 0 \in A, \A k \in A : k + 1 \in A
  PROVE  A = Nat
  <1> DEFINE T == Nat \ A
  <1>1. SUFFICES ASSUME T # {} PROVE FALSE
    OBVIOUS
  <1>2. PICK x \in T : \A y \in T : ~(<<y, x>> \in OpToRel(<, Nat))
    BY <1>1, NatLessThanWellFounded, WFMin
  <1>3. \A y \in T : ~(y < x)
    BY <1>2 DEF OpToRel
  <1>4. x \in Nat /\ x # 0 /\ x - 1 \in Nat /\ x - 1 < x
    OBVIOUS
  <1>5. x - 1 \in A
    BY <1>3, <1>4
  <1> QED
    BY <1>4, <1>5

\* A finite set of numbers with something in it has a greatest one.
LEMMA GreatestExists ==
  ASSUME NEW S, S \subseteq Nat, S # {}, IsFiniteSet(S)
  PROVE  \E m \in S : \A x \in S : x <= m
  <1> DEFINE n == Cardinality(S)
  <1>1. n \in Nat /\ ExistsBijection(1..n, S)
    BY FS_CardinalityType
  <1>2. PICK f \in Bijection(1..n, S) : TRUE
    BY <1>1 DEF ExistsBijection
  <1>3. f \in [1..n -> S] /\ \A x \in S : \E i \in 1..n : f[i] = x
    BY <1>2 DEF Bijection, Surjection
  <1> HIDE DEF n
  <1>f. n \in Nat /\ \A i \in 1..n : f[i] \in Nat
    BY <1>1, <1>3
  <1> DEFINE A == {k \in Nat : k >= 1 /\ k <= n => \E m \in 1..k : \A i \in 1..k : f[i] <= f[m]}
  <1>4. 0 \in A
    OBVIOUS
  <1>5. ASSUME NEW k \in A PROVE k + 1 \in A
    <2>0. k \in Nat
      BY <1>5
    <2>1. CASE k = 0
      <3>1. n >= 1 => f[1] \in Nat
        BY <1>f
      <3> QED
        BY <1>f, <2>1, <3>1
    <2>2. CASE k + 1 > n
      BY <1>1, <2>0, <2>2
    <2>3. CASE k # 0 /\ k + 1 <= n
      <3>1. PICK m \in 1..k : \A i \in 1..k : f[i] <= f[m]
        BY <1>1, <1>5, <2>3
      <3>2. f[m] \in Nat /\ f[k + 1] \in Nat /\ \A i \in 1..k : f[i] \in Nat
        BY <1>f, <2>0, <2>3
      <3>3. CASE f[k + 1] <= f[m]
        <4>1. m \in 1..(k + 1) /\ \A i \in 1..(k + 1) : f[i] <= f[m]
          BY <2>0, <3>1, <3>3
        <4> QED
          BY <2>0, <4>1
      <3>4. CASE f[m] <= f[k + 1]
        <4>1. k + 1 \in 1..(k + 1) /\ \A i \in 1..(k + 1) : f[i] <= f[k + 1]
          BY <2>0, <3>1, <3>2, <3>4
        <4> QED
          BY <2>0, <4>1
      <3>5. f[k + 1] <= f[m] \/ f[m] <= f[k + 1]
        BY <3>2
      <3> QED
        BY <3>3, <3>4, <3>5
    <2> QED
      BY <1>1, <2>0, <2>1, <2>2, <2>3
  <1>6. A = Nat
    <2> HIDE DEF A
    <2>1. A \subseteq Nat
      BY DEF A
    <2> QED
      BY <1>4, <1>5, <2>1, NatSetInduction
  <1>7. n >= 1
    <2>1. PICK x \in S : TRUE
      OBVIOUS
    <2>2. PICK i \in 1..n : f[i] = x
      BY <1>3, <2>1
    <2> QED
      BY <1>1, <2>2
  <1>8. PICK m \in 1..n : \A i \in 1..n : f[i] <= f[m]
    <2>1. n \in A
      BY <1>f, <1>6
    <2> QED
      BY <1>7, <2>1
  <1> QED
    BY <1>3, <1>8

\* There are organisations and tables, in order, and a table to count.
LEMMA PilotPlaces ==
  /\ Len(Pilot) \in Nat \ {0} /\ DOMAIN Pilot = 1..Len(Pilot)
  /\ Pilot \in [1..Len(Pilot) -> Orgs]
  /\ Len(Tables) \in Nat \ {0} /\ DOMAIN Tables = 1..Len(Tables)
  /\ Tables \in [1..Len(Tables) -> TableSet]
  /\ TableSet # {}
  <1>1. Pilot \in Seq(Orgs) /\ Pilot # <<>> /\ Tables \in Seq(TableSet)
    BY PilotAssumption DEF PilotAssumption
  <1>2. TableSet # {}
    BY PilotAssumption DEF PilotAssumption
  <1>3. Len(Tables) # 0
    BY <1>1, <1>2, LenProperties DEF TableSet
  <1> QED
    BY <1>1, <1>2, <1>3, LenProperties, EmptySeq

\* The pilot is a sequence, so its organisations are finitely many.
LEMMA OrgsAreFinite == IsFiniteSet(Orgs)
  <1>1. IsFiniteSet(1..Len(Pilot))
    BY PilotPlaces, FS_Interval
  <1>2. Pilot \in Surjection(1..Len(Pilot), Orgs)
    BY PilotPlaces DEF Surjection, Orgs
  <1> QED
    BY <1>1, <1>2, FS_Surjection

\* The highest id of a table is a number no id in it exceeds.
LEMMA HighestIsHighest ==
  ASSUME rows \in [Orgs -> [TableSet -> SUBSET Datasets]], NEW t \in TableSet
  PROVE  /\ Highest(t) \in Nat
         /\ \A o \in Orgs : \A d \in rows[o][t] : Top[d][o] <= Highest(t)
  <1> DEFINE held == {0} \cup UNION {{Top[d][o] : d \in rows[o][t]} : o \in Orgs}
             id(p) == Top[p[1]][p[2]]
             ids == {id(p) : p \in Datasets \X Orgs}
  <1>0. Top \in [Datasets -> [Orgs -> Nat]] /\ IsFiniteSet(Datasets)
    BY PilotAssumption DEF PilotAssumption
  <1>1. IsFiniteSet(ids)
    <2>1. IsFiniteSet(Datasets \X Orgs)
      BY <1>0, OrgsAreFinite, FS_Product
    <2>2. [p \in Datasets \X Orgs |-> id(p)] \in Surjection(Datasets \X Orgs, ids)
      BY DEF Surjection
    <2> QED
      BY <2>1, <2>2, FS_Surjection
  <1>2. held \subseteq ids \cup {0} /\ held \subseteq Nat /\ held # {}
    <2>1. ASSUME NEW o \in Orgs, NEW d \in rows[o][t]
          PROVE  Top[d][o] \in ids /\ Top[d][o] \in Nat
      <3>1. d \in Datasets
        OBVIOUS
      <3>2. <<d, o>> \in Datasets \X Orgs /\ id(<<d, o>>) = Top[d][o]
        BY <3>1
      <3> QED
        BY <1>0, <3>1, <3>2
    <2> HIDE DEF ids
    <2> QED
      BY <2>1
  <1>3. IsFiniteSet(held)
    <2>1. IsFiniteSet(ids \cup {0})
      BY <1>1, FS_AddElement
    <2> HIDE DEF ids, held
    <2> QED
      BY <1>2, <2>1, FS_Subset
  <1>4. \E m \in held : \A x \in held : x <= m
    <2> HIDE DEF held
    <2> QED
      BY <1>2, <1>3, GreatestExists
  <1>5. Highest(t) \in held /\ \A x \in held : x <= Highest(t)
    <2>1. Highest(t) = CHOOSE m \in held : \A x \in held : x <= m
      BY DEF Highest
    <2> HIDE DEF held
    <2> QED
      BY <1>4, <2>1
  <1>6. \A o \in Orgs : \A d \in rows[o][t] : Top[d][o] \in held
    OBVIOUS
  <1> QED
    BY <1>2, <1>5, <1>6

-----------------------------------------------------------------------------
(* What is in the scripts.                                                  *)

\* A tenant's lines of one kind: one for each table.
LEMMA LinesOf ==
  ASSUME NEW op \in {"copy", "setval", "raise"}, NEW org \in Orgs
  PROVE  /\ Lines(op, org) \in Seq(Line) /\ Len(Lines(op, org)) = Len(Tables)
         /\ DOMAIN Lines(op, org) = 1..Len(Tables)
         /\ \A i \in 1..Len(Tables) :
               Lines(op, org)[i] = [op |-> op, org |-> org, table |-> Tables[i]]
  BY PilotPlaces DEF Lines, Line

\* Every table has a place in LOAD_ORDER.
LEMMA PlaceOf ==
  ASSUME NEW t \in TableSet
  PROVE  \E i \in 1..Len(Tables) : Tables[i] = t
  BY PilotPlaces DEF TableSet

\* Two scripts one after the other, by place.
IsJoin(c, a, b, m, n) ==
    /\ m \in Nat /\ n \in Nat /\ DOMAIN a = 1..m /\ DOMAIN b = 1..n
    /\ c \in Seq(Line) /\ Len(c) = m + n /\ DOMAIN c = 1..(m + n)
    /\ \A i \in 1..m : i \in 1..(m + n) /\ c[i] = a[i]
    /\ \A i \in 1..n : \E k \in 1..(m + n) : k = i + m /\ c[k] = b[i]
    /\ \A k \in 1..(m + n) : k \in 1..m \/ \E i \in 1..n : k = i + m /\ c[k] = b[i]

\* A script and the next one, joined place by place.
LEMMA Joined ==
  ASSUME NEW a \in Seq(Line), NEW b \in Seq(Line)
  PROVE  IsJoin(a \o b, a, b, Len(a), Len(b))
  <1>0. PICK m \in Nat, n \in Nat : Len(a) = m /\ Len(b) = n
    BY LenProperties
  <1>1. /\ DOMAIN a = 1..m /\ DOMAIN b = 1..n
        /\ a \o b \in Seq(Line) /\ Len(a \o b) = m + n
        /\ \A i \in 1..(m + n) : (a \o b)[i] = IF i <= m THEN a[i] ELSE b[i - m]
    BY <1>0, ConcatProperties, LenProperties
  <1>2. DOMAIN (a \o b) = 1..(m + n)
    BY <1>1, LenProperties
  <1>3. PICK c : c = a \o b
    OBVIOUS
  <1>4. \A i \in 1..m : i \in 1..(m + n) /\ c[i] = a[i]
    BY <1>1, <1>3
  <1>5. \A i \in 1..n : \E k \in 1..(m + n) : k = i + m /\ c[k] = b[i]
    <2> SUFFICES ASSUME NEW i \in 1..n
                 PROVE  \E k \in 1..(m + n) : k = i + m /\ c[k] = b[i]
      OBVIOUS
    <2>1. PICK k \in 1..(m + n) : k = i + m /\ ~(k <= m) /\ k - m = i
      OBVIOUS
    <2> QED
      BY <1>1, <1>3, <2>1
  <1>6. \A k \in 1..(m + n) : k \in 1..m \/ \E i \in 1..n : k = i + m /\ c[k] = b[i]
    <2> SUFFICES ASSUME NEW k \in 1..(m + n), k \notin 1..m
                 PROVE  \E i \in 1..n : k = i + m /\ c[k] = b[i]
      OBVIOUS
    <2>1. PICK i \in 1..n : k = i + m /\ ~(k <= m) /\ k - m = i
      OBVIOUS
    <2> QED
      BY <1>1, <1>3, <2>1
  <1>7. IsJoin(c, a, b, m, n)
    BY <1>1, <1>2, <1>3, <1>4, <1>5, <1>6 DEF IsJoin
  <1> QED
    BY <1>0, <1>3, <1>7

\* One tenant's load.sql copies every table and raises every sequence after it.
LEMMA LoadFileIs ==
  ASSUME NEW org \in Orgs
  PROVE  /\ LoadFile(org) \in Seq(Line) /\ CopiesThenRaises(LoadFile(org))
         /\ \A t \in TableSet : CopyIn(LoadFile(org), org, t) /\ RaiseIn(LoadFile(org), t)
  <1> DEFINE D == Lines("copy", org) \o Lines("setval", org)
             R == Lines("raise", org)
  <1>0. PICK n \in Nat : n = Len(Tables)
    BY PilotPlaces
  <1>p. PICK p \in Nat : p = n + n
    OBVIOUS
  <1>1. /\ D \in Seq(Line) /\ Len(D) = p
        /\ \A i \in 1..n : i \in 1..p /\ D[i] = [op |-> "copy", org |-> org, table |-> Tables[i]]
        /\ \A i \in 1..p : i \in 1..n \/ D[i].op = "setval"
    <2> DEFINE C == Lines("copy", org)
               S == Lines("setval", org)
    <2>1. /\ C \in Seq(Line) /\ Len(C) = n /\ S \in Seq(Line) /\ Len(S) = n
          /\ \A i \in 1..n : C[i] = [op |-> "copy", org |-> org, table |-> Tables[i]]
          /\ \A i \in 1..n : S[i] = [op |-> "setval", org |-> org, table |-> Tables[i]]
      BY <1>0, LinesOf
    <2>2. D = C \o S
      OBVIOUS
    <2> HIDE DEF C, S, D
    <2>3. IsJoin(D, C, S, n, n)
      BY <2>1, <2>2, Joined
    <2> QED
      BY <1>p, <2>1, <2>3 DEF IsJoin
  <1>2. /\ R \in Seq(Line) /\ Len(R) = n
        /\ \A i \in 1..n : R[i] = [op |-> "raise", org |-> org, table |-> Tables[i]]
    BY <1>0, LinesOf
  <1>3. PICK L : L = LoadFile(org) /\ L = D \o R
    BY DEF LoadFile
  <1> HIDE DEF D, R
  <1>4. IsJoin(L, D, R, p, n)
    BY <1>1, <1>2, <1>3, Joined
  <1>5. \A i \in 1..n : /\ i \in DOMAIN L
                        /\ L[i] = [op |-> "copy", org |-> org, table |-> Tables[i]]
    BY <1>1, <1>4 DEF IsJoin
  <1>6. \A i \in 1..n : \E k \in DOMAIN L :
           k = i + p /\ L[k] = [op |-> "raise", org |-> org, table |-> Tables[i]]
    BY <1>2, <1>4 DEF IsJoin
  <1>7. \A k \in DOMAIN L : L[k].op = "copy" => k \in 1..n
    <2> SUFFICES ASSUME NEW k \in 1..(p + n), k \notin 1..n
                 PROVE  L[k].op # "copy"
      BY <1>4 DEF IsJoin
    <2>1. CASE k \in 1..p
      BY <1>1, <1>4, <2>1 DEF IsJoin
    <2>2. CASE k \notin 1..p
      <3>1. PICK i \in 1..n : L[k] = R[i]
        BY <1>4, <2>2 DEF IsJoin
      <3> QED
        BY <1>2, <3>1
    <2> QED
      BY <2>1, <2>2
  <1>8. CopiesThenRaises(L)
    <2> SUFFICES ASSUME NEW i \in DOMAIN L, L[i].op = "copy"
                 PROVE  \E j \in DOMAIN L :
                           j > i /\ L[j].op = "raise" /\ L[j].table = L[i].table
      BY DEF CopiesThenRaises
    <2>1. i \in 1..n
      BY <1>7
    <2>2. PICK k \in DOMAIN L :
             k = i + p /\ L[k] = [op |-> "raise", org |-> org, table |-> Tables[i]]
      BY <1>6, <2>1
    <2>3. k > i
      BY <1>p, <2>1, <2>2
    <2>4. L[k].op = "raise" /\ L[k].table = L[i].table
      <3>1. L[i].table = Tables[i]
        <4>1. L[i] = [op |-> "copy", org |-> org, table |-> Tables[i]]
          BY <1>5, <2>1
        <4> QED
          BY <4>1
      <3>2. L[k].op = "raise" /\ L[k].table = Tables[i]
        BY <2>2
      <3> QED
        BY <3>1, <3>2
    <2> QED
      BY <2>3, <2>4
  <1>9. ASSUME NEW t \in TableSet PROVE CopyIn(L, org, t) /\ RaiseIn(L, t)
    <2>1. PICK i \in 1..n : Tables[i] = t
      BY <1>0, PlaceOf
    <2>2. CopyIn(L, org, t)
      BY <1>5, <2>1 DEF CopyIn
    <2>3. RaiseIn(L, t)
      BY <1>6, <2>1 DEF RaiseIn
    <2> QED
      BY <2>2, <2>3
  <1> QED
    BY <1>3, <1>4, <1>8, <1>9 DEF IsJoin

\* What holds of a script holds with more statements before it or after it.
LEMMA Together ==
  ASSUME NEW a \in Seq(Line), NEW b \in Seq(Line),
         CopiesThenRaises(a), CopiesThenRaises(b)
  PROVE  /\ a \o b \in Seq(Line) /\ CopiesThenRaises(a \o b)
         /\ \A o, t : CopyIn(a, o, t) \/ CopyIn(b, o, t) => CopyIn(a \o b, o, t)
         /\ \A t : RaiseIn(a, t) \/ RaiseIn(b, t) => RaiseIn(a \o b, t)
  <1>0. PICK m \in Nat, n \in Nat : Len(a) = m /\ Len(b) = n
    BY LenProperties
  <1>c. PICK c : c = a \o b
    OBVIOUS
  <1>1. /\ DOMAIN a = 1..m /\ DOMAIN b = 1..n
        /\ c \in Seq(Line) /\ DOMAIN c = 1..(m + n)
        /\ \A i \in 1..m : i \in 1..(m + n) /\ c[i] = a[i]
        /\ \A i \in 1..n : \E k \in 1..(m + n) : k = i + m /\ c[k] = b[i]
        /\ \A k \in 1..(m + n) : k \in 1..m \/ \E i \in 1..n : k = i + m /\ c[k] = b[i]
    <2>1. IsJoin(c, a, b, m, n)
      BY <1>0, <1>c, Joined
    <2> QED
      BY <2>1 DEF IsJoin
  <1>5. CopiesThenRaises(c)
    <2> SUFFICES ASSUME NEW i \in DOMAIN c, c[i].op = "copy"
                 PROVE  \E j \in DOMAIN c :
                           j > i /\ c[j].op = "raise" /\ c[j].table = c[i].table
      BY DEF CopiesThenRaises
    <2>1. CASE i \in 1..m
      <3>1. i \in DOMAIN a /\ c[i] = a[i]
        BY <1>1, <2>1
      <3>2. PICK j \in DOMAIN a : j > i /\ a[j].op = "raise" /\ a[j].table = a[i].table
        BY <3>1 DEF CopiesThenRaises
      <3>3. j \in DOMAIN c /\ c[j] = a[j]
        BY <1>1, <3>2
      <3> QED
        BY <3>1, <3>2, <3>3
    <2>2. CASE i \notin 1..m
      <3>1. PICK x \in 1..n : i = x + m /\ c[i] = b[x]
        BY <1>1, <2>2
      <3>2. PICK j \in DOMAIN b : j > x /\ b[j].op = "raise" /\ b[j].table = b[x].table
        BY <1>1, <3>1 DEF CopiesThenRaises
      <3>3. PICK k \in 1..(m + n) : k = j + m /\ c[k] = b[j]
        BY <1>1
      <3>4. k > i /\ k \in DOMAIN c
        BY <1>1, <3>1, <3>2, <3>3
      <3> QED
        BY <3>1, <3>2, <3>3, <3>4
    <2> QED
      BY <2>1, <2>2
  <1>6. \A o, t : CopyIn(a, o, t) \/ CopyIn(b, o, t) => CopyIn(c, o, t)
    <2> SUFFICES ASSUME NEW o, NEW t, CopyIn(a, o, t) \/ CopyIn(b, o, t)
                 PROVE  \E k \in DOMAIN c : c[k] = [op |-> "copy", org |-> o, table |-> t]
      BY DEF CopyIn
    <2>1. CASE CopyIn(a, o, t)
      BY <1>1, <2>1 DEF CopyIn
    <2>2. CASE CopyIn(b, o, t)
      <3>1. PICK x \in 1..n : b[x] = [op |-> "copy", org |-> o, table |-> t]
        BY <1>1, <2>2 DEF CopyIn
      <3>2. PICK k \in 1..(m + n) : c[k] = b[x]
        BY <1>1
      <3> QED
        BY <1>1, <3>1, <3>2
    <2> QED
      BY <2>1, <2>2
  <1>7. \A t : RaiseIn(a, t) \/ RaiseIn(b, t) => RaiseIn(c, t)
    <2> SUFFICES ASSUME NEW t, RaiseIn(a, t) \/ RaiseIn(b, t)
                 PROVE  RaiseIn(c, t)
      OBVIOUS
    <2>1. CASE RaiseIn(a, t)
      BY <1>1, <2>1 DEF RaiseIn
    <2>2. CASE RaiseIn(b, t)
      <3>1. PICK x \in 1..n : b[x].op = "raise" /\ b[x].table = t
        BY <1>1, <2>2 DEF RaiseIn
      <3>2. PICK k \in 1..(m + n) : c[k] = b[x]
        BY <1>1
      <3> QED
        BY <1>1, <3>1, <3>2 DEF RaiseIn
    <2> QED
      BY <2>1, <2>2
  <1> QED
    BY <1>c, <1>1, <1>5, <1>6, <1>7

\* Tenant after tenant, a sequential session copies every organisation's tables and
\* raises every sequence after them.
LEMMA EveryFileIs ==
  ASSUME NEW orgs \in Seq(Orgs), orgs # <<>>
  PROVE  /\ EveryFile(orgs) \in Seq(Line) /\ CopiesThenRaises(EveryFile(orgs))
         /\ \A i \in DOMAIN orgs, t \in TableSet : CopyIn(EveryFile(orgs), orgs[i], t)
         /\ \A t \in TableSet : RaiseIn(EveryFile(orgs), t)
  <1> DEFINE Next1(g) == [k \in 0..Len(orgs) |->
                            IF k = 0 THEN <<>> ELSE g[k - 1] \o LoadFile(orgs[k])]
             upTo == CHOOSE g : g = Next1(g)
  <1>0. PICK n \in Nat \ {0} : n = Len(orgs) /\ DOMAIN orgs = 1..n
    BY EmptySeq, LenProperties
  <1>1. EveryFile(orgs) = upTo[Len(orgs)]
    BY DEF EveryFile
  <1>2. \A k \in 1..n : orgs[k] \in Orgs
    BY <1>0, ElementOfSeq
  <1>3. \A k \in 1..n : LoadFile(orgs[k]) \in Seq(Line)
    BY <1>2, LoadFileIs
  <1> DEFINE Prefix(g, k) ==
                 /\ g \in [0..k -> Seq(Line)] /\ g[0] = <<>>
                 /\ \A i \in 1..k : g[i] = g[i - 1] \o LoadFile(orgs[i])
             P(k) == k <= n => \E g : Prefix(g, k)
  <1>4. P(0)
    <2>1. <<>> \in Seq(Line)
      BY EmptySeq
    <2>2. Prefix([i \in 0..0 |-> <<>>], 0)
      BY <2>1
    <2> QED
      BY <2>2
  <1>5. ASSUME NEW k \in Nat, P(k) PROVE P(k + 1)
    <2> SUFFICES ASSUME k + 1 <= n PROVE \E g : Prefix(g, k + 1)
      OBVIOUS
    <2>1. k <= n
      BY <1>0
    <2>2. PICK g : Prefix(g, k)
      BY <1>5, <2>1
    <2>3. PICK more \in Seq(Line) : more = g[k] \o LoadFile(orgs[k + 1])
      <3>1. g[k] \in Seq(Line) /\ LoadFile(orgs[k + 1]) \in Seq(Line)
        BY <1>3, <2>2
      <3> QED
        BY <3>1, ConcatProperties
    <2> DEFINE h == [i \in 0..(k + 1) |-> IF i = k + 1 THEN more ELSE g[i]]
    <2>4. h \in [0..(k + 1) -> Seq(Line)] /\ h[0] = <<>>
      BY <2>2, <2>3
    <2>5. \A i \in 1..(k + 1) : h[i] = h[i - 1] \o LoadFile(orgs[i])
      <3> SUFFICES ASSUME NEW i \in 1..(k + 1) PROVE h[i] = h[i - 1] \o LoadFile(orgs[i])
        OBVIOUS
      <3>1. CASE i = k + 1
        <4>1. h[i] = more /\ i - 1 = k /\ h[k] = g[k]
          BY <3>1
        <4> HIDE DEF h
        <4> QED
          BY <2>3, <3>1, <4>1
      <3>2. CASE i # k + 1
        <4>1. i \in 1..k /\ h[i] = g[i] /\ h[i - 1] = g[i - 1]
          BY <3>2
        <4> QED
          BY <2>2, <4>1
      <3> QED
        BY <3>1, <3>2
    <2> HIDE DEF h
    <2>6. Prefix(h, k + 1)
      BY <2>4, <2>5
    <2> HIDE DEF Prefix
    <2> QED
      BY <2>6
  <1>6. P(n)
    <2> DEFINE A == {k \in Nat : P(k)}
    <2> HIDE DEF P
    <2>1. A = Nat
      <3>1. A \subseteq Nat /\ 0 \in A /\ \A k \in A : k + 1 \in A
        BY <1>4, <1>5
      <3> HIDE DEF A
      <3> QED
        BY <3>1, NatSetInduction
    <2> QED
      BY <2>1
  <1>7. PICK f : Prefix(f, n)
    <2> HIDE DEF Prefix
    <2> QED
      BY <1>0, <1>6
  <1>8. f = Next1(f)
    BY <1>0, <1>7
  <1>9. upTo = Next1(upTo)
    <2> HIDE DEF Next1
    <2> QED
      BY <1>8
  <1> HIDE DEF upTo
  <1>10. /\ upTo[0] = <<>>
         /\ \A k \in 1..n : upTo[k] = upTo[k - 1] \o LoadFile(orgs[k])
    BY <1>0, <1>9
  <1> DEFINE Right(k) ==
                 /\ upTo[k] \in Seq(Line) /\ CopiesThenRaises(upTo[k])
                 /\ \A i \in 1..k, t \in TableSet : CopyIn(upTo[k], orgs[i], t)
                 /\ k > 0 => \A t \in TableSet : RaiseIn(upTo[k], t)
             Q(k) == k <= n => Right(k)
  <1>11. Q(0)
    <2>1. <<>> \in Seq(Line) /\ DOMAIN <<>> = {}
      BY EmptySeq
    <2>2. CopiesThenRaises(<<>>)
      BY <2>1 DEF CopiesThenRaises
    <2> QED
      BY <1>10, <2>1, <2>2
  <1>12. ASSUME NEW k \in Nat, Q(k) PROVE Q(k + 1)
    <2> SUFFICES ASSUME k + 1 <= n PROVE Right(k + 1)
      OBVIOUS
    <2>0. k <= n /\ k + 1 \in 1..n /\ (k + 1) - 1 = k
      BY <1>0
    <2>1. Right(k)
      BY <1>12, <2>0
    <2>2. PICK last \in Orgs : last = orgs[k + 1]
      BY <1>2, <2>0
    <2>3. PICK before \in Seq(Line) : before = upTo[k]
      BY <2>1
    <2>4. PICK file \in Seq(Line) : file = LoadFile(last)
      BY LoadFileIs
    <2>5. /\ CopiesThenRaises(before) /\ CopiesThenRaises(file)
          /\ \A t \in TableSet : CopyIn(file, last, t) /\ RaiseIn(file, t)
          /\ \A i \in 1..k, t \in TableSet : CopyIn(before, orgs[i], t)
      BY <2>1, <2>3, <2>4, LoadFileIs
    <2>6. upTo[k + 1] = before \o file
      <3>1. upTo[k + 1] = upTo[(k + 1) - 1] \o LoadFile(orgs[k + 1])
        BY <1>10, <2>0
      <3> QED
        BY <2>0, <2>2, <2>3, <2>4, <3>1
    <2>7. /\ upTo[k + 1] \in Seq(Line) /\ CopiesThenRaises(upTo[k + 1])
          /\ \A o, t : CopyIn(before, o, t) \/ CopyIn(file, o, t) => CopyIn(upTo[k + 1], o, t)
          /\ \A t : RaiseIn(before, t) \/ RaiseIn(file, t) => RaiseIn(upTo[k + 1], t)
      BY <2>5, <2>6, Together
    <2>8. \A i \in 1..(k + 1) : i \in 1..k \/ i = k + 1
      OBVIOUS
    <2>9. \A i \in 1..(k + 1), t \in TableSet : CopyIn(upTo[k + 1], orgs[i], t)
      BY <2>2, <2>5, <2>7, <2>8
    <2> QED
      BY <2>5, <2>7, <2>9
  <1>13. Q(n)
    <2> DEFINE B == {k \in Nat : Q(k)}
    <2> HIDE DEF Q
    <2>1. B = Nat
      <3>1. B \subseteq Nat /\ 0 \in B /\ \A k \in B : k + 1 \in B
        BY <1>11, <1>12
      <3> HIDE DEF B
      <3> QED
        BY <3>1, NatSetInduction
    <2> QED
      BY <2>1
  <1>14. Right(n)
    BY <1>0, <1>13
  <1> QED
    BY <1>0, <1>1, <1>14
-----------------------------------------------------------------------------
(* Types.                                                                   *)

\* What a session becomes: it has failed, has done a statement, has read MAX(id).
Failed(s) == [s EXCEPT !.rc = "failed"]
Advanced(s) == [s EXCEPT !.todo = Tail(@), !.seen = Unread,
                         !.rc = IF LastStatement(s) THEN "ok" ELSE @]
HasRead(s) == [s EXCEPT !.seen = Highest(Head(s.todo).table)]

\* What is left of a script after its first statement.
LEMMA RestOf ==
  ASSUME NEW todo \in Seq(Statement), todo # <<>>
  PROVE  /\ Head(todo) \in Statement /\ Head(todo) = todo[1] /\ 1 \in DOMAIN todo
         /\ Tail(todo) \in Seq(Statement)
         /\ Len(todo) = 1 <=> Tail(todo) = <<>>
         /\ \A i \in DOMAIN Tail(todo) : i + 1 \in DOMAIN todo /\ Tail(todo)[i] = todo[i + 1]
         /\ \A i \in DOMAIN todo : i = 1 \/ \E j \in DOMAIN Tail(todo) :
               i = j + 1 /\ Tail(todo)[j] = todo[i]
  <1>1. PICK n \in Nat \ {0} : n = Len(todo) /\ DOMAIN todo = 1..n
    BY EmptySeq, LenProperties
  <1>2. /\ Head(todo) \in Statement /\ Tail(todo) \in Seq(Statement)
        /\ Len(Tail(todo)) = n - 1 /\ Head(todo) = todo[1]
        /\ \A i \in 1..(n - 1) : Tail(todo)[i] = todo[i + 1]
    BY <1>1, HeadTailProperties, LenProperties
  <1>3. PICK rest \in Seq(Statement) : rest = Tail(todo)
    BY <1>2
  <1>4. /\ Len(rest) = n - 1 /\ DOMAIN rest = 1..(n - 1)
        /\ \A i \in 1..(n - 1) : i + 1 \in 1..n /\ rest[i] = todo[i + 1]
    BY <1>1, <1>2, <1>3, LenProperties
  <1>5. Len(todo) = 1 <=> rest = <<>>
    <2>1. rest = <<>> => Len(rest) = 0
      BY EmptySeq
    <2>2. rest # <<>> => Len(rest) # 0
      BY EmptySeq
    <2> QED
      BY <1>1, <1>4, <2>1, <2>2
  <1>6. ASSUME NEW i \in 1..n, i # 1
        PROVE  \E j \in 1..(n - 1) : i = j + 1 /\ rest[j] = todo[i]
    <2>1. PICK j \in 1..(n - 1) : i = j + 1
      BY <1>6
    <2> QED
      BY <1>4, <2>1
  <1>7. PICK first \in Statement : first = Head(todo)
    BY <1>2
  <1>8. first = todo[1] /\ 1 \in DOMAIN todo
    BY <1>1, <1>2, <1>7
  <1>9. /\ \A i \in DOMAIN rest : i + 1 \in DOMAIN todo /\ rest[i] = todo[i + 1]
        /\ \A i \in DOMAIN todo : i = 1 \/ \E j \in DOMAIN rest : i = j + 1 /\ rest[j] = todo[i]
    BY <1>1, <1>4, <1>6
  <1> QED
    BY <1>3, <1>5, <1>7, <1>8, <1>9

\* A session's step leaves it a session, of the same run, phase and organisations.
LEMMA SessionStays ==
  ASSUME SwapType, NEW s \in sessions, s.rc = "running"
  PROVE  /\ s \in Session /\ s.todo \in Seq(Statement) /\ s.todo # <<>>
         /\ SessionType(Failed(s)) /\ SessionType(Advanced(s))
         /\ Head(s.todo).op # "delete" => Head(s.todo) \in Line /\ SessionType(HasRead(s))
         /\ Advanced(s).todo = Tail(s.todo) /\ Advanced(s).seen = Unread
         /\ Advanced(s).rc \in {"running", "ok"}
         /\ Failed(s).todo = s.todo /\ Failed(s).rc = "failed"
         /\ HasRead(s).todo = s.todo /\ HasRead(s).rc = "running"
         /\ HasRead(s).seen = Highest(Head(s.todo).table)
         /\ \A next \in {Failed(s), Advanced(s), HasRead(s)} :
               /\ next.swap = s.swap /\ next.phase = s.phase
               /\ next.orgs = s.orgs /\ next.set = s.set
  <1>1. /\ s \in Session /\ s.todo \in Seq(Statement) /\ s.todo # <<>>
        /\ s.swap <= run.n
    BY DEF SwapType, SessionType, Session
  <1>2. SessionType(Failed(s)) /\ Failed(s).todo = s.todo /\ Failed(s).rc = "failed"
    BY <1>1 DEF SessionType, Session, Failed
  <1>3. /\ Head(s.todo) \in Statement /\ Tail(s.todo) \in Seq(Statement)
        /\ Len(s.todo) = 1 <=> Tail(s.todo) = <<>>
    BY <1>1, RestOf
  <1>4. /\ SessionType(Advanced(s)) /\ Advanced(s).todo = Tail(s.todo)
        /\ Advanced(s).seen = Unread /\ Advanced(s).rc \in {"running", "ok"}
    BY <1>1, <1>3 DEF SessionType, Session, Advanced, LastStatement
  <1>5. Head(s.todo).op # "delete" => Head(s.todo) \in Line
    BY <1>3 DEF Statement
  <1>6. ASSUME Head(s.todo).op # "delete" PROVE SessionType(HasRead(s))
    <2>1. Head(s.todo).table \in TableSet
      BY <1>5, <1>6 DEF Line
    <2>2. Highest(Head(s.todo).table) \in Nat
      BY <2>1, HighestIsHighest DEF SwapType
    <2> QED
      BY <1>1, <2>2 DEF SessionType, Session, HasRead
  <1>7. /\ HasRead(s).todo = s.todo /\ HasRead(s).rc = "running"
        /\ HasRead(s).seen = Highest(Head(s.todo).table)
    BY <1>1 DEF Session, HasRead
  <1>8. \A next \in {Failed(s), Advanced(s), HasRead(s)} :
               /\ next.swap = s.swap /\ next.phase = s.phase
               /\ next.orgs = s.orgs /\ next.set = s.set
    <2>1. DOMAIN s = {"swap", "phase", "orgs", "set", "todo", "seen", "rc"}
      BY <1>1 DEF Session
    <2>2. /\ Failed(s).swap = s.swap /\ Failed(s).phase = s.phase
          /\ Failed(s).orgs = s.orgs /\ Failed(s).set = s.set
      BY <2>1 DEF Failed
    <2>3. /\ Advanced(s).swap = s.swap /\ Advanced(s).phase = s.phase
          /\ Advanced(s).orgs = s.orgs /\ Advanced(s).set = s.set
      BY <2>1 DEF Advanced
    <2>4. /\ HasRead(s).swap = s.swap /\ HasRead(s).phase = s.phase
          /\ HasRead(s).orgs = s.orgs /\ HasRead(s).set = s.set
      BY <2>1 DEF HasRead
    <2> QED
      BY <2>2, <2>3, <2>4
  <1> QED
    BY <1>1, <1>2, <1>4, <1>5, <1>6, <1>7, <1>8

\* A phase has sessions for lists of the pilot's organisations, and between them
\* they have all of it.
LEMMA WantedIs ==
  ASSUME NEW phase
  PROVE  /\ \A w \in Wanted(phase) : w \in Seq(Orgs) /\ w # <<>> /\ 1 \in DOMAIN w /\ w[1] \in Orgs
         /\ \A o \in Orgs : \E w \in Wanted(phase) : \E i \in DOMAIN w : w[i] = o
         /\ run.parallel /\ phase # "seqfix" => \A w \in Wanted(phase) : \E o \in Orgs : w = <<o>>
         /\ ~run.parallel \/ phase = "seqfix" => Wanted(phase) = {Pilot}
  <1>1. Pilot \in Seq(Orgs) /\ Pilot # <<>> /\ 1 \in DOMAIN Pilot /\ Pilot[1] \in Orgs
    BY PilotPlaces, PilotAssumption DEF PilotAssumption
  <1>2. \A o \in Orgs : \E i \in DOMAIN Pilot : Pilot[i] = o
    BY DEF Orgs
  <1>3. \A o \in Orgs : <<o>> \in Seq(Orgs) /\ <<o>> # <<>> /\ 1 \in DOMAIN <<o>> /\ <<o>>[1] = o
    OBVIOUS
  <1>4. CASE run.parallel /\ phase # "seqfix"
    <2>1. Wanted(phase) = {<<o>> : o \in Orgs}
      BY <1>4 DEF Wanted
    <2>2. \A w \in Wanted(phase) : \E o \in Orgs : w = <<o>>
      BY <2>1
    <2>3. \A w \in Wanted(phase) : w \in Seq(Orgs) /\ w # <<>> /\ 1 \in DOMAIN w /\ w[1] \in Orgs
      BY <1>3, <2>2
    <2>4. ASSUME NEW o \in Orgs PROVE \E w \in Wanted(phase) : \E i \in DOMAIN w : w[i] = o
      <3>1. <<o>> \in Wanted(phase) /\ 1 \in DOMAIN <<o>> /\ <<o>>[1] = o
        BY <1>3, <2>1
      <3> QED
        BY <3>1, Zenon
    <2> QED
      BY <1>4, <2>2, <2>3, <2>4
  <1>5. CASE ~(run.parallel /\ phase # "seqfix")
    <2>1. Wanted(phase) = {Pilot}
      BY <1>5 DEF Wanted
    <2> QED
      BY <1>1, <1>2, <1>5, <2>1, Zenon
  <1> QED
    BY <1>4, <1>5

\* What a phase runs is a sequence of SQL statements; a teardown has one to run.
LEMMA ScriptIs ==
  ASSUME SwapType, NEW phase \in SessionPhases, NEW w \in Wanted(phase)
  PROVE  /\ Script(phase, w) \in Seq(Statement)
         /\ \A i \in DOMAIN Script(phase, w) : Script(phase, w)[i].op \in Ops(phase)
         /\ phase = "td" => Script(phase, w) # <<>>
         /\ phase = "seqfix" \/ (phase = "load" /\ ~run.parallel) =>
               /\ CopiesThenRaises(Script(phase, w))
               /\ \A t \in TableSet : RaiseIn(Script(phase, w), t)
         /\ phase = "load" /\ (\A o \in Orgs : files[run.set][o] = "whole") =>
               \A i \in DOMAIN w, t \in TableSet : CopyIn(Script(phase, w), w[i], t)
  <1>0. /\ Line \subseteq Statement /\ <<>> \in Seq(Statement) /\ DOMAIN <<>> = {}
        /\ Seq(Line) \subseteq Seq(Statement)
    BY SeqMonotonic DEF Statement
  <1>1. w \in Seq(Orgs) /\ w # <<>> /\ w[1] \in Orgs
    BY WantedIs
  <1>2. CASE phase = "td"
    <2>1. Script(phase, w) = <<[op |-> "delete"]>> /\ [op |-> "delete"] \in Statement
      BY <1>2 DEF Script, Statement
    <2>2. Script(phase, w) \in Seq(Statement) /\ Script(phase, w) # <<>>
      BY <2>1
    <2>3. \A i \in DOMAIN Script(phase, w) : Script(phase, w)[i].op = "delete"
      BY <2>1
    <2> QED
      BY <1>2, <2>2, <2>3 DEF Ops
  <1>3. CASE phase = "seqfix"
    <2>1. PICK c \in Seq(Line) : c = Script(phase, w) /\ c = Lines("raise", w[1])
      BY <1>1, <1>3, LinesOf DEF Script
    <2>2. /\ DOMAIN c = 1..Len(Tables)
          /\ \A i \in 1..Len(Tables) : c[i] = [op |-> "raise", org |-> w[1], table |-> Tables[i]]
      BY <1>1, <2>1, LinesOf
    <2>3. \A i \in DOMAIN c : c[i].op = "raise" /\ c[i].table = Tables[i]
      BY <2>2
    <2>4. CopiesThenRaises(c) /\ \A t \in TableSet : RaiseIn(c, t)
      BY <2>2, <2>3, PlaceOf DEF CopiesThenRaises, RaiseIn
    <2> QED
      BY <1>0, <1>3, <2>1, <2>3, <2>4 DEF Ops
  <1>4. CASE phase = "load" /\ ~run.parallel
    <2>1. PICK c \in Seq(Line) : c = Script(phase, w) /\ c = EveryFile(w)
      BY <1>1, <1>4, EveryFileIs DEF Script
    <2>2. /\ CopiesThenRaises(c) /\ \A t \in TableSet : RaiseIn(c, t)
          /\ \A i \in DOMAIN w, t \in TableSet : CopyIn(c, w[i], t)
      BY <1>1, <2>1, EveryFileIs
    <2>3. \A i \in DOMAIN c : c[i].op \in {"copy", "setval", "raise"}
      <3>1. \A i \in DOMAIN c : c[i] \in Line
        BY LenProperties
      <3> QED
        BY <3>1 DEF Line
    <2> QED
      BY <1>0, <1>4, <2>1, <2>2, <2>3 DEF Ops
  <1>5. CASE phase = "load" /\ run.parallel
    <2>1. PICK o \in Orgs : w = <<o>>
      BY <1>5, WantedIs
    <2>2. w[1] = o /\ \A i \in DOMAIN w : w[i] = o
      BY <2>1
    <2>3. CASE files[run.set][o] = "manifest"
      <3>1. Script(phase, w) = <<>>
        BY <1>5, <2>2, <2>3 DEF Script
      <3> QED
        BY <1>0, <1>5, <2>3, <3>1
    <2>4. CASE files[run.set][o] # "manifest"
      <3>1. PICK c \in Seq(Line) : c = Script(phase, w) /\ c = Lines("copy", o)
        BY <1>5, <2>2, <2>4, LinesOf DEF Script, CopyLines
      <3>2. /\ DOMAIN c = 1..Len(Tables)
            /\ \A i \in 1..Len(Tables) : c[i] = [op |-> "copy", org |-> o, table |-> Tables[i]]
        BY <3>1, LinesOf
      <3>3. \A i \in DOMAIN c : c[i].op = "copy"
        BY <3>2
      <3>4. \A t \in TableSet : CopyIn(c, o, t)
        BY <3>2, PlaceOf DEF CopyIn
      <3> QED
        BY <1>0, <1>5, <2>2, <3>1, <3>3, <3>4 DEF Ops
    <2> QED
      BY <2>3, <2>4
  <1> QED
    BY <1>2, <1>3, <1>4, <1>5 DEF SessionPhases

\* A copy adds its dataset to one table of one organisation.
Copied(o, t, d) == [rows EXCEPT ![o][t] = @ \cup {d}]

LEMMA CopiedIs ==
  ASSUME SwapType, NEW o \in Orgs, NEW t \in TableSet, NEW d \in Datasets
  PROVE  /\ Copied(o, t, d) \in [Orgs -> [TableSet -> SUBSET Datasets]]
         /\ Copied(o, t, d)[o][t] = rows[o][t] \cup {d}
         /\ \A p \in Orgs, u \in TableSet :
               Copied(o, t, d)[p][u] \in {rows[p][u], rows[p][u] \cup {d}}
  <1>1. rows \in [Orgs -> [TableSet -> SUBSET Datasets]]
    BY DEF SwapType
  <1>2. PICK copied \in [TableSet -> SUBSET Datasets] : copied = [rows[o] EXCEPT ![t] = @ \cup {d}]
    BY <1>1
  <1>3. Copied(o, t, d) = [rows EXCEPT ![o] = copied]
    BY <1>2 DEF Copied
  <1>4. /\ copied[t] = rows[o][t] \cup {d}
        /\ \A u \in TableSet : copied[u] \in {rows[o][u], rows[o][u] \cup {d}}
    BY <1>1, <1>2
  <1>5. Copied(o, t, d)[o] = copied /\ \A p \in Orgs : p # o => Copied(o, t, d)[p] = rows[p]
    BY <1>1, <1>3
  <1>6. Copied(o, t, d) \in [Orgs -> [TableSet -> SUBSET Datasets]]
    BY <1>1, <1>3
  <1> QED
    BY <1>4, <1>5, <1>6

\* The sessions keep the types.
LEMMA WorkType == SwapType /\ Work => SwapType'
  <1> SUFFICES ASSUME SwapType, NEW s \in sessions,
                      \/ FailStatement(s) \/ CommitTeardown(s) \/ CopyTable(s)
                      \/ ReadHighest(s) \/ SetSequence(s)
               PROVE  SwapType'
    BY DEF Work
  <1>1. s.rc = "running" /\ UNCHANGED <<scaffolding, files, pc, run>>
    BY DEF FailStatement, CommitTeardown, CopyTable, ReadHighest, SetSequence, At, database
  <1>2. ASSUME NEW next, SessionType(next), Becomes(s, next)
        PROVE  \A z \in sessions' : SessionType(z)'
    <2>1. sessions' = (sessions \ {s}) \cup {next} /\ run' = run
      BY <1>1, <1>2 DEF Becomes
    <2> QED
      BY <1>2, <2>1 DEF SwapType, SessionType
  <1>3. rows' \in [Orgs -> [TableSet -> SUBSET Datasets]]
    <2>1. CASE CommitTeardown(s)
      BY <2>1 DEF CommitTeardown, SwapType
    <2>2. CASE CopyTable(s)
      <3>1. /\ Head(s.todo) \in Line /\ s.set \in Datasets
            /\ rows' = Copied(Head(s.todo).org, Head(s.todo).table, s.set)
        BY <1>1, <2>2, SessionStays DEF CopyTable, At, Session, Copied
      <3>2. Head(s.todo).org \in Orgs /\ Head(s.todo).table \in TableSet
        BY <3>1 DEF Line
      <3> QED
        BY <3>1, <3>2, CopiedIs
    <2> QED
      BY <2>1, <2>2 DEF FailStatement, ReadHighest, SetSequence, SwapType, database
  <1>4. lastValue' \in [TableSet -> Nat]
    <2>1. CASE SetSequence(s)
      <3>1. s.seen \in Nat
        BY <1>1, <2>1, SessionStays DEF Session, SetSequence
      <3> QED
        BY <2>1, <3>1 DEF SetSequence, SwapType, Raised
    <2> QED
      BY <2>1 DEF FailStatement, CommitTeardown, CopyTable, ReadHighest, SwapType, database
  <1>5. \A z \in sessions' : SessionType(z)'
    <2>1. CASE FailStatement(s)
      BY <1>1, <1>2, <2>1, SessionStays DEF FailStatement, Stop, Failed
    <2>2. CASE Advance(s)
      BY <1>1, <1>2, <2>2, SessionStays DEF Advance, Advanced
    <2>3. CASE ReadHighest(s)
      BY <1>1, <1>2, <2>3, SessionStays DEF ReadHighest, At, HasRead
    <2> QED
      BY <2>1, <2>2, <2>3 DEF CommitTeardown, CopyTable, SetSequence
  <1> QED
    BY <1>1, <1>3, <1>4, <1>5 DEF SwapType

\* What reaches the client of it is that or nothing.
LEMMA FileIs ==
  ASSUME SwapType, NEW phase \in SessionPhases, NEW w \in Wanted(phase), NEW cut
  PROVE  /\ File(phase, w, cut) \in Seq(Statement)
         /\ \A i \in DOMAIN File(phase, w, cut) : File(phase, w, cut)[i].op \in Ops(phase)
         /\ cut = {} => File(phase, w, cut) = Script(phase, w)
  <1>1. CASE w \in cut
    <2>1. File(phase, w, cut) = <<>> /\ cut # {}
      BY <1>1 DEF File
    <2>2. <<>> \in Seq(Statement) /\ DOMAIN <<>> = {}
      OBVIOUS
    <2> QED
      BY <2>1, <2>2
  <1>2. CASE w \notin cut
    <2>1. File(phase, w, cut) = Script(phase, w)
      BY <1>2 DEF File
    <2> QED
      BY <2>1, ScriptIs
  <1> QED
    BY <1>1, <1>2

\* The sessions that a phase launches.
New(phase, w, cut) ==
    [swap |-> run.n, phase |-> phase, orgs |-> w, set |-> run.set,
     todo |-> File(phase, w, cut), seen |-> Unread,
     rc |-> IF File(phase, w, cut) = <<>> THEN "ok" ELSE "running"]

\* The driver launches a phase: only a teardown's SQL can be lost on the way.
Launches(phase, cut) ==
    /\ Launch(phase, cut) /\ UNCHANGED <<database, files>>
    /\ \E lost \in BOOLEAN : run' = [run EXCEPT !.lost = lost]
    /\ cut # {} => phase = "td"
    /\ \/ phase = "td" /\ pc = "teardown" /\ pc' = "tearing"
       \/ phase = "load" /\ pc = "load" /\ pc' = "loading"
       \/ phase = "seqfix" /\ pc = "seqfix" /\ pc' = "fixing"

LEMMA LaunchesOnly ==
  ASSUME SwapType, StartTeardown \/ StartLoad \/ StartSeqfix
  PROVE  \E phase \in SessionPhases : \E cut : Launches(phase, cut)
  <1> USE DEF Goto
  <1>1. run = [run EXCEPT !.lost = run.lost] /\ run.lost \in BOOLEAN
    BY DEF SwapType, Run
  <1>2. CASE StartTeardown
    <2>1. PICK cut \in SUBSET Wanted("td") :
             Launch("td", cut) /\ run' = [run EXCEPT !.lost = cut # {}]
      BY <1>2 DEF StartTeardown
    <2>2. (cut # {}) \in BOOLEAN
      OBVIOUS
    <2>3. \E lost \in BOOLEAN : run' = [run EXCEPT !.lost = lost]
      BY <2>1, <2>2
    <2>4. Launches("td", cut)
      BY <1>2, <2>1, <2>3 DEF StartTeardown, Launches
    <2> QED
      BY <2>4 DEF SessionPhases
  <1>3. CASE StartLoad
    <2>1. Launches("load", {})
      BY <1>1, <1>3 DEF StartLoad, Launches
    <2> QED
      BY <2>1 DEF SessionPhases
  <1>4. CASE StartSeqfix
    <2>1. Launches("seqfix", {})
      BY <1>1, <1>4 DEF StartSeqfix, Launches
    <2> QED
      BY <2>1 DEF SessionPhases
  <1> QED
    BY <1>2, <1>3, <1>4

\* Whatever was lost, the run stays the one it was.
LEMMA SameRun ==
  ASSUME run \in Run, NEW lost \in BOOLEAN, run' = [run EXCEPT !.lost = lost]
  PROVE  /\ run' \in Run /\ run'.n = run.n /\ run'.set = run.set
         /\ run'.parallel = run.parallel /\ run'.overlapped = run.overlapped
         /\ run'.torn = run.torn /\ run'.lost = lost
  BY DEF Run

\* What a phase launches is a session, done at once when there is nothing to run.
LEMMA NewIs ==
  ASSUME SwapType, NEW phase \in SessionPhases, NEW w \in Wanted(phase), NEW cut
  PROVE  SessionType(New(phase, w, cut))
  <1>1. run.n \in Nat /\ run.set \in Datasets
    BY PilotAssumption DEF SwapType, Run, PilotAssumption
  <1>2. w \in Seq(Orgs) /\ File(phase, w, cut) \in Seq(Statement)
    BY WantedIs, FileIs
  <1> QED
    BY <1>1, <1>2 DEF SessionType, Session, New

\* The driver keeps the types.
LEMMA DriverType == SwapType /\ (Start \/ Proceed \/ Crash) => SwapType'
  <1> SUFFICES ASSUME SwapType, Start \/ Proceed \/ Crash PROVE SwapType'
    OBVIOUS
  <1> USE DEF Goto, Exit
  <1>0. run \in Run /\ pc \in Locations /\ run.n \in 0..MaxSwaps /\ MaxSwaps \in Nat
    BY PilotAssumption DEF SwapType, Run, PilotAssumption
  <1>1. CASE Start
    <2>1. PICK d \in Archives, p \in BOOLEAN :
             run' = [n |-> run.n + 1, set |-> d, parallel |-> p,
                     overlapped |-> Running # {}, torn |-> FALSE, lost |-> FALSE]
      BY <1>1 DEF Start
    <2>2. run.n + 1 \in 0..MaxSwaps /\ d \in Datasets
      <3>1. run.n < MaxSwaps
        BY <1>1 DEF Start
      <3>2. d \in Datasets
        BY PilotAssumption DEF PilotAssumption
      <3> QED
        BY <1>0, <3>1, <3>2
    <2>3. run' \in Run /\ run'.n = run.n + 1
      BY <2>1, <2>2 DEF Run
    <2>4. \A s \in sessions' : SessionType(s)'
      <3>1. sessions' \subseteq sessions
        BY <1>1 DEF Start, Running
      <3>2. \A s \in sessions : s.swap \in Nat
        BY DEF SwapType, SessionType, Session
      <3> QED
        BY <1>0, <2>3, <3>1, <3>2 DEF SwapType, SessionType
    <2> QED
      BY <1>1, <2>3, <2>4 DEF Start, SwapType, Locations, Active, database
  <1>2. CASE Fetch
    <2>1. PICK extracted \in [Orgs -> Extents] :
             /\ files' = [files EXCEPT ![run.set] = extracted]
             /\ run' = [run EXCEPT !.torn = \E o \in Orgs : extracted[o] # "whole"]
      BY <1>2 DEF Fetch
    <2>2. run' \in Run /\ run'.n = run.n
      BY <1>0, <2>1 DEF Run
    <2> QED
      BY <1>2, <2>1, <2>2 DEF Fetch, SwapType, SessionType, Locations, Active, database
  <1>3. CASE \E phase \in SessionPhases : \E cut : Launches(phase, cut)
    <2>1. PICK phase \in SessionPhases : \E cut : Launches(phase, cut)
      BY <1>3
    <2>2. PICK cut : Launches(phase, cut)
      BY <2>1
    <2>3. PICK started \in SUBSET Wanted(phase) :
             sessions' = sessions \cup {New(phase, w, cut) : w \in started}
      BY <2>2 DEF Launches, Launch, New
    <2>4. \A w \in started : SessionType(New(phase, w, cut))
      BY NewIs
    <2>5. \A s \in sessions' : SessionType(s)
      BY <2>3, <2>4 DEF SwapType
    <2>6. run' \in Run /\ run'.n = run.n
      BY <1>0, <2>2, SameRun DEF Launches
    <2>7. pc' \in Locations /\ UNCHANGED <<rows, lastValue, scaffolding, files>>
      BY <2>2 DEF Launches, Locations, Active, Waiting, database
    <2> QED
      BY <2>5, <2>6, <2>7 DEF SwapType, SessionType
  <1>4. CASE UNCHANGED <<rows, lastValue, sessions>> /\ pc' \in Locations
             /\ scaffolding' \in BOOLEAN
             /\ files' \in [Datasets -> [Orgs -> Extents]]
             /\ run' \in Run /\ run'.n = run.n
    BY <1>4 DEF SwapType, SessionType
  <1>5. CASE ProveTargets \/ CreateIndexes \/ CountRows \/ DropIndexes \/ Crash
    BY <1>4, <1>5 DEF ProveTargets, CreateIndexes, CountRows, DropIndexes, Crash,
                      Locations, Active, database, SwapType
  <1>6. CASE StartTeardown \/ StartLoad \/ StartSeqfix
    BY <1>3, <1>6, LaunchesOnly
  <1>7. CASE TeardownOver \/ LoadOver \/ SeqfixOver
    <2>1. /\ pc' \in Locations /\ UNCHANGED <<database, files, sessions>>
          /\ run' = run \/ run' = [run EXCEPT !.lost = TRUE]
      BY <1>7 DEF TeardownOver, LoadOver, NothingLaunched, SeqfixOver, Collect, Locations,
                  Active, Waiting
    <2>2. run' \in Run /\ run'.n = run.n
      BY <1>0, <2>1 DEF Run
    <2> QED
      BY <1>4, <2>1, <2>2 DEF database, SwapType
  <1>8. CASE Finish
    <2>1. /\ pc' \in {"done", "failed"} /\ UNCHANGED <<database, sessions, run>>
          /\ files' = files \/ files' = [files EXCEPT ![run.set] = [o \in Orgs |-> "none"]]
      BY <1>8 DEF Finish
    <2>2. files' \in [Datasets -> [Orgs -> Extents]]
      <3>1. files \in [Datasets -> [Orgs -> Extents]] /\ "none" \in Extents
        BY DEF SwapType, Extents
      <3>2. [o \in Orgs |-> "none"] \in [Orgs -> Extents]
        BY <3>1
      <3> QED
        BY <2>1, <3>1, <3>2
    <2> QED
      BY <1>0, <1>4, <2>1, <2>2 DEF database, SwapType, Locations
  <1> QED
    BY <1>1, <1>2, <1>5, <1>6, <1>7, <1>8 DEF Proceed

\* Before the first swap everything has its type.
LEMMA InitType == Init => SwapType
  <1> SUFFICES ASSUME Init PROVE SwapType
    OBVIOUS
  <1>1. rows \in [Orgs -> [TableSet -> SUBSET Datasets]]
    BY PilotAssumption DEF Init, PilotAssumption
  <1>2. lastValue \in [TableSet -> Nat]
    BY <1>1, HighestIsHighest DEF Init
  <1>3. run \in Run /\ pc \in Locations
    BY PilotAssumption DEF Init, Run, PilotAssumption, Locations
  <1> QED
    BY <1>1, <1>2, <1>3 DEF Init, SwapType, Extents

-----------------------------------------------------------------------------
(* The phases of a run, and whose sessions are at work in them.             *)

\* A run that began has launched nothing yet.
LEMMA StartPhase == SwapType /\ PhaseInv /\ Start => PhaseInv'
  <1> SUFFICES ASSUME SwapType, PhaseInv, Start PROVE PhaseInv'
    OBVIOUS
  <1>1. run'.n = run.n + 1 /\ run.n \in Nat
    BY PilotAssumption DEF Start, SwapType, Run, PilotAssumption
  <1>2. pc' = "fetch" /\ sessions' \subseteq sessions
    BY DEF Start, Goto, Running
  <1>3. \A s \in sessions' : s.swap # run'.n
    BY <1>1, <1>2 DEF SwapType, SessionType, Session
  <1> QED
    BY <1>2, <1>3 DEF PhaseInv, Entitled, OwnSession, OnePerOrgs, LatestAtWork

\* A session's own step: it stays for the same run, phase and organisations, and
\* one that has ended does not start again.
LEMMA SessionPhase ==
  ASSUME PhaseInv, NEW s \in sessions, NEW next, Becomes(s, next),
         s.rc = "running", next.swap = s.swap, next.phase = s.phase,
         next.orgs = s.orgs, next.set = s.set, UNCHANGED <<files, pc, run>>
  PROVE  PhaseInv'
  <1>1. sessions' = (sessions \ {s}) \cup {next}
    BY DEF Becomes
  <1>2. \A z \in sessions : OwnSession(z)'
    BY DEF PhaseInv, OwnSession, Wanted, Proved
  <1>3. OwnSession(next)'
    BY <1>2 DEF OwnSession, Wanted, Proved
  <1>4. OnePerOrgs'
    BY <1>1 DEF PhaseInv, OnePerOrgs
  <1>5. LatestAtWork'
    BY <1>1 DEF PhaseInv, LatestAtWork, Later
  <1> QED
    BY <1>1, <1>2, <1>3, <1>4, <1>5 DEF PhaseInv, Proved

\* The sessions keep to the phases: they end, and none begins.
LEMMA WorkPhase == SwapType /\ PhaseInv /\ Work => PhaseInv'
  <1> SUFFICES ASSUME SwapType, PhaseInv, NEW s \in sessions,
                      \/ FailStatement(s) \/ CommitTeardown(s) \/ CopyTable(s)
                      \/ ReadHighest(s) \/ SetSequence(s)
               PROVE  PhaseInv'
    BY DEF Work
  <1>1. s.rc = "running" /\ UNCHANGED <<files, pc, run>>
    BY DEF FailStatement, CommitTeardown, CopyTable, ReadHighest, SetSequence, At
  <1>2. \A next \in {Failed(s), Advanced(s), HasRead(s)} : Becomes(s, next) => PhaseInv'
    BY <1>1, SessionStays, SessionPhase
  <1>3. CASE FailStatement(s)
    BY <1>2, <1>3 DEF FailStatement, Stop, Failed
  <1>4. CASE Advance(s)
    BY <1>2, <1>4 DEF Advance, Advanced
  <1>5. CASE ReadHighest(s)
    BY <1>2, <1>5 DEF ReadHighest, HasRead
  <1> QED
    BY <1>3, <1>4, <1>5 DEF CommitTeardown, CopyTable, SetSequence

NoneAtWork == \A s \in sessions : s.swap = run.n => s.rc # "running"

\* None of the run's sessions is at work where it does not wait for them, nor once
\* it has waited for all of them.
LEMMA NoneIsAtWork ==
  ASSUME SwapType, PhaseInv,
         \/ pc \notin Waiting \cup {"down", "failed"}
         \/ \E phase \in SessionPhases : pc = WaitFor(phase) /\ AllFinished(phase)
  PROVE  NoneAtWork
  <1> SUFFICES ASSUME NEW s \in sessions, s.swap = run.n, s.rc = "running" PROVE FALSE
    BY DEF NoneAtWork
  <1>1. s.phase \in SessionPhases /\ pc \in {WaitFor(s.phase), "down", "failed"}
    BY DEF PhaseInv, OwnSession, SwapType, SessionType, Session
  <1>2. WaitFor(s.phase) \in Waiting
    BY <1>1 DEF WaitFor, SessionPhases, Waiting
  <1>3. PICK phase \in SessionPhases : pc = WaitFor(phase) /\ AllFinished(phase)
    BY <1>1, <1>2
  <1>4. phase = s.phase
    BY <1>1, <1>3 DEF WaitFor, SessionPhases
  <1>5. s.orgs \in Wanted(phase)
    BY <1>4 DEF PhaseInv, OwnSession
  <1>6. PICK z \in Own(phase) : z.orgs = s.orgs /\ z.rc \in {"ok", "failed"}
    BY <1>3, <1>5 DEF AllFinished
  <1>7. z = s
    BY <1>4, <1>6 DEF PhaseInv, OnePerOrgs, Own
  <1> QED
    BY <1>6, <1>7

\* A step of the driver that launches nothing, while none of its sessions is at work.
LEMMA QuietPhase ==
  ASSUME PhaseInv, NoneAtWork, UNCHANGED sessions,
         run'.n = run.n, run'.parallel = run.parallel, run'.set = run.set,
         \A phase \in SessionPhases : pc' \in Before(phase) => pc \in Before(phase),
         \A s \in sessions : s.phase \in SessionPhases,
         (pc \in Entitled => Proved)', pc' \in {"seqfix", "fixing"} => run.parallel
  PROVE  PhaseInv'
  <1>1. \A s \in sessions : OwnSession(s)'
    BY DEF PhaseInv, OwnSession, NoneAtWork, Wanted
  <1>2. OnePerOrgs' /\ LatestAtWork'
    BY DEF PhaseInv, OnePerOrgs, LatestAtWork, NoneAtWork
  <1> QED
    BY <1>1, <1>2 DEF PhaseInv

\* The sessions of a phase are launched where the run comes to it: it has none of
\* that phase or a later one yet, and none at work.
LEMMA LaunchPhase ==
  ASSUME SwapType, PhaseInv, NEW phase \in SessionPhases, NEW cut, Launches(phase, cut)
  PROVE  PhaseInv'
  <1>0. /\ \/ phase = "td" /\ pc = "teardown" /\ pc' = "tearing"
           \/ phase = "load" /\ pc = "load" /\ pc' = "loading"
           \/ phase = "seqfix" /\ pc = "seqfix" /\ pc' = "fixing"
        /\ files' = files
    BY DEF Launches
  <1>r. run'.n = run.n /\ run'.set = run.set /\ run'.parallel = run.parallel
    BY SameRun DEF Launches, SwapType
  <1>1. PICK started \in SUBSET Wanted(phase) :
           sessions' = sessions \cup {New(phase, w, cut) : w \in started}
    BY DEF Launches, Launch, New
  <1>2. \A w : New(phase, w, cut).swap = run.n /\ New(phase, w, cut).phase = phase
               /\ New(phase, w, cut).orgs = w /\ New(phase, w, cut).set = run.set
    BY DEF New
  <1>3. NoneAtWork
    BY <1>0, NoneIsAtWork DEF Waiting
  <1>4. /\ pc \in Before(phase) /\ pc' \notin Before(phase) /\ pc' = WaitFor(phase)
        /\ \A other \in SessionPhases :
              /\ pc' \in Before(other) => pc \in Before(other)
              /\ Later(other, phase) => pc \in Before(other)
    BY <1>0 DEF Before, WaitFor, Later, SessionPhases
  <1>5. \A s \in sessions :
           /\ s.phase \in SessionPhases
           /\ s.swap = run.n => pc \notin Before(s.phase) /\ s.phase # phase
                                /\ ~Later(s.phase, phase)
    BY <1>4 DEF PhaseInv, OwnSession, SwapType, SessionType, Session
  <1>6. Proved' = Proved /\ (phase = "td" => Proved) /\ (phase = "seqfix" => run.parallel)
        /\ (pc' \in Entitled => phase = "td") /\ (pc' \in {"seqfix", "fixing"} => phase = "seqfix")
    BY <1>0, <1>r DEF PhaseInv, Proved, Entitled
  <1>7. \A s \in sessions : OwnSession(s)'
    BY <1>r, <1>3, <1>4, <1>5 DEF PhaseInv, OwnSession, NoneAtWork, Wanted
  <1>8. ASSUME NEW s, NEW w \in started, s = New(phase, w, cut) PROVE OwnSession(s)'
    <2>2. s.set = run'.set /\ s.orgs \in Wanted(phase)' /\ s.phase = phase /\ s.swap = run'.n
      BY <1>r, <1>2, <1>8 DEF Wanted
    <2> QED
      BY <1>r, <1>4, <1>6, <2>2 DEF OwnSession
  <1>9. OnePerOrgs' /\ LatestAtWork'
    <2> DEFINE new == {New(phase, w, cut) : w \in started}
    <2>1. \A s \in new : \E w \in started : s = New(phase, w, cut)
      OBVIOUS
    <2>2. \A s \in new : s.swap = run.n /\ s.phase = phase /\ s = New(phase, s.orgs, cut)
      BY <1>2, <2>1
    <2>3. sessions' = sessions \cup new /\ run'.n = run.n
      BY <1>r, <1>1
    <2> HIDE DEF new
    <2>4. OnePerOrgs'
      BY <1>5, <2>2, <2>3 DEF PhaseInv, OnePerOrgs
    <2>5. \A other : Later(other, phase) => other # phase
      BY DEF Later
    <2>6. LatestAtWork'
      BY <1>3, <1>5, <2>2, <2>3, <2>5 DEF PhaseInv, LatestAtWork, NoneAtWork
    <2> QED
      BY <2>4, <2>6
  <1> QED
    BY <1>r, <1>1, <1>6, <1>7, <1>8, <1>9 DEF PhaseInv

\* The driver keeps to its phases, line by line.
LEMMA DriverPhase == SwapType /\ PhaseInv /\ (Proceed \/ Crash) => PhaseInv'
  <1> SUFFICES ASSUME SwapType, PhaseInv, Proceed \/ Crash PROVE PhaseInv'
    OBVIOUS
  <1> USE DEF Goto, Exit
  <1>0. /\ \A s \in sessions : s.phase \in SessionPhases
        /\ run \in Run
    BY DEF SwapType, SessionType, Session
  <1>n. pc \notin Waiting \cup {"down", "failed"} => NoneAtWork
    BY NoneIsAtWork
  <1>1. CASE Fetch
    <2>1. PICK torn \in BOOLEAN : run' = [run EXCEPT !.torn = torn]
      BY <1>1 DEF Fetch
    <2>2. run'.n = run.n /\ run'.parallel = run.parallel /\ run'.set = run.set
      BY <1>0, <2>1 DEF Run
    <2>3. pc = "fetch" /\ pc' = "prove" /\ sessions' = sessions
      BY <1>1 DEF Fetch
    <2> QED
      BY <1>0, <1>n, <2>2, <2>3, QuietPhase DEF Waiting, Entitled, Before, SessionPhases
  <1>2. CASE ProveTargets
    <2>1. pc = "prove" /\ UNCHANGED <<files, sessions, run>>
      BY <1>2 DEF ProveTargets
    <2>2. pc' = "failed" \/ (pc' = "indexes" /\ Proved)
      BY <1>2 DEF ProveTargets, TargetsThePilot, Proved
    <2>3. Proved' = Proved
      BY <2>1 DEF Proved
    <2> QED
      BY <1>0, <1>n, <2>1, <2>2, <2>3, QuietPhase DEF Waiting, Entitled, Before, SessionPhases
  <1>3. CASE CreateIndexes
    <2>1. pc = "indexes" /\ pc' \in {"teardown", "failed"} /\ UNCHANGED <<files, sessions, run>>
      BY <1>3 DEF CreateIndexes
    <2>2. Proved /\ Proved' = Proved
      BY <2>1 DEF PhaseInv, Entitled, Proved
    <2> QED
      BY <1>0, <1>n, <2>1, <2>2, QuietPhase DEF Waiting, Entitled, Before, SessionPhases
  <1>4. CASE StartTeardown \/ StartLoad \/ StartSeqfix
    <2>1. PICK phase \in SessionPhases : \E cut : Launches(phase, cut)
      BY <1>4, LaunchesOnly
    <2>2. PICK cut : Launches(phase, cut)
      BY <2>1
    <2> QED
      BY <2>2, LaunchPhase
  <1>5. CASE TeardownOver \/ LoadOver \/ SeqfixOver
    <2>1. /\ \/ pc = "tearing" /\ pc' \in {"count", "failed"}
             \/ pc = "loading" /\ pc' = "seqfix" /\ run.parallel
             \/ pc = "loading" /\ pc' \in {"finish", "failed"}
             \/ pc = "fixing" /\ pc' \in {"finish", "failed"}
          /\ run' = run \/ run' = [run EXCEPT !.lost = TRUE]
          /\ UNCHANGED <<files, sessions>>
      BY <1>5 DEF TeardownOver, LoadOver, NothingLaunched, SeqfixOver, Collect
    <2>2. run'.n = run.n /\ run'.parallel = run.parallel /\ run'.set = run.set
      BY <1>0, <2>1 DEF Run
    <2>3. NoneAtWork
      <3>1. CASE \E phase \in SessionPhases : pc = WaitFor(phase) /\ AllFinished(phase)
        BY <3>1, NoneIsAtWork
      <3>2. CASE pc = "loading" /\ NothingLaunched
        <4>1. \A s \in sessions : s.swap = run.n => s.phase # "load"
          BY <3>2 DEF NothingLaunched, Own
        <4>2. \A s \in sessions : s.swap = run.n /\ s.rc = "running" =>
                 pc = WaitFor(s.phase)
          BY <3>2 DEF PhaseInv, OwnSession
        <4>3. \A s \in sessions : pc = WaitFor(s.phase) => s.phase = "load"
          BY <1>0, <3>2 DEF WaitFor, SessionPhases
        <4> QED
          BY <4>1, <4>2, <4>3 DEF NoneAtWork
      <3> QED
        BY <1>5, <3>1, <3>2 DEF TeardownOver, LoadOver, SeqfixOver, Collect, WaitFor,
                                SessionPhases
    <2> QED
      BY <1>0, <2>1, <2>2, <2>3, QuietPhase DEF Entitled, Before, SessionPhases
  <1>6. CASE CountRows \/ DropIndexes \/ Finish
    <2>1. /\ \/ pc = "count" /\ pc' \in {"vacuum", "failed"}
             \/ pc = "vacuum" /\ pc' \in {"load", "failed"}
             \/ pc = "finish" /\ pc' \in {"done", "failed"}
          /\ UNCHANGED <<sessions, run>>
      BY <1>6 DEF CountRows, DropIndexes, Finish
    <2> QED
      BY <1>0, <1>n, <2>1, QuietPhase DEF Waiting, Entitled, Before, SessionPhases
  <1>7. CASE Crash
    <2>1. pc' = "down" /\ UNCHANGED <<files, sessions, run>>
      BY <1>7 DEF Crash
    <2>2. \A s \in sessions : OwnSession(s)'
      BY <1>0, <2>1 DEF PhaseInv, OwnSession, Wanted, Proved, Before, SessionPhases
    <2>3. OnePerOrgs' /\ LatestAtWork'
      BY <2>1 DEF PhaseInv, OnePerOrgs, LatestAtWork
    <2> QED
      BY <2>1, <2>2, <2>3 DEF PhaseInv, Entitled
  <1> QED
    BY <1>1, <1>2, <1>3, <1>4, <1>5, <1>6, <1>7 DEF Proceed

-----------------------------------------------------------------------------
(* The id sequences.                                                        *)

\* A run that has the database to itself: whose sessions they are, what each is
\* doing, and where the run stands while it does it.
LEMMA AtWork ==
  ASSUME SwapType, PhaseInv, SequenceInv, ~run.overlapped,
         NEW s \in sessions, s.rc = "running"
  PROVE  /\ s.phase \in SessionPhases /\ s.swap = run.n /\ s.set = run.set
         /\ s.orgs \in Wanted(s.phase) /\ SequencerInv(s)
         /\ pc \in {WaitFor(s.phase), "down", "failed"}
         /\ pc \notin {"finish", "done"}
         /\ Head(s.todo).op \in Ops(s.phase)
         /\ CommitTeardown(s) => s.phase = "td"
         /\ CopyTable(s) => s.phase = "load"
         /\ SetSequence(s) => /\ Sequencer(s) /\ Head(s.todo).op \in {"setval", "raise"}
                              /\ s.seen = Highest(Head(s.todo).table)
  <1>1. /\ s.phase \in SessionPhases /\ s.swap = run.n /\ SequencerInv(s)
        /\ s.set = run.set /\ s.orgs \in Wanted(s.phase)
        /\ pc \in {WaitFor(s.phase), "down", "failed"}
    BY DEF SequenceInv, PhaseInv, OwnSession, SwapType, SessionType, Session
  <1>2. pc \notin {"finish", "done"}
    BY <1>1 DEF WaitFor
  <1>3. Head(s.todo).op \in Ops(s.phase)
    BY <1>1, SessionStays, RestOf DEF SequencerInv, OnlyItsOps
  <1>4. CommitTeardown(s) => s.phase = "td"
    BY <1>1, <1>3 DEF CommitTeardown, At, Ops, SessionPhases
  <1>5. CopyTable(s) => s.phase = "load"
    BY <1>1, <1>3 DEF CopyTable, At, Ops, SessionPhases
  <1>6. SetSequence(s) => /\ Sequencer(s) /\ Head(s.todo).op \in {"setval", "raise"}
                          /\ s.seen = Highest(Head(s.todo).table)
    BY <1>1, <1>3 DEF SetSequence, SequencerInv, ReadIsHighest, Ops, SessionPhases, Sequencer
  <1> QED
    BY <1>1, <1>2, <1>3, <1>4, <1>5, <1>6

\* The rest of a script: its copies are followed by raises still, and a table that
\* was to be raised is, unless that is what the first statement did.
LEMMA RestCovers ==
  ASSUME NEW todo \in Seq(Statement), todo # <<>>
  PROVE  /\ \A ops : (\A i \in DOMAIN todo : todo[i].op \in ops)
               => \A i \in DOMAIN Tail(todo) : Tail(todo)[i].op \in ops
         /\ CopiesThenRaises(todo) => CopiesThenRaises(Tail(todo))
         /\ \A t : RaiseIn(todo, t) =>
               RaiseIn(Tail(todo), t) \/ (Head(todo).op = "raise" /\ Head(todo).table = t)
         /\ CopiesThenRaises(todo) /\ Head(todo).op = "copy" => RaiseIn(Tail(todo), Head(todo).table)
  <1>1. PICK rest \in Seq(Statement) : rest = Tail(todo)
    BY RestOf
  <1>2. /\ Head(todo) = todo[1] /\ 1 \in DOMAIN todo
        /\ DOMAIN todo \subseteq Nat /\ DOMAIN rest \subseteq Nat
        /\ \A i \in DOMAIN rest : i + 1 \in DOMAIN todo /\ rest[i] = todo[i + 1]
        /\ \A i \in DOMAIN todo : i = 1 \/ \E j \in DOMAIN rest : i = j + 1 /\ rest[j] = todo[i]
    BY <1>1, RestOf, LenProperties
  <1>3. ASSUME CopiesThenRaises(todo) PROVE CopiesThenRaises(rest)
    <2> SUFFICES ASSUME NEW i \in DOMAIN rest, rest[i].op = "copy"
                 PROVE  \E j \in DOMAIN rest :
                           j > i /\ rest[j].op = "raise" /\ rest[j].table = rest[i].table
      BY DEF CopiesThenRaises
    <2>1. PICK k \in DOMAIN todo : k = i + 1 /\ rest[i] = todo[k]
      BY <1>2
    <2>2. PICK m \in DOMAIN todo : m > k /\ todo[m].op = "raise" /\ todo[m].table = todo[k].table
      BY <1>3, <2>1 DEF CopiesThenRaises
    <2>3. i \in Nat /\ m # 1
      BY <1>2, <2>1, <2>2
    <2>4. PICK j \in DOMAIN rest : m = j + 1 /\ rest[j] = todo[m]
      BY <1>2, <2>3
    <2>5. j > i
      <3>1. i \in Nat /\ j \in Nat /\ m > k /\ k = i + 1 /\ m = j + 1
        BY <1>2, <2>1, <2>2, <2>3, <2>4
      <3> QED
        BY <3>1
    <2> QED
      BY <2>1, <2>2, <2>4, <2>5
  <1>4. ASSUME NEW t, RaiseIn(todo, t)
        PROVE  RaiseIn(rest, t) \/ (Head(todo).op = "raise" /\ Head(todo).table = t)
    BY <1>2, <1>4 DEF RaiseIn
  <1>5. ASSUME CopiesThenRaises(todo), Head(todo).op = "copy"
        PROVE  RaiseIn(rest, Head(todo).table)
    <2>1. PICK m \in DOMAIN todo : m > 1 /\ todo[m].op = "raise" /\ todo[m].table = todo[1].table
      BY <1>2, <1>5 DEF CopiesThenRaises
    <2>2. m # 1
      BY <2>1
    <2>3. PICK j \in DOMAIN rest : rest[j] = todo[m]
      BY <1>2, <2>2
    <2> QED
      BY <1>2, <2>1, <2>3 DEF RaiseIn
  <1> QED
    BY <1>1, <1>2, <1>3, <1>4, <1>5, EmptySeq DEF RaiseIn

\* The highest id of a table is what its rows make it.
LEMMA SameHighest ==
  ASSUME NEW t, \A o \in Orgs : rows'[o][t] = rows[o][t]
  PROVE  Highest(t)' = Highest(t)
  <1>1. {{Top[d][o] : d \in rows'[o][t]} : o \in Orgs}
          = {{Top[d][o] : d \in rows[o][t]} : o \in Orgs}
    OBVIOUS
  <1> QED
    BY <1>1 DEF Highest

\* The sessions of a run that has the database to itself leave every sequence
\* covered, or to be raised by the one that sees to it.
LEMMA WorkSequence ==
  ASSUME SwapType, PhaseInv, SequenceInv, Work
  PROVE  SequenceInv'
  <1> SUFFICES ASSUME NEW s \in sessions,
                      \/ FailStatement(s) \/ CommitTeardown(s) \/ CopyTable(s)
                      \/ ReadHighest(s) \/ SetSequence(s),
                      ~run'.overlapped
               PROVE  /\ \A z \in sessions' : z.swap = run'.n /\ SequencerInv(z)'
                      /\ pc' \notin {"finish", "done"}
    BY DEF Work, SequenceInv
  <1>1. s.rc = "running" /\ UNCHANGED <<scaffolding, files, pc, run>>
    BY DEF FailStatement, CommitTeardown, CopyTable, ReadHighest, SetSequence, At, database
  <1>2. ~run.overlapped
    BY <1>1
  <1>3. /\ s.phase \in SessionPhases /\ s.swap = run.n /\ SequencerInv(s)
        /\ s.orgs \in Wanted(s.phase) /\ pc \notin {"finish", "done"}
        /\ CommitTeardown(s) => s.phase = "td"
        /\ CopyTable(s) => s.phase = "load"
        /\ SetSequence(s) => /\ Sequencer(s) /\ Head(s.todo).op \in {"setval", "raise"}
                             /\ s.seen = Highest(Head(s.todo).table)
    BY <1>1, <1>2, AtWork
  <1>4. \A z \in sessions : /\ z.swap = run.n /\ SequencerInv(z)
                            /\ z.phase \in SessionPhases /\ z.orgs \in Wanted(z.phase)
    BY <1>2 DEF SequenceInv, PhaseInv, OwnSession, SwapType, SessionType, Session
  <1>5. \A z \in sessions : ~Later(z.phase, s.phase)
    BY <1>1, <1>3, <1>4 DEF PhaseInv, LatestAtWork
  <1>6. \A z : Sequencer(z)' = Sequencer(z)
    BY <1>1 DEF Sequencer
  <1>7. \A phase : Ops(phase)' = Ops(phase)
    BY <1>1 DEF Ops
  <1>8. s.todo \in Seq(Statement) /\ s.todo # <<>>
    BY <1>1, SessionStays
  <1>9. ASSUME NEW t \in TableSet, RaiseIn(s.todo, t)
        PROVE  RaiseIn(Tail(s.todo), t) \/ (Head(s.todo).op = "raise" /\ Head(s.todo).table = t)
    BY <1>8, <1>9, RestCovers
  <1>10. ASSUME NEW next \in {Failed(s), Advanced(s), HasRead(s)}, Becomes(s, next),
                SequencerInv(next)', \A z \in sessions \ {s} : SequencerInv(z)'
         PROVE  /\ \A z \in sessions' : z.swap = run'.n /\ SequencerInv(z)'
                /\ pc' \notin {"finish", "done"}
    <2>1. sessions' = (sessions \ {s}) \cup {next} /\ next.swap = s.swap
      BY <1>1, <1>10, SessionStays DEF Becomes
    <2> QED
      BY <1>1, <1>3, <1>4, <1>10, <2>1
  <1>11. ASSUME UNCHANGED <<rows, lastValue>>
         PROVE  /\ \A t : Highest(t)' = Highest(t)
                /\ \A t : Covers(t)' = Covers(t)
                /\ \A z \in sessions : SequencerInv(z)'
    <2>1. (\A t : Highest(t)' = Highest(t)) /\ (\A t : Covers(t)' = Covers(t))
      BY <1>11 DEF Highest, Covers
    <2> QED
      BY <1>4, <1>6, <1>7, <2>1
         DEF SequencerInv, OnlyItsOps, ReadIsHighest, WillCover
  <1>12. CASE FailStatement(s)
    <2>1. Becomes(s, Failed(s)) /\ UNCHANGED <<rows, lastValue>>
      BY <1>12 DEF FailStatement, Stop, Failed, database
    <2>2. SequencerInv(s)' /\ Failed(s).todo = s.todo /\ Failed(s).rc = "failed"
          /\ Failed(s).phase = s.phase
      BY <1>1, <1>11, <2>1, SessionStays
    <2>3. SequencerInv(Failed(s))'
      BY <2>2 DEF SequencerInv, OnlyItsOps, ReadIsHighest, WillCover, Sequencer
    <2> QED
      BY <1>10, <1>11, <2>1, <2>3
  <1>13. CASE ReadHighest(s)
    <2>0. PICK next : next = HasRead(s)
      OBVIOUS
    <2>1. /\ Becomes(s, next) /\ UNCHANGED <<rows, lastValue>>
          /\ Head(s.todo).op \in {"setval", "raise"}
      BY <1>13, <2>0 DEF ReadHighest, HasRead, At, database
    <2>2. /\ SequencerInv(s)' /\ next.todo = s.todo /\ next.rc = "running"
          /\ next.phase = s.phase /\ next.seen = Highest(Head(s.todo).table)
      BY <1>1, <1>11, <2>0, <2>1, SessionStays
    <2>3. SequencerInv(next)'
      BY <1>1, <1>11, <2>1, <2>2 DEF SequencerInv, OnlyItsOps, ReadIsHighest, WillCover, Sequencer
    <2> QED
      BY <1>10, <1>11, <2>0, <2>1, <2>3
  <1>14. ASSUME Sequencer(s) => \A t \in TableSet : Covers(t)' \/ RaiseIn(Tail(s.todo), t)
         PROVE  SequencerInv(Advanced(s))'
    <2>1. /\ Advanced(s).todo = Tail(s.todo) /\ Advanced(s).seen = Unread
          /\ Advanced(s).phase = s.phase
      BY <1>1, SessionStays
    <2>2. OnlyItsOps(Advanced(s))'
      BY <1>3, <1>7, <1>8, <2>1, RestCovers DEF SequencerInv, OnlyItsOps
    <2>3. Sequencer(s) => CopiesThenRaises(Tail(s.todo))
      BY <1>3, <1>8, RestCovers DEF SequencerInv, WillCover
    <2>4. Sequencer(Advanced(s))' = Sequencer(s)
      BY <1>1, <2>1 DEF Sequencer
    <2> QED
      BY <1>14, <2>1, <2>2, <2>3, <2>4 DEF SequencerInv, ReadIsHighest, WillCover
  <1>15. CASE CommitTeardown(s)
    <2>1. Becomes(s, Advanced(s)) /\ s.phase = "td"
      BY <1>3, <1>15 DEF CommitTeardown, Advance, Advanced
    <2>2. \A z \in sessions : z.phase = "td"
      BY <1>4, <1>5, <2>1 DEF Later, SessionPhases
    <2>3. \A z \in sessions : OnlyItsOps(z)' /\ ~Sequencer(z)'
      BY <1>4, <1>7, <2>2 DEF SequencerInv, OnlyItsOps, Sequencer
    <2>4. ASSUME NEW z \in sessions PROVE ReadIsHighest(z)'
      <3>1. z.rc = "running" /\ z.seen # Unread =>
               Head(z.todo).op \in {"setval", "raise"} /\ Head(z.todo).op \in Ops("td")
        BY <1>2, <1>4, <2>2, AtWork DEF SequencerInv, ReadIsHighest
      <3> QED
        BY <3>1 DEF ReadIsHighest, Ops
    <2>5. SequencerInv(Advanced(s))'
      BY <1>6, <1>14, <2>3
    <2> QED
      BY <1>10, <2>1, <2>3, <2>4, <2>5 DEF SequencerInv, WillCover
  <1>16. CASE CopyTable(s)
    <2>1. /\ Becomes(s, Advanced(s)) /\ s.phase = "load" /\ Head(s.todo).op = "copy"
          /\ rows' = [rows EXCEPT ![Head(s.todo).org][Head(s.todo).table] = @ \cup {s.set}]
          /\ lastValue' = lastValue
      BY <1>3, <1>16 DEF CopyTable, At, Advance, Advanced
    <2>2. \A t \in TableSet : t # Head(s.todo).table => Covers(t)' = Covers(t)
      <3> SUFFICES ASSUME NEW t \in TableSet, t # Head(s.todo).table
                   PROVE  Highest(t)' = Highest(t)
        BY <2>1 DEF Covers
      <3>1. \A o \in Orgs : rows'[o][t] = rows[o][t]
        BY <2>1 DEF SwapType
      <3> QED
        BY <3>1, SameHighest
    <2>3. Sequencer(s) => \A t \in TableSet : Covers(t)' \/ RaiseIn(Tail(s.todo), t)
      <3> SUFFICES ASSUME Sequencer(s), NEW t \in TableSet
                   PROVE  Covers(t)' \/ RaiseIn(Tail(s.todo), t)
        OBVIOUS
      <3>1. CopiesThenRaises(s.todo) /\ (Covers(t) \/ RaiseIn(s.todo, t))
        BY <1>1, <1>3 DEF SequencerInv, WillCover
      <3>2. CASE t = Head(s.todo).table
        BY <1>8, <2>1, <3>1, <3>2, RestCovers
      <3>3. CASE t # Head(s.todo).table
        BY <1>9, <2>1, <2>2, <3>1, <3>3
      <3> QED
        BY <3>2, <3>3
    <2>4. ASSUME NEW z \in sessions \ {s}
          PROVE  ~Sequencer(z) /\ (z.rc = "running" => z.seen = Unread)
      <3>1. z.phase \in {"td", "load"}
        BY <1>4, <1>5, <2>1 DEF Later, SessionPhases
      <3>2. CASE z.phase = "load" /\ ~run.parallel
        <4>1. z.orgs = Pilot /\ s.orgs = Pilot
          BY <1>3, <1>4, <2>1, <3>2 DEF Wanted
        <4> QED
          BY <1>3, <1>4, <2>1, <3>2, <4>1 DEF PhaseInv, OnePerOrgs
      <3>3. CASE ~(z.phase = "load" /\ ~run.parallel)
        <4>1. ~Sequencer(z) /\ Ops(z.phase) \subseteq {"delete", "copy"}
          BY <3>1, <3>3 DEF Sequencer, Ops
        <4>2. z.rc = "running" => Head(z.todo).op \in {"delete", "copy"}
          BY <1>2, <4>1, AtWork
        <4> QED
          BY <1>4, <4>1, <4>2 DEF SequencerInv, ReadIsHighest
      <3> QED
        BY <3>2, <3>3
    <2>5. \A z \in sessions \ {s} : SequencerInv(z)'
      BY <1>4, <1>6, <1>7, <2>4 DEF SequencerInv, OnlyItsOps, ReadIsHighest, WillCover
    <2> QED
      BY <1>10, <1>14, <2>1, <2>3, <2>5
  <1>17. CASE SetSequence(s)
    <2>1. /\ Becomes(s, Advanced(s)) /\ rows' = rows /\ s.seen = Highest(Head(s.todo).table)
          /\ lastValue' = [lastValue EXCEPT ![Head(s.todo).table] =
                              IF Head(s.todo).op = "setval" THEN s.seen ELSE Raised(s.seen, @)]
          /\ Sequencer(s) /\ s.seen \in Nat
      BY <1>1, <1>3, <1>17, SessionStays DEF SetSequence, Advance, Advanced, Session
    <2>2. \A t : Highest(t)' = Highest(t)
      BY <2>1, SameHighest
    <2>3. \A t \in TableSet : /\ t = Head(s.todo).table => Covers(t)'
                              /\ t # Head(s.todo).table => Covers(t)' = Covers(t)
      BY <2>1, <2>2 DEF SwapType, Covers, Raised
    <2>4. \A t \in TableSet : Covers(t)' \/ RaiseIn(Tail(s.todo), t)
      BY <1>1, <1>3, <1>9, <2>1, <2>3 DEF SequencerInv, WillCover
    <2>5. \A z \in sessions \ {s} : SequencerInv(z)'
      BY <1>4, <1>6, <1>7, <2>2, <2>3 DEF SequencerInv, OnlyItsOps, ReadIsHighest, WillCover
    <2> QED
      BY <1>10, <1>14, <2>1, <2>4, <2>5
  <1> QED
    BY <1>12, <1>13, <1>15, <1>16, <1>17

\* The driver: a run begins alone, launches sequencers whose scripts raise every
\* sequence, and is done when one of them has gone to its end.
LEMMA DriverSequence ==
  ASSUME SwapType, PhaseInv, SequenceInv, Start \/ Proceed \/ Crash
  PROVE  SequenceInv'
  <1> USE DEF Goto, Exit
  <1>1. CASE Start
    <2>0. run'.overlapped = (Running # {})
      BY <1>1 DEF Start
    <2>1. pc' = "fetch" /\ (~run'.overlapped => sessions' = {})
      BY <1>1, <2>0 DEF Start
    <2> QED
      BY <2>1 DEF SequenceInv
  <1>2. ASSUME UNCHANGED <<rows, lastValue>>, run'.n = run.n,
               run'.overlapped = run.overlapped, run'.parallel = run.parallel,
               ~run.overlapped => \A s \in sessions' \ sessions : s.swap = run.n /\ SequencerInv(s)',
               ~run.overlapped /\ pc' \in {"finish", "done"} => \A t \in TableSet : Covers(t)
        PROVE  SequenceInv'
    <2>1. /\ \A t : Highest(t)' = Highest(t)
          /\ \A t : Covers(t)' = Covers(t)
          /\ \A phase : Ops(phase)' = Ops(phase)
          /\ \A s : Sequencer(s)' = Sequencer(s)
      BY <1>2 DEF Highest, Covers, Ops, Sequencer
    <2>2. ~run.overlapped => \A s \in sessions : SequencerInv(s)'
      BY <2>1 DEF SequenceInv, SequencerInv, OnlyItsOps, ReadIsHighest, WillCover
    <2> QED
      BY <1>2, <2>1, <2>2 DEF SequenceInv
  <1>3. run \in Run
    BY DEF SwapType
  <1>4. CASE StartTeardown \/ StartLoad \/ StartSeqfix
    <2>1. PICK phase \in SessionPhases : \E cut : Launches(phase, cut)
      BY <1>4, LaunchesOnly
    <2>2. PICK cut : Launches(phase, cut)
      BY <2>1
    <2>3. PICK started \in SUBSET Wanted(phase) :
             sessions' = sessions \cup {New(phase, w, cut) : w \in started}
      BY <2>2 DEF Launches, Launch, New
    <2>4. run'.n = run.n /\ run'.overlapped = run.overlapped /\ run'.parallel = run.parallel
      BY <1>3, <2>2, SameRun DEF Launches
    <2>5. ASSUME NEW s, NEW w \in Wanted(phase), s = New(phase, w, cut)
          PROVE  s.swap = run.n /\ SequencerInv(s)'
      <3>1. /\ s.swap = run.n /\ s.phase = phase /\ s.todo = File(phase, w, cut)
            /\ s.seen = Unread
        BY <2>5 DEF New
      <3>2. Ops(phase)' = Ops(phase) /\ (Sequencer(s)' = Sequencer(s))
        BY <2>4 DEF Ops, Sequencer
      <3>3. OnlyItsOps(s)'
        BY <3>1, <3>2, FileIs DEF OnlyItsOps
      <3>4. WillCover(s)'
        <4>1. Sequencer(s) => cut = {}
          BY <2>2, <3>1 DEF Launches, Sequencer
        <4>2. Sequencer(s) => s.todo = Script(phase, w)
          BY <3>1, <4>1, FileIs
        <4> QED
          BY <3>1, <3>2, <4>2, ScriptIs DEF WillCover, Sequencer
      <3> QED
        BY <3>1, <3>3, <3>4 DEF SequencerInv, ReadIsHighest
    <2> QED
      BY <1>2, <2>2, <2>3, <2>4, <2>5 DEF Launches, database, Waiting
  <1>6. ASSUME NEW s \in sessions, Sequencer(s), s.rc = "ok", ~run.overlapped
        PROVE  \A t \in TableSet : Covers(t)
    <2>1. s.todo = <<>> /\ WillCover(s)
      BY <1>6 DEF SwapType, SessionType, SequenceInv, SequencerInv
    <2>2. \A t : ~RaiseIn(<<>>, t)
      BY EmptySeq DEF RaiseIn
    <2> QED
      BY <1>6, <2>1, <2>2 DEF WillCover
  <1>7. CASE TeardownOver \/ LoadOver \/ SeqfixOver
    <2>1. /\ UNCHANGED <<database, files, sessions>>
          /\ run' = run \/ run' = [run EXCEPT !.lost = TRUE]
      BY <1>7 DEF TeardownOver, LoadOver, NothingLaunched, SeqfixOver, Collect
    <2>2. run'.n = run.n /\ run'.overlapped = run.overlapped /\ run'.parallel = run.parallel
      BY <1>3, <2>1 DEF Run
    <2>3. ASSUME ~run.overlapped, pc' \in {"finish", "done"}
          PROVE  \A t \in TableSet : Covers(t)
      <3>1. PICK phase \in {"load", "seqfix"} :
               /\ phase = "load" => ~run.parallel
               /\ AllFinished(phase) /\ Bad(phase) = {}
        BY <1>7, <2>3 DEF TeardownOver, LoadOver, NothingLaunched, SeqfixOver, Collect
      <3>2. Pilot \in Wanted(phase)
        BY <3>1 DEF Wanted
      <3>3. PICK s \in Own(phase) : s.rc \in {"ok", "failed"}
        BY <3>1, <3>2 DEF AllFinished
      <3>4. s \in sessions /\ s.phase = phase /\ s.rc = "ok"
        BY <3>1, <3>3 DEF Own, Bad
      <3>5. Sequencer(s)
        BY <3>1, <3>4 DEF Sequencer
      <3> QED
        BY <1>6, <2>3, <3>4, <3>5
    <2> QED
      BY <1>2, <2>1, <2>2, <2>3 DEF database
  <1>8. CASE Fetch
    <2>1. PICK torn \in BOOLEAN : run' = [run EXCEPT !.torn = torn]
      BY <1>8 DEF Fetch
    <2>2. run'.n = run.n /\ run'.overlapped = run.overlapped /\ run'.parallel = run.parallel
      BY <1>3, <2>1 DEF Run
    <2> QED
      BY <1>2, <1>8, <2>2 DEF Fetch, database
  <1>9. CASE ProveTargets \/ CreateIndexes \/ CountRows \/ DropIndexes \/ Crash
    <2>1. /\ UNCHANGED <<rows, lastValue, sessions, run>>
          /\ pc' \notin {"finish", "done"}
      BY <1>9 DEF ProveTargets, CreateIndexes, CountRows, DropIndexes, Crash, database
    <2> QED
      BY <1>2, <2>1
  <1>10. CASE Finish
    <2>1. UNCHANGED <<rows, lastValue, sessions, run>> /\ pc = "finish"
      BY <1>10 DEF Finish, database
    <2> QED
      BY <1>2, <2>1 DEF SequenceInv
  <1> QED
    BY <1>1, <1>4, <1>7, <1>8, <1>9, <1>10 DEF Proceed

-----------------------------------------------------------------------------
(* What the pilot holds.                                                    *)

\* A copy that is left in a script is left in its rest, unless it is the next one.
LEMMA RestCopies ==
  ASSUME NEW todo \in Seq(Statement), todo # <<>>, NEW o, NEW t, CopyIn(todo, o, t)
  PROVE  CopyIn(Tail(todo), o, t) \/ Head(todo) = [op |-> "copy", org |-> o, table |-> t]
  <1>1. PICK rest \in Seq(Statement) : rest = Tail(todo)
    BY RestOf
  <1>2. /\ Head(todo) = todo[1]
        /\ \A i \in DOMAIN todo : i = 1 \/ \E j \in DOMAIN rest : i = j + 1 /\ rest[j] = todo[i]
    BY <1>1, RestOf
  <1>3. PICK i \in DOMAIN todo : todo[i] = [op |-> "copy", org |-> o, table |-> t]
    BY DEF CopyIn
  <1>4. CASE i = 1
    BY <1>2, <1>3, <1>4
  <1>5. CASE i # 1
    <2>1. PICK j \in DOMAIN rest : rest[j] = todo[i]
      BY <1>2, <1>5
    <2> QED
      BY <1>1, <1>3, <2>1 DEF CopyIn
  <1> QED
    BY <1>4, <1>5

\* The sessions: a teardown that commits empties its organisations, a copy brings
\* one table of the dataset, and nothing else changes a row.
LEMMA WorkContent ==
  ASSUME SwapType, PhaseInv, SequenceInv, ContentInv, Work
  PROVE  ContentInv'
  <1> SUFFICES ASSUME NEW s \in sessions,
                      \/ FailStatement(s) \/ CommitTeardown(s) \/ CopyTable(s)
                      \/ ReadHighest(s) \/ SetSequence(s)
               PROVE  ContentInv'
    BY DEF Work
  <1>1. s.rc = "running" /\ UNCHANGED <<scaffolding, files, pc, run>>
    BY DEF FailStatement, CommitTeardown, CopyTable, ReadHighest, SetSequence, At, database
  <1>2. SUFFICES ASSUME ~run.overlapped, ~run.lost
                 PROVE  (/\ pc = "tearing" => \A z \in sessions : TeardownInv(z)
                         /\ pc \in {"count", "vacuum", "load"} => \A o \in Orgs : Emptied(o)
                         /\ pc = "loading" => \A o \in Orgs, t \in TableSet : rows[o][t] \subseteq {run.set}
                         /\ pc = "loading" /\ ~run.torn => \A z \in sessions : LoadInv(z)
                         /\ pc \in {"seqfix", "fixing", "finish", "done"} /\ ~run.torn => Loaded)'
    BY <1>1 DEF ContentInv
  <1>3. /\ s.phase \in SessionPhases /\ s.set = run.set
        /\ pc \in {WaitFor(s.phase), "down", "failed"}
        /\ Head(s.todo).op \in Ops(s.phase)
        /\ CommitTeardown(s) => s.phase = "td"
        /\ CopyTable(s) => s.phase = "load"
        /\ SetSequence(s) => Sequencer(s) /\ Head(s.todo).op \in {"setval", "raise"}
    BY <1>1, <1>2, AtWork
  <1>4. /\ FailStatement(s) => Becomes(s, Failed(s)) /\ rows' = rows
        /\ ReadHighest(s) => Becomes(s, HasRead(s)) /\ rows' = rows
        /\ SetSequence(s) => Becomes(s, Advanced(s)) /\ rows' = rows
        /\ CommitTeardown(s) => Becomes(s, Advanced(s))
        /\ CopyTable(s) => Becomes(s, Advanced(s))
    BY DEF FailStatement, Stop, Failed, ReadHighest, HasRead, SetSequence, CommitTeardown,
           CopyTable, Advance, Advanced, database
  <1>5. CASE pc = "tearing"
    <2>1. s.phase = "td" /\ ~CopyTable(s) /\ ~SetSequence(s)
      BY <1>3, <1>5 DEF WaitFor, SessionPhases, Sequencer
    <2>2. \A z \in sessions : TeardownInv(z)
      BY <1>2, <1>5 DEF ContentInv
    <2>3. CASE FailStatement(s) \/ ReadHighest(s)
      <3>1. PICK next : Becomes(s, next) /\ next.rc # "ok" /\ rows' = rows
        BY <1>1, <1>4, <2>3, SessionStays
      <3> QED
        BY <1>1, <1>5, <2>2, <3>1 DEF Becomes, TeardownInv, Emptied
    <2>4. CASE CommitTeardown(s)
      <3>1. /\ Becomes(s, Advanced(s)) /\ Advanced(s).orgs = s.orgs
            /\ \A i \in DOMAIN s.orgs : s.orgs[i] \in Orgs
            /\ \A z \in sessions : \A i \in DOMAIN z.orgs : z.orgs[i] \in Orgs
        BY <1>1, <1>4, <2>4, SessionStays, LenProperties DEF SwapType, SessionType, Session
      <3>2. /\ \A i \in DOMAIN s.orgs : Emptied(s.orgs[i])'
            /\ \A o \in Orgs : Emptied(o) => Emptied(o)'
        BY <2>4, <3>1 DEF CommitTeardown, Emptied
      <3> QED
        BY <1>1, <1>5, <2>2, <3>1, <3>2 DEF Becomes, TeardownInv
    <2> QED
      BY <2>1, <2>3, <2>4
  <1>6. CASE pc = "loading"
    <2>1. s.phase = "load" /\ ~CommitTeardown(s)
      BY <1>3, <1>6 DEF WaitFor, SessionPhases
    <2>2. \A o \in Orgs, t \in TableSet : rows[o][t] \subseteq {run.set}
      BY <1>2, <1>6 DEF ContentInv
    <2>3. /\ \A o \in Orgs, t \in TableSet :
                /\ rows'[o][t] \subseteq {run.set}
                /\ rows[o][t] = {run.set} => rows'[o][t] = {run.set}
          /\ CopyTable(s) => /\ Head(s.todo).op = "copy" /\ Head(s.todo) \in Line
                             /\ rows'[Head(s.todo).org][Head(s.todo).table] = {run.set}
      <3>1. CASE CopyTable(s)
        <4>1. PICK line \in Line : line = Head(s.todo) /\ line.op = "copy"
          <5>1. Head(s.todo).op = "copy"
            BY <3>1, Zenon DEF CopyTable, At
          <5> QED
            BY <1>1, <5>1, SessionStays
        <4>2. /\ line.org \in Orgs /\ line.table \in TableSet
              /\ rows' = Copied(line.org, line.table, run.set)
          <5>1. line.org \in Orgs /\ line.table \in TableSet
            BY DEF Line
          <5>2. rows' = Copied(line.org, line.table, run.set)
            BY <1>3, <3>1, <4>1, Zenon DEF CopyTable, Copied
          <5> QED
            BY <5>1, <5>2
        <4>3. run.set \in Datasets
          BY <1>1, <1>3, SessionStays DEF Session
        <4>4. /\ rows'[line.org][line.table] = rows[line.org][line.table] \cup {run.set}
              /\ \A o \in Orgs, t \in TableSet :
                    rows'[o][t] = rows[o][t] \/ rows'[o][t] = rows[o][t] \cup {run.set}
          BY <4>2, <4>3, CopiedIs
        <4>5. rows'[line.org][line.table] = {run.set}
          <5>1. rows[line.org][line.table] \subseteq {run.set}
            BY <2>2, <4>2
          <5> QED
            BY <4>4, <5>1
        <4>6. ASSUME NEW o \in Orgs, NEW t \in TableSet
              PROVE  /\ rows'[o][t] \subseteq {run.set}
                     /\ rows[o][t] = {run.set} => rows'[o][t] = {run.set}
          <5>1. rows[o][t] \subseteq {run.set}
            BY <2>2
          <5>2. rows'[o][t] = rows[o][t] \/ rows'[o][t] = rows[o][t] \cup {run.set}
            BY <4>4
          <5> QED
            BY <5>1, <5>2
        <4> QED
          BY <4>1, <4>5, <4>6
      <3>2. CASE ~CopyTable(s)
        BY <1>4, <2>1, <2>2, <3>2
      <3> QED
        BY <3>1, <3>2
    <2>4. ASSUME ~run.torn PROVE \A z \in sessions' : LoadInv(z)'
      <3>1. \A z \in sessions : LoadInv(z)
        BY <1>2, <1>6, <2>4 DEF ContentInv
      <3>2. \A z \in sessions : \A i \in DOMAIN z.orgs : z.orgs[i] \in Orgs
        BY LenProperties DEF SwapType, SessionType, Session
      <3>3. \A z \in sessions : LoadInv(z)'
        BY <1>1, <2>3, <3>1, <3>2 DEF LoadInv
      <3>4. CASE FailStatement(s)
        BY <1>1, <1>4, <3>3, <3>4, SessionStays DEF Becomes, LoadInv
      <3>5. CASE ReadHighest(s)
        <4>1. PICK next : next = HasRead(s)
          OBVIOUS
        <4>2. /\ Becomes(s, next) /\ next.todo = s.todo /\ next.orgs = s.orgs
              /\ next.phase = s.phase
          BY <1>1, <1>4, <3>5, <4>1, SessionStays
        <4> QED
          BY <1>1, <3>3, <4>2 DEF Becomes, LoadInv
      <3>6. CASE CopyTable(s) \/ SetSequence(s)
        <4>1. PICK next : /\ Becomes(s, next) /\ next.todo = Tail(s.todo) /\ next.orgs = s.orgs
                          /\ next.phase = s.phase
          BY <1>1, <1>4, <3>6, SessionStays
        <4>2. ASSUME NEW i \in DOMAIN s.orgs, NEW t \in TableSet
              PROVE  rows'[s.orgs[i]][t] = {run.set} \/ CopyIn(Tail(s.todo), s.orgs[i], t)
          <5>1. PICK o \in Orgs : o = s.orgs[i]
            BY <3>2
          <5>2. rows'[o][t] = {run.set} \/ CopyIn(s.todo, o, t)
            BY <1>1, <2>1, <3>3, <5>1 DEF LoadInv
          <5>3. CASE CopyIn(s.todo, o, t)
            <6>1. \/ CopyIn(Tail(s.todo), o, t)
                  \/ Head(s.todo) = [op |-> "copy", org |-> o, table |-> t]
              BY <1>1, <5>3, SessionStays, RestCopies
            <6>2. CASE Head(s.todo) = [op |-> "copy", org |-> o, table |-> t]
              <7>1. /\ Head(s.todo).op = "copy" /\ Head(s.todo).org = o
                    /\ Head(s.todo).table = t
                BY <6>2
              <7> QED
                BY <1>3, <2>3, <3>6, <5>1, <7>1
            <6> QED
              BY <5>1, <6>1, <6>2
          <5> QED
            BY <5>1, <5>2, <5>3
        <4> QED
          BY <1>1, <3>3, <4>1, <4>2 DEF Becomes, LoadInv
      <3> QED
        BY <2>1, <3>4, <3>5, <3>6
    <2> QED
      BY <1>1, <1>6, <2>3, <2>4
  <1>7. CASE pc = "fixing"
    <2>1. rows' = rows
      BY <1>3, <1>4, <1>7 DEF WaitFor, SessionPhases
    <2> QED
      BY <1>1, <1>2, <1>7, <2>1 DEF ContentInv, Loaded
  <1>8. CASE pc \in {"down", "failed"}
    BY <1>1, <1>8
  <1> QED
    BY <1>3, <1>5, <1>6, <1>7, <1>8 DEF WaitFor

\* A phase that is over without a failure: each of its organisations has a session
\* that ended well.
LEMMA AllWell ==
  ASSUME NEW phase, AllFinished(phase), Bad(phase) = {}, NEW o \in Orgs
  PROVE  \E s \in sessions : /\ s.phase = phase /\ s.rc = "ok"
                             /\ \E i \in DOMAIN s.orgs : s.orgs[i] = o
  <1>1. PICK w \in Wanted(phase) : \E i \in DOMAIN w : w[i] = o
    BY WantedIs
  <1>2. PICK s \in Own(phase) : s.orgs = w /\ s.rc \in {"ok", "failed"}
    BY <1>1 DEF AllFinished
  <1>3. s \in sessions /\ s.phase = phase /\ s.rc = "ok"
    BY <1>2 DEF Own, Bad
  <1> QED
    BY <1>1, <1>2, <1>3

\* The driver: it goes on to load what its teardown has emptied, and to the end
\* when its load has brought every table of every organisation.
LEMMA DriverContent ==
  ASSUME SwapType, PhaseInv, SequenceInv, ContentInv, Start \/ Proceed \/ Crash
  PROVE  ContentInv'
  <1> USE DEF Goto, Exit
  <1>0. run \in Run /\ run.set \in Datasets /\ files \in [Datasets -> [Orgs -> Extents]]
    BY PilotAssumption DEF SwapType, Run, PilotAssumption
  <1>1. CASE Start \/ Crash
    <2>1. pc' \in {"fetch", "down"}
      BY <1>1 DEF Start, Crash
    <2>2. "down" \notin Active
      BY DEF Active, Waiting
    <2> QED
      BY <2>1, <2>2 DEF ContentInv
  <1>2. CASE Fetch
    <2>1. PICK extracted \in [Orgs -> Extents] :
             /\ files' = [files EXCEPT ![run.set] = extracted]
             /\ run' = [run EXCEPT !.torn = \E o \in Orgs : extracted[o] # "whole"]
      BY <1>2 DEF Fetch
    <2>2. /\ run'.set = run.set /\ run'.torn = (\E o \in Orgs : extracted[o] # "whole")
          /\ files'[run.set] = extracted /\ pc' = "prove"
      BY <1>0, <1>2, <2>1 DEF Fetch, Run
    <2> QED
      BY <2>2 DEF ContentInv
  <1>3. CASE ProveTargets \/ CreateIndexes \/ CountRows \/ DropIndexes
    <2>1. /\ UNCHANGED <<rows, files, sessions, run>>
          /\ \/ pc = "prove" /\ pc' \in {"indexes", "failed"}
             \/ pc = "indexes" /\ pc' \in {"teardown", "failed"}
             \/ pc = "count" /\ pc' \in {"vacuum", "failed"}
             \/ pc = "vacuum" /\ pc' = "load" /\ scaffolding' = FALSE
             \/ pc = "vacuum" /\ pc' = "failed"
      BY <1>3 DEF ProveTargets, CreateIndexes, CountRows, DropIndexes, database
    <2>2. Active' = Active /\ {"prove", "indexes", "count", "vacuum"} \subseteq Active
          /\ "failed" \notin Active
      BY DEF Active, Waiting
    <2> QED
      BY <2>1, <2>2 DEF ContentInv, Emptied
  <1>4. CASE StartTeardown
    <2>1. PICK cut \in SUBSET Wanted("td") :
             /\ Launch("td", cut)
             /\ run' = [run EXCEPT !.lost = cut # {}]
      BY <1>4 DEF StartTeardown
    <2>r. /\ run'.set = run.set /\ run'.torn = run.torn /\ run'.overlapped = run.overlapped
          /\ run'.lost = (cut # {})
      BY <1>0, <2>1 DEF Run
    <2>2. PICK started \in SUBSET Wanted("td") :
             sessions' = sessions \cup {New("td", w, cut) : w \in started}
      BY <2>1 DEF Launch, New
    <2>3. pc = "teardown" /\ pc' = "tearing" /\ UNCHANGED <<database, files>>
      BY <1>4 DEF StartTeardown
    <2>4. ASSUME cut = {} PROVE \A w \in started : New("td", w, cut).rc = "running"
      BY <2>4, ScriptIs, FileIs DEF New, SessionPhases
    <2>5. ~run.overlapped => sessions = {}
      <3>1. pc \in Before("td") /\ pc \in Before("load") /\ pc \in Before("seqfix")
        BY <2>3 DEF Before
      <3> QED
        BY <3>1 DEF SequenceInv, PhaseInv, OwnSession, SwapType, SessionType, Session,
                    SessionPhases
    <2>6. ASSUME ~run'.overlapped, ~run'.lost PROVE \A s \in sessions' : TeardownInv(s)'
      BY <2>r, <2>2, <2>4, <2>5, <2>6 DEF TeardownInv
    <2>7. "teardown" \in Active
      BY DEF Active
    <2> QED
      BY <2>r, <2>3, <2>6, <2>7 DEF ContentInv, database
  <1>5. CASE TeardownOver
    <2>1. /\ pc = "tearing" /\ UNCHANGED <<database, files, sessions>>
          /\ \/ pc' = "failed" /\ run' = run
             \/ pc' = "count" /\ run' = run /\ AllFinished("td") /\ Bad("td") = {}
             \/ pc' = "count" /\ run' = [run EXCEPT !.lost = TRUE]
      BY <1>5 DEF TeardownOver, Collect
    <2>2. "tearing" \in Active /\ "failed" \notin Active
      BY DEF Active, Waiting
    <2>3. CASE pc' = "count" /\ run' = [run EXCEPT !.lost = TRUE]
      <3>1. run'.lost /\ run'.torn = run.torn /\ run'.set = run.set
        BY <1>0, <2>3 DEF Run
      <3> QED
        BY <2>1, <2>2, <2>3, <3>1 DEF ContentInv, database
    <2>4. CASE pc' = "count" /\ run' = run /\ AllFinished("td") /\ Bad("td") = {}
      <3>1. ASSUME ~run.overlapped, ~run.lost, NEW o \in Orgs PROVE Emptied(o)
        <4>1. PICK s \in sessions : s.phase = "td" /\ s.rc = "ok"
                                    /\ \E i \in DOMAIN s.orgs : s.orgs[i] = o
          BY <2>4, AllWell
        <4> QED
          BY <2>1, <3>1, <4>1 DEF ContentInv, TeardownInv
      <3> QED
        BY <2>1, <2>2, <2>4, <3>1 DEF ContentInv, Emptied, database
    <2> QED
      BY <2>1, <2>2, <2>3, <2>4 DEF ContentInv, database
  <1>6. CASE StartLoad
    <2>1. /\ pc = "load" /\ pc' = "loading" /\ UNCHANGED <<database, files, run>>
          /\ Launch("load", {})
      BY <1>6 DEF StartLoad
    <2>2. PICK started \in SUBSET Wanted("load") :
             sessions' = sessions \cup {New("load", w, {}) : w \in started}
      BY <2>1 DEF Launch, New
    <2>3. "load" \in Active /\ pc \in Before("load")
      BY <2>1 DEF Active, Before
    <2>4. ASSUME ~run.overlapped, ~run.torn, NEW s \in sessions' PROVE LoadInv(s)'
      <3>1. CASE s \in sessions
        BY <2>3, <2>4, <3>1 DEF SequenceInv, PhaseInv, OwnSession, LoadInv
      <3>2. CASE s \notin sessions
        <4>1. PICK w \in Wanted("load") : s = New("load", w, {})
          BY <2>2, <2>4, <3>2
        <4>2. s.orgs = w /\ s.todo = Script("load", w)
          BY <4>1, FileIs DEF New, SessionPhases
        <4>3. \A o \in Orgs : files[run.set][o] = "whole"
          BY <2>1, <2>3, <2>4 DEF ContentInv
        <4>4. \A i \in DOMAIN w, t \in TableSet : CopyIn(Script("load", w), w[i], t)
          BY <4>3, ScriptIs DEF SessionPhases
        <4> QED
          BY <4>2, <4>4 DEF LoadInv
      <3> QED
        BY <3>1, <3>2
    <2> QED
      BY <2>1, <2>3, <2>4 DEF ContentInv, Emptied, database
  <1>7. CASE LoadOver
    <2>1. /\ pc = "loading" /\ UNCHANGED <<database, files, sessions>>
          /\ \/ pc' = "failed" /\ run' = run
             \/ pc' \in {"seqfix", "finish"} /\ run' = run /\ AllFinished("load")
                /\ Bad("load") = {}
             \/ pc' \in {"seqfix", "finish"} /\ run' = [run EXCEPT !.lost = TRUE]
      BY <1>7 DEF LoadOver, NothingLaunched, Collect
    <2>2. "loading" \in Active /\ "failed" \notin Active
      BY DEF Active, Waiting
    <2>3. CASE pc' \in {"seqfix", "finish"} /\ run' = [run EXCEPT !.lost = TRUE]
      <3>1. run'.lost /\ run'.torn = run.torn /\ run'.set = run.set
        BY <1>0, <2>3 DEF Run
      <3> QED
        BY <2>1, <2>2, <2>3, <3>1 DEF ContentInv, database
    <2>4. CASE pc' \in {"seqfix", "finish"} /\ run' = run /\ AllFinished("load")
               /\ Bad("load") = {}
      <3>1. ASSUME ~run.overlapped, ~run.lost, ~run.torn, NEW o \in Orgs, NEW t \in TableSet
            PROVE  rows[o][t] = {run.set}
        <4>1. PICK s \in sessions : s.phase = "load" /\ s.rc = "ok"
                                    /\ \E i \in DOMAIN s.orgs : s.orgs[i] = o
          BY <2>4, AllWell
        <4>2. s.todo = <<>>
          BY <4>1 DEF SwapType, SessionType
        <4>3. ~CopyIn(<<>>, o, t)
          BY EmptySeq DEF CopyIn
        <4>4. LoadInv(s)
          BY <2>1, <3>1, <4>1 DEF ContentInv
        <4> QED
          BY <4>1, <4>2, <4>3, <4>4 DEF LoadInv
      <3> QED
        BY <2>1, <2>2, <2>4, <3>1 DEF ContentInv, Loaded, database
    <2> QED
      BY <2>1, <2>2, <2>3, <2>4 DEF ContentInv, database
  <1>8. CASE StartSeqfix
    <2>1. /\ pc = "seqfix" /\ pc' = "fixing" /\ UNCHANGED <<database, files, run>>
          /\ "seqfix" \in Active
      BY <1>8 DEF StartSeqfix, Active
    <2> QED
      BY <2>1 DEF ContentInv, Loaded, database
  <1>9. CASE SeqfixOver
    <2>1. /\ pc = "fixing" /\ pc' \in {"failed", "finish"} /\ run' = run
          /\ UNCHANGED <<database, files, sessions>> /\ "fixing" \in Active
      BY <1>9 DEF SeqfixOver, Collect, Active, Waiting
    <2>2. "failed" \notin Active
      BY DEF Active, Waiting
    <2> QED
      BY <2>1, <2>2 DEF ContentInv, Loaded, database
  <1>10. CASE Finish
    <2>1. /\ pc = "finish" /\ pc' \in {"failed", "done"} /\ run' = run
          /\ UNCHANGED <<database, sessions>>
      BY <1>10 DEF Finish
    <2>2. "failed" \notin Active /\ "done" \notin Active
      BY DEF Active, Waiting
    <2> QED
      BY <2>1, <2>2 DEF ContentInv, Loaded, database
  <1> QED
    BY <1>1, <1>2, <1>3, <1>4, <1>5, <1>6, <1>7, <1>8, <1>9, <1>10 DEF Proceed

-----------------------------------------------------------------------------
(* The theorems.                                                            *)

\* Nothing changes when nothing happens.
LEMMA Stutter ==
  ASSUME UNCHANGED vars
  PROVE  /\ SwapType => SwapType'
         /\ PhaseInv => PhaseInv'
         /\ SequenceInv => SequenceInv'
         /\ ContentInv => ContentInv'
  <1>1. UNCHANGED <<rows, lastValue, scaffolding, files, sessions, pc, run>>
    BY DEF vars, database
  <1>2. (\A t : Highest(t)' = Highest(t)) /\ (\A phase : Ops(phase)' = Ops(phase))
    BY <1>1, SameHighest DEF Ops
  <1>3. SwapType => SwapType'
    BY <1>1 DEF SwapType, SessionType
  <1>4. PhaseInv => PhaseInv'
    BY <1>1 DEF PhaseInv, OwnSession, OnePerOrgs, LatestAtWork, Proved, Wanted
  <1>5. SequenceInv => SequenceInv'
    <2>1. \A s : SequencerInv(s) => SequencerInv(s)'
      BY <1>1, <1>2 DEF SequencerInv, OnlyItsOps, ReadIsHighest, WillCover, Sequencer, Covers
    <2> QED
      BY <1>1, <1>2, <2>1 DEF SequenceInv, Covers
  <1>6. ContentInv => ContentInv'
    BY <1>1 DEF ContentInv, TeardownInv, LoadInv, Emptied, Loaded
  <1> QED
    BY <1>3, <1>4, <1>5, <1>6

\* The four layers of the invariant, each resting on the ones before it.
LEMMA SwapInvariant == Spec => [](SwapType /\ PhaseInv /\ SequenceInv /\ ContentInv)
  <1> DEFINE Inv == SwapType /\ PhaseInv /\ SequenceInv /\ ContentInv
  <1>1. Init => Inv
    <2> SUFFICES ASSUME Init PROVE Inv
      OBVIOUS
    <2>1. sessions = {} /\ pc = "idle"
      BY DEF Init
    <2>2. "idle" \notin Active
      BY DEF Active, Waiting
    <2> QED
      BY <2>1, <2>2, InitType
         DEF PhaseInv, SequenceInv, ContentInv, Entitled, OnePerOrgs, LatestAtWork
  <1>2. Inv /\ [Next]_vars => Inv'
    <2> SUFFICES ASSUME Inv, [Next]_vars PROVE Inv'
      OBVIOUS
    <2>1. CASE Start \/ Proceed \/ Crash
      BY <2>1, DriverType, StartPhase, DriverPhase, DriverSequence, DriverContent
    <2>2. CASE Work
      BY <2>2, WorkType, WorkPhase, WorkSequence, WorkContent
    <2>3. CASE UNCHANGED vars
      BY <2>3, Stutter
    <2> QED
      BY <2>1, <2>2, <2>3 DEF Next
  <1> QED
    BY <1>1, <1>2, PTL DEF Spec

\* Whatever dies, fails or overlaps: while a teardown of the current run is at
\* work, the archive that replaces what it deletes has a manifest for every
\* organisation.
THEOREM EmptiedOnlyWhenProved == Spec => []ProvedBeforeEmptied
  <1>1. PhaseInv => ProvedBeforeEmptied
    BY DEF PhaseInv, OwnSession, Proved, ProvedBeforeEmptied, Running
  <1> QED
    BY <1>1, SwapInvariant, PTL

\* A run that says it is done has loaded its dataset into every table of every
\* organisation, nothing else is there and no scaffolding is left, whatever earlier
\* runs left half done, provided that none of their sessions was still at work, the
\* archive was extracted whole and the verdicts were read.
THEOREM DoneMeansLoaded == Spec => []DoneIsLoaded
  <1>1. ContentInv => DoneIsLoaded
    BY DEF ContentInv, DoneIsLoaded
  <1> QED
    BY <1>1, SwapInvariant, PTL

\* When a run that had the database to itself is done, no id sequence stands below
\* an id of its table, in either mode, for any pilot, tables and datasets, torn
\* archives and lost verdicts included.
THEOREM SequencesAreCovered == Spec => []SequencesCover
  <1>1. SequenceInv => SequencesCover
    BY DEF SequenceInv, SequencesCover, Covers
  <1> QED
    BY <1>1, SwapInvariant, PTL

\* A sequence that a session of such a run sets back is not set below an id that is
\* committed: what the session read is still the highest when it sets it.
THEOREM NothingIsSetBack == Spec => NeverSetBack
  <1> DEFINE Kept == \A t \in TableSet :
                        lastValue'[t] < lastValue[t] /\ ~run.overlapped
                            => lastValue'[t] >= Highest(t)
  <1>1. SwapType /\ PhaseInv /\ SequenceInv /\ [Next]_vars => [Kept]_vars
    <2> SUFFICES ASSUME SwapType, PhaseInv, SequenceInv, Next, ~run.overlapped,
                        NEW t \in TableSet, lastValue'[t] < lastValue[t]
                 PROVE  lastValue'[t] >= Highest(t)
      OBVIOUS
    <2>1. lastValue' # lastValue /\ lastValue[t] \in Nat
      BY DEF SwapType
    <2>2. PICK s \in sessions : SetSequence(s)
      <3>1. ~(StartTeardown \/ StartLoad \/ StartSeqfix)
        BY <2>1 DEF StartTeardown, StartLoad, StartSeqfix, database
      <3>2. ~(TeardownOver \/ LoadOver \/ SeqfixOver)
        BY <2>1 DEF TeardownOver, LoadOver, NothingLaunched, SeqfixOver, Collect, database
      <3>3. ~(Start \/ Fetch \/ ProveTargets \/ CreateIndexes \/ CountRows \/ DropIndexes
              \/ Finish \/ Crash)
        BY <2>1 DEF Start, Fetch, ProveTargets, CreateIndexes, CountRows, DropIndexes,
               Finish, Crash, database
      <3>4. Work
        BY <3>1, <3>2, <3>3 DEF Next, Proceed
      <3> QED
        BY <2>1, <3>4 DEF Work, FailStatement, CommitTeardown, CopyTable, ReadHighest,
               database
    <2>3. s.rc = "running" /\ s.seen \in Nat /\ s.seen = Highest(Head(s.todo).table)
      BY <2>2, AtWork, SessionStays DEF SetSequence, Session
    <2>4. lastValue'[t] = lastValue[t] \/
             (t = Head(s.todo).table /\ lastValue'[t] \in {s.seen, Raised(s.seen, lastValue[t])})
      BY <2>2 DEF SetSequence, SwapType
    <2> QED
      BY <2>1, <2>3, <2>4 DEF Raised
  <1>2. Spec => [][Kept]_vars
    <2> HIDE DEF Kept
    <2> QED
      BY <1>1, SwapInvariant, PTL DEF Spec
  <1> QED
    BY <1>2 DEF NeverSetBack
=============================================================================
