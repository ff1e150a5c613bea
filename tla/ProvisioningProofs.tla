------------------------- MODULE ProvisioningProofs -------------------------
(***************************************************************************)
(* Proofs about Provisioning, for every recipe, number of polls, limit and *)
(* number of passes.                                                       *)
(***************************************************************************)
EXTENDS Provisioning, TLAPS, SequenceTheorems, FiniteSetTheorems

\* Every operator keeps a log of its own.
OwnLogs == \A o, p \in Operators : LogOf[o] = LogOf[p] => o = p

\* Nobody else runs the script.
Alone == \A o, p \in Operators : o = p

-----------------------------------------------------------------------------
(* The inductive invariants.                                                *)

Listing == {"next", "probe", "mark"}
InImport == Importing \cup {"landed", "died"}

\* The in-flight file names the tenant from before it can exist to after its row
\* is durable, and nothing at the points where the next tenant is looked at.
TraceInv ==
    /\ \A o \in Operators :
          /\ pc[o] \in Listing => inflight[LogOf[o]] = NoTenant
          /\ pc[o] \in InImport => inflight[LogOf[o]] = InHand(o)
          /\ pc[o] = "clear" => unlogged[LogOf[o]] = {}
    /\ StartsAreTraced

\* A tenant is created only if it is absent, and the one in hand is not imported
\* into before it is uploaded to.
ImportAt(o) ==
    /\ pc[o] \in {"mark", "create"} => InHand(o) \notin orgs
    /\ pc[o] \in {"user", "upload"} => imports[InHand(o)] = 0

\* An absent organisation carries no import.
ImportInv ==
    /\ \A t \in Tenants : t \notin orgs => imports[t] = 0
    /\ \A o \in Operators : ImportAt(o)
    /\ ImportedOnce

\* What a pass has walked past is on the server, or the pass has failures to
\* report.
Covered(o, n) ==
    memory[o].failures = 0 => \A i \in memory[o].first..n : Recipe[i] \in orgs

\* Where the tenant in hand is on the server.
OnServer == {"probe", "user", "upload", "poll", "check", "landed"}

\* Where what was walked past counts: at work, or ended with 0.
Accountable(o) ==
    \/ pc[o] \in Listing \cup InImport \cup {"clear"}
    \/ pc[o] = "exited" /\ exit[o] = 0

CoverAt(o) ==
    /\ Accountable(o) => Covered(o, memory[o].at - 1)
    /\ pc[o] \in OnServer => InHand(o) \in orgs
    /\ pc[o] = "clear" => Covered(o, memory[o].at)
    /\ pc[o] = "exited" /\ exit[o] = 0 => memory[o].failures = 0

CoverInv == \A o \in Operators : CoverAt(o)

\* No pass looks for another tenant having started one since it was asked to stop.
StopAt(o) ==
    /\ memory[o].sinceStop > 0 => memory[o].stop
    /\ pc[o] \in Listing => memory[o].sinceStop = 0
    /\ memory[o].sinceStop <= 1

StopInv == \A o \in Operators : StopAt(o)

\* What a running pass skipped is still there: nobody removes an organisation
\* before the pass is over.
SkipAt(o) ==
    /\ pc[o] \notin Resting => memory[o].verified \subseteq orgs
    /\ \A t \in memory[o].verified : t \in orgs => concepts[t] = "all"

SkipInv == \A o \in Operators : SkipAt(o)

-----------------------------------------------------------------------------
(* Facts about the recipe.                                                  *)

\* The recipe is a function from places to tenants, with a first place.
LEMMA RecipePlaces ==
  /\ Len(Recipe) \in Nat \ {0} /\ DOMAIN Recipe = 1..Len(Recipe)
  /\ Recipe \in [1..Len(Recipe) -> Tenants]
  BY RecipeAssumption, LenProperties, EmptySeq DEF RecipeAssumption

\* A server never has infinitely many organisations: GET /organisation can be counted.
LEMMA OrgsAreCounted ==
  ASSUME TypeOK, NEW list \in SUBSET orgs
  PROVE  Cardinality(list) \in Nat
  <1>1. IsFiniteSet(1..Len(Recipe))
    BY RecipePlaces, FS_Interval
  <1>2. Recipe \in Surjection(1..Len(Recipe), Tenants)
    BY RecipePlaces DEF Surjection, Tenants
  <1>3. IsFiniteSet(Tenants)
    BY <1>1, <1>2, FS_Surjection
  <1>4. IsFiniteSet(Tenants \cup Others)
    BY <1>3, RecipeAssumption, FS_Union DEF RecipeAssumption
  <1>5. list \in SUBSET (Tenants \cup Others)
    BY DEF TypeOK
  <1>6. IsFiniteSet(list)
    BY <1>4, <1>5, FS_Subset
  <1> QED
    BY <1>6, FS_CardinalityType

\* Where a pass has a tenant in hand, it is one of the recipe's.
LEMMA HandType ==
  ASSUME TypeOK, NEW o \in Operators,
         memory[o].at <= Len(Recipe)
  PROVE  memory[o].at \in DOMAIN Recipe /\ InHand(o) \in Tenants
  <1>1. memory[o] \in Memory
    BY DEF TypeOK
  <1>2. memory[o].at \in 1..(Len(Recipe) + 1)
    BY <1>1 DEF Memory
  <1> QED
    BY <1>2, RecipePlaces DEF InHand

\* A fresh pass remembers nothing.
LEMMA FreshMemory ==
  ASSUME NEW from \in 1..(Len(Recipe) + 1)
  PROVE  StartingAt(from) \in Memory
  BY RecipePlaces, LimitAssumption DEF StartingAt, Memory, LimitAssumption

-----------------------------------------------------------------------------
(* Type correctness.                                                        *)

\* The script has not run: everything is well typed.
LEMMA InitTypeOK == Init => TypeOK
  <1>1. 1 \in 1..(Len(Recipe) + 1)
    BY RecipePlaces
  <1> QED
    BY <1>1, FreshMemory, RecipePlaces
    DEF Init, TypeOK, HoldsTenant, Amounts, Locations, Importing

\* The tenant in hand exists wherever the script uses it.
LEMMA InHandNow ==
  ASSUME TypeOK, NEW o \in Operators, pc[o] \in InImport \cup {"probe", "mark", "clear"}
  PROVE  InHand(o) \in Tenants /\ memory[o].at \in 1..Len(Recipe)
  <1>1. memory[o].at <= Len(Recipe)
    BY DEF TypeOK, HoldsTenant, InImport
  <1> QED
    BY <1>1, HandType, RecipePlaces

\* What a pass remembers, field by field, and what it may come to remember.
LEMMA MemoryFields ==
  ASSUME NEW m \in Memory
  PROVE  /\ m.at \in 1..(Len(Recipe) + 1) /\ m.first \in 1..(Len(Recipe) + 1)
         /\ m.baseline \in Nat /\ m.done \in Nat /\ m.failures \in Nat
         /\ m.polls \in 0..(Polls - 1) /\ m.sinceStop \in Nat
         /\ m.verified \in SUBSET Tenants /\ m.unverified \in SUBSET Tenants
         /\ m.stop \in BOOLEAN
  BY RecipePlaces DEF Memory

\* It may move to another tenant.
LEMMA MemoryMoves ==
  ASSUME NEW m \in Memory, NEW n \in 1..(Len(Recipe) + 1)
  PROVE  [m EXCEPT !.at = n] \in Memory
  BY DEF Memory

\* It may note what it skips.
LEMMA MemoryNotes ==
  ASSUME NEW m \in Memory, NEW S \in SUBSET Tenants
  PROVE  [m EXCEPT !.verified = S] \in Memory /\ [m EXCEPT !.unverified = S] \in Memory
  BY DEF Memory

\* It may count, and be asked to stop.
LEMMA MemoryCounts ==
  ASSUME NEW m \in Memory, NEW n \in Nat, NEW b \in BOOLEAN
  PROVE  /\ [m EXCEPT !.done = n] \in Memory
         /\ [m EXCEPT !.failures = n] \in Memory
         /\ [m EXCEPT !.sinceStop = n] \in Memory
         /\ [m EXCEPT !.baseline = n] \in Memory
         /\ [m EXCEPT !.stop = b] \in Memory
  BY DEF Memory

\* A pass that remembers something new stays a pass, and the others forget nothing.
LEMMA Remembering ==
  ASSUME TypeOK, NEW o \in Operators, NEW m \in Memory, Remember(o, m)
  PROVE  /\ memory' \in [Operators -> Memory] /\ memory'[o] = m
         /\ \A p \in Operators \ {o} : memory'[p] = memory[p]
  <1>1. memory \in [Operators -> Memory]
    BY DEF TypeOK
  <1> QED
    BY <1>1 DEF Remember

\* A probe ends the pass, or goes on to the next tenant with a note of the skip.
LEMMA ProbeSkips ==
  ASSUME TypeOK, NEW o \in Operators, Probe(o), InHand(o) \in Tenants
  PROVE  \/ Exit(o, 5) /\ memory' = memory
         \/ \E m \in Memory :
               /\ Skip(o, m) /\ m.at = memory[o].at /\ m.first = memory[o].first
               /\ m.failures = memory[o].failures /\ m.stop = memory[o].stop
               /\ m.sinceStop = memory[o].sinceStop
               /\ \/ m.verified = memory[o].verified
                  \/ /\ m.verified = memory[o].verified \cup {InHand(o)}
                     /\ ~ShortOfConcepts(concepts[InHand(o)])
  <1>1. PICK r \in Memory : r = memory[o]
    BY DEF TypeOK
  <1>2. /\ r.verified \cup {InHand(o)} \in SUBSET Tenants
        /\ r.unverified \cup {InHand(o)} \in SUBSET Tenants
    BY MemoryFields
  <1>3. CASE Exit(o, 5) /\ UNCHANGED memory
    BY <1>3
  <1>4. CASE /\ ~ShortOfConcepts(concepts[InHand(o)])
             /\ Skip(o, [memory[o] EXCEPT !.verified = @ \cup {InHand(o)}])
    <2> DEFINE m == [r EXCEPT !.verified = r.verified \cup {InHand(o)}]
    <2>1. m \in Memory
      BY <1>2, MemoryNotes
    <2>2. /\ m.at = r.at /\ m.first = r.first /\ m.failures = r.failures
          /\ m.stop = r.stop /\ m.sinceStop = r.sinceStop
          /\ m.verified = r.verified \cup {InHand(o)}
      BY DEF Memory
    <2>3. Skip(o, m)
      BY <1>1, <1>4
    <2> HIDE DEF m
    <2> QED
      BY <1>1, <1>4, <2>1, <2>2, <2>3
  <1>5. CASE Skip(o, [memory[o] EXCEPT !.unverified = @ \cup {InHand(o)}])
    <2> DEFINE m == [r EXCEPT !.unverified = r.unverified \cup {InHand(o)}]
    <2>1. m \in Memory
      BY <1>2, MemoryNotes
    <2>2. /\ m.at = r.at /\ m.first = r.first /\ m.failures = r.failures
          /\ m.stop = r.stop /\ m.sinceStop = r.sinceStop /\ m.verified = r.verified
      BY DEF Memory
    <2>3. Skip(o, m)
      BY <1>1, <1>5
    <2> HIDE DEF m
    <2> QED
      BY <1>1, <2>1, <2>2, <2>3
  <1> QED
    BY <1>3, <1>4, <1>5 DEF Probe

\* What a skip makes of what the pass remembers.
LEMMA SkipMemory ==
  ASSUME TypeOK, NEW o \in Operators, NEW m \in Memory, Skip(o, m)
  PROVE  /\ memory'[o].at = memory[o].at + 1 /\ memory'[o].first = m.first
         /\ memory'[o].failures = m.failures /\ memory'[o].stop = m.stop
         /\ memory'[o].sinceStop = m.sinceStop /\ memory'[o].verified = m.verified
  <1>1. memory'[o] = [m EXCEPT !.at = NextPlace(o)]
    BY DEF TypeOK, Skip, Remember
  <1>2. /\ [m EXCEPT !.at = NextPlace(o)].at = NextPlace(o)
        /\ [m EXCEPT !.at = NextPlace(o)].first = m.first
        /\ [m EXCEPT !.at = NextPlace(o)].failures = m.failures
        /\ [m EXCEPT !.at = NextPlace(o)].stop = m.stop
        /\ [m EXCEPT !.at = NextPlace(o)].sinceStop = m.sinceStop
        /\ [m EXCEPT !.at = NextPlace(o)].verified = m.verified
    BY DEF Memory
  <1> QED
    BY <1>1, <1>2 DEF NextPlace

\* One operator's script goes to another place, the others stay where they are:
\* a tenant in hand is still one of the recipe's.
LEMMA OneMoves ==
  ASSUME TypeOK, NEW o \in Operators, NEW place \in Locations,
         pc' = [pc EXCEPT ![o] = place],
         exit' \in [Operators -> {0, 1, 3, 4, 5}],
         \A p \in Operators \ {o} : exit'[p] = exit[p] /\ memory'[p] = memory[p],
         \/ place \in {"down", "next"}
         \/ place = "exited" /\ exit'[o] # 5
         \/ memory'[o].at <= Len(Recipe)
  PROVE  /\ pc' \in [Operators -> Locations]
         /\ \A p \in Operators : HoldsTenant(p)' => memory'[p].at <= Len(Recipe)
  <1>1. pc' \in [Operators -> Locations] /\ pc'[o] = place
    BY DEF TypeOK
  <1>2. ASSUME NEW p \in Operators, HoldsTenant(p)' PROVE memory'[p].at <= Len(Recipe)
    <2>1. CASE p = o
      BY <1>1, <1>2, <2>1 DEF HoldsTenant, Importing
    <2>2. CASE p # o
      <3>1. pc'[p] = pc[p] /\ exit'[p] = exit[p] /\ memory'[p] = memory[p]
        BY <2>2 DEF TypeOK
      <3>2. HoldsTenant(p)
        BY <1>2, <3>1 DEF HoldsTenant
      <3> QED
        BY <3>1, <3>2 DEF TypeOK
    <2> QED
      BY <2>1, <2>2
  <1> QED
    BY <1>1, <1>2

\* Every step of the script keeps every variable in its type.
LEMMA ProceedTypeOK ==
  ASSUME TypeOK, NEW o \in Operators, Proceed(o)
  PROVE  TypeOK'
  <1> USE DEF Goto, Exit, serverVars, fileVars
  <1>0. /\ memory \in [Operators -> Memory] /\ memory[o] \in Memory
        /\ LogOf[o] \in Logs /\ LogOf \in [Operators -> Logs]
    BY OperatorAssumption DEF TypeOK, OperatorAssumption
  <1>1. CASE Finish(o)
    <2>1. ExitStatus(o) \in {0, 1}
      BY DEF ExitStatus
    <2> QED
      BY <1>1, <2>1 DEF Finish, TypeOK, HoldsTenant, Locations, Importing
  <1>2. CASE ReadList(o)
    <2>1. memory[o].at <= Len(Recipe)
      <3>1. memory[o].at \in Nat /\ Len(Recipe) \in Nat
        BY <1>0, RecipePlaces DEF Memory
      <3> QED
        BY <1>2, <3>1 DEF ReadList, LoopOver
    <2>2. /\ memory' \in [Operators -> Memory] /\ memory'[o].at = memory[o].at
          /\ \A p \in Operators \ {o} : memory'[p] = memory[p]
      <3>1. PICK n \in Nat :
              Remember(o, [memory[o] EXCEPT !.baseline = n])
        <4>1. PICK list \in Answers :
                Remember(o, [memory[o] EXCEPT
                  !.baseline = IF memory[o].baseline = 0 THEN Cardinality(list)
                                                         ELSE memory[o].baseline])
          BY <1>2 DEF ReadList
        <4>2. Cardinality(list) \in Nat /\ memory[o].baseline \in Nat
          BY <1>0, OrgsAreCounted DEF Answers, Memory
        <4> QED
          BY <4>1, <4>2
      <3>2. /\ [memory[o] EXCEPT !.baseline = n] \in Memory
            /\ [memory[o] EXCEPT !.baseline = n].at = memory[o].at
        BY <1>0, MemoryCounts DEF Memory
      <3> QED
        BY <3>1, <3>2, Remembering
    <2>3. \/ pc' = [pc EXCEPT ![o] = "exited"] /\ exit' = [exit EXCEPT ![o] = 3]
          \/ pc' \in {[pc EXCEPT ![o] = "probe"], [pc EXCEPT ![o] = "mark"]} /\ exit' = exit
      BY <1>2 DEF ReadList
    <2>4. PICK place \in {"exited", "probe", "mark"} :
            /\ pc' = [pc EXCEPT ![o] = place]
            /\ exit' = IF place = "exited" THEN [exit EXCEPT ![o] = 3] ELSE exit
      BY <2>3
    <2>5. /\ exit' \in [Operators -> {0, 1, 3, 4, 5}]
          /\ \A p \in Operators \ {o} : exit'[p] = exit[p]
      BY <2>4 DEF TypeOK
    <2>6. /\ pc' \in [Operators -> Locations]
          /\ \A p \in Operators : HoldsTenant(p)' => memory'[p].at <= Len(Recipe)
      BY <2>1, <2>2, <2>4, <2>5, OneMoves DEF Locations
    <2>7. UNCHANGED <<serverVars, fileVars, passes>>
      BY <1>2 DEF ReadList
    <2> QED
      BY <2>2, <2>5, <2>6, <2>7 DEF TypeOK
  <1>3. CASE Probe(o)
    <2>1. InHand(o) \in Tenants /\ memory[o].at \in 1..Len(Recipe)
      BY <1>3, InHandNow DEF Probe
    <2>2. memory' = memory \/ \E m \in Memory : Skip(o, m) /\ m.at = memory[o].at
      BY <1>0, <1>3, <2>1, ProbeSkips
    <2>3. memory' \in [Operators -> Memory] /\ \A p \in Operators \ {o} : memory'[p] = memory[p]
      <3>1. CASE memory' = memory
        BY <1>0, <3>1
      <3>2. ASSUME NEW m \in Memory, Skip(o, m), m.at = memory[o].at
            PROVE  memory' \in [Operators -> Memory] /\ \A p \in Operators \ {o} : memory'[p] = memory[p]
        <4>1. memory[o].at + 1 \in 1..(Len(Recipe) + 1)
          BY <2>1, RecipePlaces
        <4>2. Remember(o, [m EXCEPT !.at = memory[o].at + 1])
          BY <3>2 DEF Skip, NextPlace
        <4>3. [m EXCEPT !.at = memory[o].at + 1] \in Memory
          BY <4>1, MemoryMoves
        <4> QED
          BY <4>2, <4>3, Remembering
      <3> QED
        BY <2>2, <3>1, <3>2
    <2>4. \/ /\ pc' = [pc EXCEPT ![o] = "exited"] /\ exit' = [exit EXCEPT ![o] = 5]
             /\ memory' = memory
          \/ pc' = [pc EXCEPT ![o] = "next"] /\ exit' = exit
      BY <1>3 DEF Probe, Skip
    <2>5. PICK place \in {"exited", "next"} :
            /\ pc' = [pc EXCEPT ![o] = place]
            /\ IF place = "exited" THEN exit' = [exit EXCEPT ![o] = 5] /\ memory' = memory
                                    ELSE exit' = exit
      BY <2>4
    <2>6. /\ exit' \in [Operators -> {0, 1, 3, 4, 5}]
          /\ \A p \in Operators \ {o} : exit'[p] = exit[p]
      BY <2>5 DEF TypeOK
    <2>7. place = "exited" => memory'[o].at <= Len(Recipe)
      BY <2>1, <2>5, RecipePlaces
    <2>8. /\ pc' \in [Operators -> Locations]
          /\ \A p \in Operators : HoldsTenant(p)' => memory'[p].at <= Len(Recipe)
      BY <2>3, <2>5, <2>6, <2>7, OneMoves DEF Locations
    <2>9. UNCHANGED <<serverVars, fileVars, passes>>
      BY <1>3 DEF Probe
    <2> QED
      BY <2>3, <2>6, <2>8, <2>9 DEF TypeOK
  <1>4. CASE MarkInflight(o)
    <2>1. InHand(o) \in Tenants /\ memory[o].at \in 1..Len(Recipe)
      BY <1>4, InHandNow DEF MarkInflight
    <2>2. /\ memory' \in [Operators -> Memory] /\ memory'[o].at = memory[o].at
          /\ \A p \in Operators \ {o} : memory'[p] = memory[p]
      <3> DEFINE m == [memory[o] EXCEPT !.sinceStop = IF memory[o].stop THEN @ + 1 ELSE @]
      <3>1. m \in Memory /\ m.at = memory[o].at
        <4>1. (IF memory[o].stop THEN memory[o].sinceStop + 1 ELSE memory[o].sinceStop) \in Nat
          BY <1>0, MemoryFields
        <4>2. m \in Memory
          BY <1>0, <4>1, MemoryCounts
        <4> QED
          BY <1>0, <4>2 DEF Memory
      <3>2. Remember(o, m)
        BY <1>4 DEF MarkInflight
      <3> HIDE DEF m
      <3> QED
        BY <3>1, <3>2, Remembering
    <2>4. inflight' \in [Logs -> Tenants \cup {NoTenant}]
      BY <1>4, <2>1 DEF MarkInflight, Traced, TypeOK
    <2> QED
      BY <1>4, <2>1, <2>2, <2>4 DEF MarkInflight, TypeOK, HoldsTenant, Locations, Importing
  <1>5. CASE CreateOrg(o)
    <2>1. InHand(o) \in Tenants /\ memory[o].at \in 1..Len(Recipe)
      BY <1>5, InHandNow DEF CreateOrg, InImport, Importing
    <2>2. orgs' \subseteq Tenants \cup Others /\ unlogged' \in [Logs -> SUBSET Tenants]
      <3>1. orgs \subseteq Tenants \cup Others /\ unlogged \in [Logs -> SUBSET Tenants]
        BY DEF TypeOK
      <3>2. \/ orgs' = orgs /\ unlogged' = unlogged
            \/ /\ orgs' = orgs \cup {InHand(o)}
               /\ unlogged' = [unlogged EXCEPT ![LogOf[o]] = @ \cup {InHand(o)}]
        BY <1>5 DEF CreateOrg
      <3> QED
        BY <2>1, <3>1, <3>2
    <2>3. pc' \in {[pc EXCEPT ![o] = "user"], [pc EXCEPT ![o] = "died"]}
      BY <1>5 DEF CreateOrg, Die
    <2>4. UNCHANGED <<concepts, forms, job, imports, inflight, lastRow, memory, exit, passes>>
      BY <1>5 DEF CreateOrg
    <2>5. memory'[o].at <= Len(Recipe) /\ exit' \in [Operators -> {0, 1, 3, 4, 5}]
      BY <2>1, <2>4, RecipePlaces DEF TypeOK
    <2>6. PICK place \in {"user", "died"} : pc' = [pc EXCEPT ![o] = place]
      BY <2>3
    <2>7. /\ pc' \in [Operators -> Locations]
          /\ \A p \in Operators : HoldsTenant(p)' => memory'[p].at <= Len(Recipe)
      BY <2>4, <2>5, <2>6, OneMoves DEF Locations, Importing
    <2> QED
      BY <2>2, <2>4, <2>7 DEF TypeOK
  <1>6. CASE SetUpUser(o)
    <2>1. memory[o].at \in 1..Len(Recipe)
      BY <1>6, InHandNow DEF SetUpUser, InImport, Importing
    <2> QED
      BY <1>6, <2>1 DEF SetUpUser, Die, TypeOK, HoldsTenant, Locations, Importing
  <1>7. CASE UploadBundle(o)
    <2>1. InHand(o) \in Tenants /\ memory[o].at \in 1..Len(Recipe)
      BY <1>7, InHandNow DEF UploadBundle, InImport, Importing
    <2>2. /\ job' \in [Tenants -> {"none", "running", "completed", "failed"}]
          /\ imports' \in [Tenants -> Nat]
      <3>1. /\ job \in [Tenants -> {"none", "running", "completed", "failed"}]
            /\ imports \in [Tenants -> Nat]
        BY DEF TypeOK
      <3>2. \/ job' = job /\ imports' = imports
            \/ /\ job' = [job EXCEPT ![InHand(o)] = "running"]
               /\ imports' = [imports EXCEPT ![InHand(o)] = @ + 1]
        BY <1>7 DEF UploadBundle
      <3>3. imports[InHand(o)] + 1 \in Nat
        BY <2>1, <3>1
      <3>4. CASE job' = job /\ imports' = imports
        BY <3>1, <3>4
      <3>5. CASE /\ job' = [job EXCEPT ![InHand(o)] = "running"]
                 /\ imports' = [imports EXCEPT ![InHand(o)] = @ + 1]
        BY <2>1, <3>1, <3>3, <3>5
      <3> QED
        BY <3>2, <3>4, <3>5
    <2>3. pc' \in {[pc EXCEPT ![o] = "poll"], [pc EXCEPT ![o] = "died"]}
      BY <1>7 DEF UploadBundle, Die
    <2>4. UNCHANGED <<orgs, concepts, forms, fileVars, memory, exit, passes>>
      BY <1>7 DEF UploadBundle
    <2>5. memory'[o].at <= Len(Recipe) /\ exit' \in [Operators -> {0, 1, 3, 4, 5}]
      BY <2>1, <2>4, RecipePlaces DEF TypeOK
    <2>6. PICK place \in {"poll", "died"} : pc' = [pc EXCEPT ![o] = place]
      BY <2>3
    <2>7. /\ pc' \in [Operators -> Locations]
          /\ \A p \in Operators : HoldsTenant(p)' => memory'[p].at <= Len(Recipe)
      BY <2>4, <2>5, <2>6, OneMoves DEF Locations, Importing
    <2> QED
      BY <2>2, <2>4, <2>7 DEF TypeOK
  <1>8. CASE PollStatus(o)
    <2>1. memory[o].at \in 1..Len(Recipe)
      BY <1>8, InHandNow DEF PollStatus, InImport, Importing
    <2>2. memory[o].polls \in 0..(Polls - 1) /\ Polls \in Nat \ {0}
      BY <1>0, LimitAssumption DEF LimitAssumption, Memory
    <2>3. PICK n \in 0..(Polls - 1) : Remember(o, [memory[o] EXCEPT !.polls = n])
      <3>1. CASE Remember(o, [memory[o] EXCEPT !.polls = 0])
        BY <2>2, <3>1
      <3>2. CASE Remember(o, [memory[o] EXCEPT !.polls =
                   IF memory[o].polls + 1 = Polls THEN 0 ELSE memory[o].polls + 1])
        BY <2>2, <3>2
      <3> QED
        BY <1>8, <3>1, <3>2 DEF PollStatus
    <2>4. /\ memory' \in [Operators -> Memory] /\ memory'[o].at = memory[o].at
          /\ \A p \in Operators \ {o} : memory'[p] = memory[p]
      <3>1. /\ [memory[o] EXCEPT !.polls = n] \in Memory
            /\ [memory[o] EXCEPT !.polls = n].at = memory[o].at
        BY <1>0, <2>3 DEF Memory
      <3> QED
        BY <2>3, <3>1, Remembering
    <2>5. pc' \in {[pc EXCEPT ![o] = "poll"], [pc EXCEPT ![o] = "check"],
                   [pc EXCEPT ![o] = "died"]}
      BY <1>8 DEF PollStatus, Die
    <2>6. UNCHANGED <<serverVars, fileVars, exit, passes>>
      BY <1>8 DEF PollStatus
    <2>7. memory'[o].at <= Len(Recipe) /\ exit' \in [Operators -> {0, 1, 3, 4, 5}]
      BY <2>1, <2>4, <2>6, RecipePlaces DEF TypeOK
    <2>8. PICK place \in {"poll", "check", "died"} : pc' = [pc EXCEPT ![o] = place]
      BY <2>5
    <2>9. /\ pc' \in [Operators -> Locations]
          /\ \A p \in Operators : HoldsTenant(p)' => memory'[p].at <= Len(Recipe)
      BY <2>4, <2>6, <2>7, <2>8, OneMoves DEF Locations, Importing
    <2> QED
      BY <2>4, <2>6, <2>9 DEF TypeOK
  <1>9. CASE CheckLanded(o)
    <2>1. memory[o].at \in 1..Len(Recipe)
      BY <1>9, InHandNow DEF CheckLanded, InImport, Importing
    <2> QED
      BY <1>9, <2>1 DEF CheckLanded, Die, TypeOK, HoldsTenant, Locations, Importing
  <1>10. CASE AppendRow(o)
    <2>1. InHand(o) \in Tenants /\ memory[o].at \in 1..Len(Recipe)
      BY <1>10, InHandNow DEF AppendRow, InImport
    <2>2. /\ lastRow' \in [Logs -> [Tenants -> {"none", "ok", "FAILED"}]]
          /\ unlogged' \in [Logs -> SUBSET Tenants]
      BY <1>0, <1>10, <2>1 DEF AppendRow, TypeOK
    <2>3. /\ memory' \in [Operators -> Memory] /\ memory'[o].at = memory[o].at
          /\ \A p \in Operators \ {o} : memory'[p] = memory[p]
      <3> DEFINE m == IF pc[o] = "landed" THEN [memory[o] EXCEPT !.done = @ + 1]
                                          ELSE [memory[o] EXCEPT !.failures = @ + 1]
      <3>1. m \in Memory /\ m.at = memory[o].at
        <4>1. memory[o].done + 1 \in Nat /\ memory[o].failures + 1 \in Nat
          BY <1>0, MemoryFields
        <4>2. m \in Memory
          BY <1>0, <4>1, MemoryCounts
        <4> QED
          BY <1>0, <4>2 DEF Memory
      <3>2. Remember(o, m)
        BY <1>10 DEF AppendRow
      <3> HIDE DEF m
      <3> QED
        BY <3>1, <3>2, Remembering
    <2> QED
      BY <1>10, <2>1, <2>2, <2>3 DEF AppendRow, TypeOK, HoldsTenant, Locations, Importing
  <1>11. CASE ClearInflight(o)
    <2>1. memory[o].at \in 1..Len(Recipe)
      BY <1>11, InHandNow DEF ClearInflight
    <2>2. /\ memory' \in [Operators -> Memory]
          /\ \A p \in Operators \ {o} : memory'[p] = memory[p]
      <3> DEFINE m == [memory[o] EXCEPT !.at = memory[o].at + 1]
      <3>1. m \in Memory
        <4>1. memory[o].at + 1 \in 1..(Len(Recipe) + 1)
          BY <2>1, RecipePlaces
        <4> QED
          BY <1>0, <4>1, MemoryMoves
      <3>2. Remember(o, m)
        BY <1>11 DEF ClearInflight, NextPlace
      <3> HIDE DEF m
      <3> QED
        BY <3>1, <3>2, Remembering
    <2>3. inflight' \in [Logs -> Tenants \cup {NoTenant}]
      BY <1>11 DEF ClearInflight, TypeOK
    <2>4. \/ /\ pc' = [pc EXCEPT ![o] = "exited"]
             /\ exit' \in {[exit EXCEPT ![o] = 0], [exit EXCEPT ![o] = 1]}
          \/ pc' = [pc EXCEPT ![o] = "next"] /\ exit' = exit
      BY <1>11 DEF ClearInflight, ExitStatus
    <2>5. pc' \in [Operators -> Locations] /\ exit' \in [Operators -> {0, 1, 3, 4, 5}]
      BY <2>4 DEF TypeOK, Locations
    <2>6. ~HoldsTenant(o)' /\ \A p \in Operators \ {o} : HoldsTenant(p)' = HoldsTenant(p)
      BY <2>4 DEF TypeOK, HoldsTenant, Importing
    <2>7. \A p \in Operators : HoldsTenant(p)' => memory'[p].at <= Len(Recipe)
      BY <2>2, <2>6 DEF TypeOK
    <2> QED
      BY <1>11, <2>2, <2>3, <2>5, <2>7 DEF ClearInflight, TypeOK
  <1> QED
    BY <1>1, <1>2, <1>3, <1>4, <1>5, <1>6, <1>7, <1>8, <1>9, <1>10, <1>11 DEF Proceed

\* And so does whatever else happens.
LEMMA StepTypeOK == TypeOK /\ [Next]_vars => TypeOK'
  <1> SUFFICES ASSUME TypeOK, [Next]_vars
               PROVE  TypeOK'
    OBVIOUS
  <1> USE DEF Goto, Exit, serverVars, fileVars
  <1>0. memory \in [Operators -> Memory] /\ LogOf \in [Operators -> Logs]
    BY OperatorAssumption DEF TypeOK, OperatorAssumption
  <1>1. ASSUME NEW o \in Operators, Start(o)
        PROVE  TypeOK'
    <2>1. memory' \in [Operators -> Memory] /\ \A p \in Operators \ {o} : memory'[p] = memory[p]
      BY <1>1, FreshMemory, Remembering DEF Start
    <2>2. \/ pc' = [pc EXCEPT ![o] = "next"] /\ exit' = exit
          \/ pc' = [pc EXCEPT ![o] = "exited"] /\ exit' = [exit EXCEPT ![o] = 4]
      BY <1>1 DEF Start
    <2>3. passes' \in [Operators -> Nat]
      BY <1>1 DEF Start, TypeOK
    <2>4. pc' \in [Operators -> Locations] /\ exit' \in [Operators -> {0, 1, 3, 4, 5}]
      BY <2>2 DEF TypeOK, Locations
    <2>5. ~HoldsTenant(o)' /\ \A p \in Operators \ {o} : HoldsTenant(p)' = HoldsTenant(p)
      BY <2>2 DEF TypeOK, HoldsTenant, Importing
    <2>6. \A p \in Operators : HoldsTenant(p)' => memory'[p].at <= Len(Recipe)
      BY <2>1, <2>5 DEF TypeOK
    <2> QED
      BY <1>1, <2>1, <2>3, <2>4, <2>6 DEF Start, TypeOK
  <1>2. ASSUME NEW o \in Operators, Proceed(o)
        PROVE  TypeOK'
    BY <1>2, ProceedTypeOK
  <1>3. ASSUME NEW o \in Operators, RequestStop(o)
        PROVE  TypeOK'
    <2>1. /\ memory' \in [Operators -> Memory]
          /\ \A p \in Operators : memory'[p].at = memory[p].at
      <3>1. /\ [memory[o] EXCEPT !.stop = TRUE] \in Memory
            /\ [memory[o] EXCEPT !.stop = TRUE].at = memory[o].at
        <4>1. PICK r \in Memory : r = memory[o]
          BY <1>0
        <4>2. [r EXCEPT !.stop = TRUE] \in Memory
          BY MemoryCounts
        <4>3. [r EXCEPT !.stop = TRUE].at = r.at
          BY DEF Memory
        <4> QED
          BY <4>1, <4>2, <4>3
      <3> QED
        BY <1>3, <3>1, Remembering DEF RequestStop
    <2> QED
      BY <1>3, <2>1 DEF RequestStop, TypeOK, HoldsTenant
  <1>4. ASSUME NEW o \in Operators, Crash(o)
        PROVE  TypeOK'
    <2>1. memory' \in [Operators -> Memory] /\ \A p \in Operators \ {o} : memory'[p] = memory[p]
      BY <1>4, FreshMemory, RecipePlaces, Remembering DEF Crash
    <2> QED
      BY <1>4, <2>1 DEF Crash, TypeOK, HoldsTenant, Locations, Importing
  <1>5. ASSUME NEW t \in Tenants, Remove(t)
        PROVE  /\ orgs' \subseteq Tenants \cup Others
               /\ concepts' \in [Tenants -> Amounts] /\ forms' \in [Tenants -> Amounts]
               /\ job' \in [Tenants -> {"none", "running", "completed", "failed"}]
               /\ imports' \in [Tenants -> Nat] /\ unlogged' \in [Logs -> SUBSET Tenants]
    BY <1>5 DEF Remove, TypeOK, Amounts
  <1>6. ASSUME NEW o \in Operators, DealWithInflight(o)
        PROVE  TypeOK'
    <2> DEFINE t == inflight[LogOf[o]]
    <2>1. t \in Tenants
      BY <1>0, <1>6 DEF DealWithInflight, TypeOK
    <2>2. inflight' \in [Logs -> Tenants \cup {NoTenant}]
      BY <1>6 DEF DealWithInflight, TypeOK
    <2>3. \/ /\ serverVars' = serverVars
             /\ unlogged' = [unlogged EXCEPT ![LogOf[o]] = @ \ {t}]
          \/ Remove(t)
      BY <1>6 DEF DealWithInflight
    <2>4. /\ orgs' \subseteq Tenants \cup Others
          /\ concepts' \in [Tenants -> Amounts] /\ forms' \in [Tenants -> Amounts]
          /\ job' \in [Tenants -> {"none", "running", "completed", "failed"}]
          /\ imports' \in [Tenants -> Nat] /\ unlogged' \in [Logs -> SUBSET Tenants]
      <3>1. CASE Remove(t)
        BY <1>5, <2>1, <3>1
      <3>2. CASE /\ serverVars' = serverVars
                 /\ unlogged' = [unlogged EXCEPT ![LogOf[o]] = @ \ {t}]
        BY <3>2 DEF TypeOK
      <3> QED
        BY <2>3, <3>1, <3>2
    <2>5. /\ pc' = pc /\ exit' = exit /\ memory' = memory /\ lastRow' = lastRow
          /\ passes' = passes
      BY <1>6 DEF DealWithInflight
    <2> QED
      BY <2>2, <2>4, <2>5 DEF TypeOK, HoldsTenant
  <1>7. ASSUME NEW o \in Operators, RemoveShort(o)
        PROVE  TypeOK'
    <2>1. InHand(o) \in Tenants /\ Remove(InHand(o))
      BY <1>7, HandType DEF RemoveShort, TypeOK, HoldsTenant
    <2> QED
      BY <1>5, <1>7, <2>1 DEF RemoveShort, TypeOK, HoldsTenant
  <1>8. ASSUME NEW t \in Tenants, RunImport(t)
        PROVE  TypeOK'
    <2>1. /\ concepts' \in [Tenants -> Amounts] /\ forms' \in [Tenants -> Amounts]
          /\ job' \in [Tenants -> {"none", "running", "completed", "failed"}]
      <3>1. /\ \/ concepts' = concepts
               \/ \E a \in Amounts : concepts' = [concepts EXCEPT ![t] = a]
            /\ \/ forms' = forms
               \/ \E a \in Amounts : forms' = [forms EXCEPT ![t] = a]
            /\ \/ job' = job
               \/ \E verdict \in {"completed", "failed"} : job' = [job EXCEPT ![t] = verdict]
        BY <1>8 DEF RunImport, Amounts
      <3>2. concepts' \in [Tenants -> Amounts]
        BY <3>1 DEF TypeOK
      <3>3. forms' \in [Tenants -> Amounts]
        BY <3>1 DEF TypeOK
      <3>4. job' \in [Tenants -> {"none", "running", "completed", "failed"}]
        BY <3>1 DEF TypeOK
      <3> QED
        BY <3>2, <3>3, <3>4
    <2> QED
      BY <1>8, <2>1 DEF RunImport, TypeOK, HoldsTenant
  <1>9. CASE UNCHANGED vars
    BY <1>9 DEF vars, TypeOK, HoldsTenant
  <1> QED
    BY <1>1, <1>2, <1>3, <1>4, <1>6, <1>7, <1>8, <1>9 DEF Next

\* Nothing leaves its type: the script never has a tenant in hand that the recipe
\* does not name, and no poll counter passes its bound.
THEOREM TypeCorrect == Spec => []TypeOK
  BY InitTypeOK, StepTypeOK, PTL DEF Spec

-----------------------------------------------------------------------------
(* The trace of an interrupted pass.                                        *)

\* A step of one operator's pass, or of the operator.
Acts(o) ==
    \/ Start(o) \/ Proceed(o) \/ RequestStop(o) \/ Crash(o)
    \/ DealWithInflight(o) \/ RemoveShort(o)

\* It leaves the other passes alone, and the other logs; a removal takes a tenant
\* from what is unlogged anywhere.
LEMMA Footprint ==
  ASSUME TypeOK, NEW o \in Operators, Acts(o)
  PROVE  /\ \A p \in Operators \ {o} : pc'[p] = pc[p] /\ memory'[p] = memory[p]
         /\ \A l \in Logs \ {LogOf[o]} : inflight'[l] = inflight[l] /\ unlogged'[l] \subseteq unlogged[l]
  <1> USE DEF Goto, Exit, Remember, serverVars, fileVars
  <1>0. LogOf[o] \in Logs
    BY OperatorAssumption DEF OperatorAssumption
  <1>1. \A p \in Operators \ {o} : pc'[p] = pc[p]
    <2>1. pc' = pc \/ \E place \in Locations : pc' = [pc EXCEPT ![o] = place]
      BY DEF Acts, Start, Proceed, RequestStop, Crash, DealWithInflight, RemoveShort,
             Finish, ReadList, Probe, Skip, MarkInflight, CreateOrg, SetUpUser, UploadBundle,
             PollStatus, CheckLanded, AppendRow, ClearInflight, Die, Locations, Importing
    <2> QED
      BY <2>1 DEF TypeOK
  <1>2. \A p \in Operators \ {o} : memory'[p] = memory[p]
    <2>1. memory' = memory \/ \E m : memory' = [memory EXCEPT ![o] = m]
      BY DEF Acts, Start, Proceed, RequestStop, Crash, DealWithInflight, RemoveShort,
             Finish, ReadList, Probe, Skip, MarkInflight, CreateOrg, SetUpUser, UploadBundle,
             PollStatus, CheckLanded, AppendRow, ClearInflight
    <2> QED
      BY <2>1 DEF TypeOK
  <1>3. \A l \in Logs \ {LogOf[o]} : inflight'[l] = inflight[l]
    <2>1. inflight' = inflight \/ \E t : inflight' = [inflight EXCEPT ![LogOf[o]] = t]
      BY DEF Acts, Start, Proceed, RequestStop, Crash, DealWithInflight, RemoveShort,
             Finish, ReadList, Probe, Skip, MarkInflight, CreateOrg, SetUpUser, UploadBundle,
             PollStatus, CheckLanded, AppendRow, ClearInflight, Traced
    <2> QED
      BY <2>1 DEF TypeOK
  <1>4. \A l \in Logs \ {LogOf[o]} : unlogged'[l] \subseteq unlogged[l]
    <2>1. \/ unlogged' = unlogged
          \/ \E S : unlogged' = [unlogged EXCEPT ![LogOf[o]] = S]
          \/ \E t : unlogged' = [l \in Logs |-> unlogged[l] \ {t}]
      BY DEF Acts, Start, Proceed, RequestStop, Crash, DealWithInflight, RemoveShort,
             Finish, ReadList, Probe, Skip, MarkInflight, CreateOrg, SetUpUser, UploadBundle,
             PollStatus, CheckLanded, AppendRow, ClearInflight, Remove
    <2> QED
      BY <2>1 DEF TypeOK
  <1> QED
    BY <1>1, <1>2, <1>3, <1>4

\* What TraceInv says of one operator's pass and log.
TraceAt(o) ==
    /\ pc[o] \in Listing => inflight[LogOf[o]] = NoTenant
    /\ pc[o] \in InImport => inflight[LogOf[o]] = InHand(o)
    /\ pc[o] = "clear" => unlogged[LogOf[o]] = {}
    /\ unlogged[LogOf[o]] \subseteq {inflight[LogOf[o]]}

\* Every step of a pass keeps its own trace.
LEMMA OwnTrace ==
  ASSUME TypeOK, NEW o \in Operators, TraceAt(o), Acts(o)
  PROVE  TraceAt(o)'
  <1> DEFINE l == LogOf[o]
  <1> USE DEF Goto, Exit, serverVars, fileVars
  <1>0. l \in Logs /\ NoTenant \notin Tenants
    BY OperatorAssumption, RecipeAssumption DEF OperatorAssumption, RecipeAssumption
  <1>1. unlogged[l] \subseteq Tenants /\ unlogged \in [Logs -> SUBSET Tenants]
        /\ inflight \in [Logs -> Tenants \cup {NoTenant}]
        /\ pc \in [Operators -> Locations]
    BY <1>0 DEF TypeOK
  <1>2. inflight[l] = NoTenant => unlogged[l] = {}
    BY <1>0, <1>1 DEF TraceAt
  <1>3. CASE Start(o)
    <2>1. inflight' = inflight /\ unlogged' = unlogged
      BY <1>3 DEF Start
    <2>2. \/ pc'[o] = "next" /\ inflight[l] = NoTenant
          \/ pc'[o] = "exited"
      BY <1>1, <1>3 DEF Start, NothingInFlight
    <2> QED
      BY <2>1, <2>2 DEF TraceAt, Listing, InImport, Importing
  <1>4. CASE Finish(o) \/ ReadList(o) \/ Probe(o)
    <2>1. inflight' = inflight /\ unlogged' = unlogged
      BY <1>4 DEF Finish, ReadList, Probe
    <2>2. pc[o] \in Listing /\ pc'[o] \in {"exited", "probe", "mark", "next"}
      BY <1>1, <1>4 DEF Finish, ReadList, Probe, Skip, Listing
    <2> QED
      BY <2>1, <2>2 DEF TraceAt, Listing, InImport, Importing
  <1>5. CASE MarkInflight(o)
    <2>1. /\ inflight'[l] = InHand(o) /\ unlogged' = unlogged
          /\ pc[o] = "mark" /\ pc'[o] = "create"
      BY <1>0, <1>1, <1>5 DEF MarkInflight, Traced
    <2>2. InHand(o)' = InHand(o)
      <3>1. Remember(o, [memory[o] EXCEPT !.sinceStop = IF memory[o].stop THEN @ + 1 ELSE @])
        BY <1>5 DEF MarkInflight
      <3>2. memory \in [Operators -> Memory]
        BY DEF TypeOK
      <3>3. memory'[o].at = memory[o].at
        BY <3>1, <3>2 DEF Remember, Memory
      <3> QED
        BY <3>3 DEF InHand
    <2>3. unlogged[l] = {}
      BY <1>2, <2>1 DEF TraceAt, Listing
    <2> QED
      BY <2>1, <2>2, <2>3 DEF TraceAt, Listing, InImport, Importing
  <1>6. CASE CreateOrg(o)
    <2>1. /\ inflight' = inflight /\ memory' = memory
          /\ unlogged'[l] \subseteq unlogged[l] \cup {InHand(o)}
      BY <1>0, <1>1, <1>6 DEF CreateOrg
    <2>2. pc[o] = "create" /\ pc'[o] \in {"user", "died"}
      BY <1>1, <1>6 DEF CreateOrg, Die
    <2> QED
      BY <2>1, <2>2 DEF TraceAt, Listing, InImport, Importing, InHand
  <1>7. CASE SetUpUser(o) \/ UploadBundle(o) \/ CheckLanded(o)
    <2>1. inflight' = inflight /\ memory' = memory /\ unlogged' = unlogged
      BY <1>7 DEF SetUpUser, UploadBundle, CheckLanded
    <2>2. pc[o] \in InImport /\ pc'[o] \in {"upload", "poll", "landed", "died"}
      BY <1>1, <1>7 DEF SetUpUser, UploadBundle, CheckLanded, Die, InImport, Importing
    <2> QED
      BY <2>1, <2>2 DEF TraceAt, Listing, InImport, Importing, InHand
  <1>8. CASE PollStatus(o)
    <2>1. inflight' = inflight /\ unlogged' = unlogged
      BY <1>8 DEF PollStatus
    <2>2. pc[o] = "poll" /\ pc'[o] \in {"poll", "check", "died"}
      BY <1>1, <1>8 DEF PollStatus, Die
    <2>3. InHand(o)' = InHand(o)
      <3>1. \E n : Remember(o, [memory[o] EXCEPT !.polls = n])
        BY <1>8 DEF PollStatus
      <3>2. memory \in [Operators -> Memory]
        BY DEF TypeOK
      <3>3. memory'[o].at = memory[o].at
        BY <3>1, <3>2 DEF Remember, Memory
      <3> QED
        BY <3>3 DEF InHand
    <2> QED
      BY <2>1, <2>2, <2>3 DEF TraceAt, Listing, InImport, Importing
  <1>9. CASE AppendRow(o)
    <2>1. /\ inflight' = inflight /\ unlogged'[l] = unlogged[l] \ {InHand(o)}
          /\ pc[o] \in InImport /\ pc'[o] = "clear"
      BY <1>0, <1>1, <1>9 DEF AppendRow, InImport
    <2> QED
      BY <2>1 DEF TraceAt, Listing, InImport, Importing
  <1>10. CASE ClearInflight(o)
    <2>1. /\ inflight'[l] = NoTenant /\ unlogged' = unlogged
          /\ pc[o] = "clear" /\ pc'[o] \in {"exited", "next"}
      BY <1>0, <1>1, <1>10 DEF ClearInflight
    <2> QED
      BY <2>1 DEF TraceAt, Listing, InImport, Importing
  <1>11. CASE RequestStop(o)
    <2>1. inflight' = inflight /\ unlogged' = unlogged /\ pc' = pc
      BY <1>11 DEF RequestStop
    <2>2. InHand(o)' = InHand(o)
      <3>1. Remember(o, [memory[o] EXCEPT !.stop = TRUE]) /\ memory \in [Operators -> Memory]
        BY <1>11 DEF RequestStop, TypeOK
      <3>2. memory'[o].at = memory[o].at
        BY <3>1 DEF Remember, Memory
      <3> QED
        BY <3>2 DEF InHand
    <2> QED
      BY <2>1, <2>2 DEF TraceAt
  <1>12. CASE Crash(o)
    <2>1. inflight' = inflight /\ unlogged' = unlogged /\ pc'[o] = "down"
      BY <1>1, <1>12 DEF Crash
    <2> QED
      BY <2>1 DEF TraceAt, Listing, InImport, Importing
  <1>13. CASE DealWithInflight(o)
    <2>1. /\ pc[o] = "exited" /\ pc' = pc /\ inflight'[l] = NoTenant
          /\ unlogged'[l] = unlogged[l] \ {inflight[l]}
      BY <1>0, <1>1, <1>13 DEF DealWithInflight, Remove
    <2> QED
      BY <2>1 DEF TraceAt, Listing, InImport, Importing
  <1>14. CASE RemoveShort(o)
    <2>1. /\ pc[o] = "exited" /\ pc' = pc /\ inflight' = inflight
          /\ unlogged'[l] \subseteq unlogged[l]
      BY <1>0, <1>1, <1>14 DEF RemoveShort, Remove
    <2> QED
      BY <2>1 DEF TraceAt, Listing, InImport, Importing
  <1> QED
    BY <1>3, <1>4, <1>5, <1>6, <1>7, <1>8, <1>9, <1>10, <1>11, <1>12, <1>13, <1>14
    DEF Acts, Proceed

\* While every operator keeps a log of its own, every step keeps every trace.
LEMMA TraceStep ==
  ASSUME OwnLogs, TypeOK, TraceInv, [Next]_vars
  PROVE  TraceInv'
  <1>0. \A p \in Operators : LogOf[p] \in Logs
    BY OperatorAssumption DEF OperatorAssumption
  <1>1. ASSUME NEW o \in Operators, Acts(o)
        PROVE  TraceInv'
    <2>1. \A p \in Operators : TraceAt(p)
      BY <1>0 DEF TraceInv, TraceAt, StartsAreTraced
    <2>2. TraceAt(o)'
      BY <1>1, <2>1, OwnTrace
    <2>3. ASSUME NEW p \in Operators \ {o}
          PROVE  TraceAt(p)'
      <3>1. LogOf[p] # LogOf[o] /\ LogOf[p] \in Logs
        BY <1>0 DEF OwnLogs
      <3>2. /\ pc'[p] = pc[p] /\ memory'[p] = memory[p]
            /\ inflight'[LogOf[p]] = inflight[LogOf[p]]
            /\ unlogged'[LogOf[p]] \subseteq unlogged[LogOf[p]]
        BY <1>1, <3>1, Footprint
      <3> QED
        BY <2>1, <3>2 DEF TraceAt, InHand
    <2>4. \A l \in Logs \ {LogOf[o]} : unlogged'[l] \subseteq {inflight'[l]}
      BY <1>1, Footprint DEF TraceInv, StartsAreTraced
    <2>5. StartsAreTraced'
      BY <2>2, <2>4 DEF StartsAreTraced, TraceAt
    <2> QED
      BY <2>2, <2>3, <2>5 DEF TraceInv, TraceAt
  <1>2. ASSUME NEW t \in Tenants, RunImport(t)
        PROVE  TraceInv'
    BY <1>2 DEF RunImport, TraceInv, StartsAreTraced, InHand, fileVars
  <1>3. CASE UNCHANGED vars
    BY <1>3 DEF vars, TraceInv, StartsAreTraced, InHand, fileVars
  <1> QED
    BY <1>1, <1>2, <1>3 DEF Next, Acts

\* However many operators run the script, each with a log of its own, and wherever
\* their passes crash: what was created and has no row is named by the in-flight
\* file of that log.
THEOREM InterruptionsAreTraced ==
  ASSUME OwnLogs
  PROVE  Spec => []StartsAreTraced
  <1>1. Init => TraceInv
    BY DEF Init, TraceInv, StartsAreTraced, Listing, InImport, Importing
  <1>2. TypeOK /\ TraceInv /\ [Next]_vars => TraceInv'
    BY TraceStep
  <1>3. TraceInv => StartsAreTraced
    BY DEF TraceInv
  <1> QED
    BY <1>1, <1>2, <1>3, TypeCorrect, PTL DEF Spec

-----------------------------------------------------------------------------
(* One import, and a recipe that is covered.                                *)

\* These steps keep the tenant in hand and the place the pass started from.
LEMMA SameTenant ==
  ASSUME TypeOK, NEW o \in Operators,
         \/ ReadList(o) \/ MarkInflight(o) \/ PollStatus(o) \/ RequestStop(o)
         \/ AppendRow(o)
  PROVE  /\ memory'[o].at = memory[o].at /\ memory'[o].first = memory[o].first
         /\ ~AppendRow(o) => memory'[o].failures = memory[o].failures
         /\ InHand(o)' = InHand(o)
  <1>0. memory \in [Operators -> Memory] /\ memory[o] \in Memory
    BY DEF TypeOK
  <1>1. CASE ReadList(o)
    <2>1. \E n : Remember(o, [memory[o] EXCEPT !.baseline = n])
      BY <1>1 DEF ReadList
    <2> QED
      BY <1>0, <2>1 DEF Remember, Memory, InHand
  <1>2. CASE MarkInflight(o)
    <2>1. \E n : Remember(o, [memory[o] EXCEPT !.sinceStop = n])
      BY <1>2 DEF MarkInflight
    <2> QED
      BY <1>0, <2>1 DEF Remember, Memory, InHand
  <1>3. CASE PollStatus(o)
    <2>1. \E n : Remember(o, [memory[o] EXCEPT !.polls = n])
      BY <1>3 DEF PollStatus
    <2> QED
      BY <1>0, <2>1 DEF Remember, Memory, InHand
  <1>4. CASE RequestStop(o)
    <2>1. Remember(o, [memory[o] EXCEPT !.stop = TRUE])
      BY <1>4 DEF RequestStop
    <2> QED
      BY <1>0, <2>1 DEF Remember, Memory, InHand
  <1>5. CASE AppendRow(o)
    <2>1. \/ \E n : Remember(o, [memory[o] EXCEPT !.done = n])
          \/ \E n : Remember(o, [memory[o] EXCEPT !.failures = n])
      BY <1>5 DEF AppendRow
    <2> QED
      BY <1>0, <1>5, <2>1 DEF Remember, Memory, InHand
  <1> QED
    BY <1>1, <1>2, <1>3, <1>4, <1>5

\* A pass working alone on a server that never truncates imports once.
LEMMA ImportStep ==
  ASSUME Alone, ~Truncates, TypeOK, ImportInv, [Next]_vars
  PROVE  ImportInv'
  <1> USE DEF Goto, Exit, serverVars, fileVars
  <1>0. imports \in [Tenants -> Nat] /\ pc \in [Operators -> Locations]
    BY DEF TypeOK
  <1>1. ASSUME NEW o \in Operators, Acts(o)
        PROVE  ImportInv'
    <2>0. /\ \A p \in Operators : p = o
          /\ \A t \in Tenants : (t \notin orgs => imports[t] = 0) /\ imports[t] <= 1
          /\ ImportAt(o)
      BY DEF Alone, ImportInv, ImportedOnce
    <2>1. ASSUME \A t \in Tenants : (t \notin orgs' => imports'[t] = 0) /\ imports'[t] <= 1,
                 ImportAt(o)'
          PROVE  ImportInv'
      BY <2>0, <2>1 DEF ImportInv, ImportedOnce
    <2>2. CASE Start(o) \/ Finish(o) \/ Probe(o) \/ AppendRow(o) \/ ClearInflight(o) \/ Crash(o)
      <3>1. orgs' = orgs /\ imports' = imports
        BY <2>2 DEF Start, Finish, Probe, AppendRow, ClearInflight, Crash
      <3>2. pc'[o] \in {"next", "exited", "clear", "down"}
        BY <1>0, <2>2 DEF Start, Finish, Probe, Skip, AppendRow, ClearInflight, Crash
      <3> QED
        BY <2>0, <2>1, <3>1, <3>2 DEF ImportAt
    <2>3. CASE ReadList(o)
      <3>1. orgs' = orgs /\ imports' = imports /\ InHand(o)' = InHand(o)
        BY <2>3, SameTenant DEF ReadList
      <3>2. \/ pc'[o] \in {"exited", "probe"}
            \/ pc'[o] = "mark" /\ InHand(o) \notin orgs
        BY <1>0, <2>3 DEF ReadList, Answers, Present
      <3> QED
        BY <2>0, <2>1, <3>1, <3>2 DEF ImportAt
    <2>4. CASE MarkInflight(o) \/ RequestStop(o)
      <3>1. orgs' = orgs /\ imports' = imports /\ InHand(o)' = InHand(o)
        BY <2>4, SameTenant DEF MarkInflight, RequestStop
      <3>2. pc'[o] = pc[o] \/ (pc[o] = "mark" /\ pc'[o] = "create")
        BY <1>0, <2>4 DEF MarkInflight, RequestStop
      <3> QED
        BY <2>0, <2>1, <3>1, <3>2 DEF ImportAt
    <2>5. CASE CreateOrg(o)
      <3>1. /\ imports' = imports /\ InHand(o)' = InHand(o) /\ orgs \subseteq orgs'
            /\ pc[o] = "create" /\ pc'[o] \in {"user", "died"}
        BY <1>0, <2>5 DEF CreateOrg, Die, InHand
      <3>2. InHand(o) \in Tenants
        BY <3>1, InHandNow DEF InImport, Importing
      <3>3. imports[InHand(o)] = 0
        BY <2>0, <3>1, <3>2 DEF ImportAt
      <3> QED
        BY <2>0, <2>1, <3>1, <3>3 DEF ImportAt
    <2>6. CASE SetUpUser(o)
      <3>1. /\ imports' = imports /\ InHand(o)' = InHand(o) /\ orgs' = orgs
            /\ pc[o] = "user" /\ pc'[o] \in {"upload", "died"}
        BY <1>0, <2>6 DEF SetUpUser, Die, InHand
      <3> QED
        BY <2>0, <2>1, <3>1 DEF ImportAt
    <2>7. CASE UploadBundle(o)
      <3>1. /\ orgs' = orgs /\ pc[o] = "upload" /\ pc'[o] \in {"poll", "died"}
        BY <1>0, <2>7 DEF UploadBundle, Die
      <3>2. InHand(o) \in Tenants
        BY <3>1, InHandNow DEF InImport, Importing
      <3>3. \/ imports' = imports
            \/ InHand(o) \in orgs /\ imports' = [imports EXCEPT ![InHand(o)] = @ + 1]
        BY <2>7 DEF UploadBundle
      <3>4. imports[InHand(o)] = 0
        BY <2>0, <3>1 DEF ImportAt
      <3>5. \A t \in Tenants : (t \notin orgs' => imports'[t] = 0) /\ imports'[t] <= 1
        BY <1>0, <2>0, <3>1, <3>2, <3>3, <3>4
      <3> QED
        BY <2>1, <3>1, <3>5 DEF ImportAt
    <2>8. CASE PollStatus(o) \/ CheckLanded(o)
      <3>1. orgs' = orgs /\ imports' = imports
        BY <2>8 DEF PollStatus, CheckLanded
      <3>2. pc'[o] \in {"poll", "check", "landed", "died"}
        BY <1>0, <2>8 DEF PollStatus, CheckLanded, Die
      <3> QED
        BY <2>0, <2>1, <3>1, <3>2 DEF ImportAt
    <2>9. CASE DealWithInflight(o) \/ RemoveShort(o)
      <3>1. pc'[o] = "exited"
        BY <2>9 DEF DealWithInflight, RemoveShort
      <3>2. \/ orgs' = orgs /\ imports' = imports
            \/ \E t : Remove(t)
        BY <2>9 DEF DealWithInflight, RemoveShort
      <3>3. \A t \in Tenants : (t \notin orgs' => imports'[t] = 0) /\ imports'[t] <= 1
        <4>1. CASE \E t : Remove(t)
          <5>1. PICK t : /\ orgs' = orgs \ {t}
                         /\ imports' = [imports EXCEPT ![t] = 0]
            BY <4>1 DEF Remove
          <5> QED
            BY <1>0, <2>0, <5>1
        <4> QED
          BY <2>0, <3>2, <4>1
      <3> QED
        BY <2>1, <3>1, <3>3 DEF ImportAt
    <2> QED
      BY <1>1, <2>2, <2>3, <2>4, <2>5, <2>6, <2>7, <2>8, <2>9 DEF Acts, Proceed
  <1>2. ASSUME NEW t \in Tenants, RunImport(t)
        PROVE  ImportInv'
    BY <1>2 DEF RunImport, ImportInv, ImportedOnce, ImportAt, InHand
  <1>3. CASE UNCHANGED vars
    BY <1>3 DEF vars, ImportInv, ImportedOnce, ImportAt, InHand
  <1> QED
    BY <1>1, <1>2, <1>3 DEF Next, Acts

\* One operator, a server that answers GET /organisation in full or not at all, and
\* any number of crashes, failures and restarts: no organisation has the bundle
\* imported into it twice.
THEOREM ImportsHappenOnce ==
  ASSUME Alone, ~Truncates
  PROVE  Spec => []ImportedOnce
  <1>1. Init => ImportInv
    BY DEF Init, ImportInv, ImportAt, ImportedOnce
  <1>2. TypeOK /\ ImportInv /\ [Next]_vars => ImportInv'
    BY ImportStep
  <1>3. ImportInv => ImportedOnce
    BY DEF ImportInv
  <1> QED
    BY <1>1, <1>2, <1>3, TypeCorrect, PTL DEF Spec

\* A pass working alone has walked past no tenant that is missing, or has a failure
\* to report.
LEMMA CoverStep ==
  ASSUME Alone, TypeOK, CoverInv, [Next]_vars
  PROVE  CoverInv'
  <1> USE DEF Goto, Exit, serverVars, fileVars
  <1>0. /\ pc \in [Operators -> Locations] /\ exit \in [Operators -> {0, 1, 3, 4, 5}]
        /\ memory \in [Operators -> Memory]
    BY DEF TypeOK
  <1>1. ASSUME NEW o \in Operators, Acts(o)
        PROVE  CoverInv'
    <2> DEFINE m == memory[o]
    <2>0. /\ CoverAt(o) /\ \A p \in Operators : p = o
          /\ m.at \in Nat /\ m.first \in Nat /\ m.failures \in Nat
      BY <1>0, RecipePlaces DEF Alone, CoverInv, Memory
    <2>1. ASSUME CoverAt(o)'
          PROVE  CoverInv'
      BY <2>0, <2>1 DEF CoverInv
    <2>2. CASE Start(o)
      <3>1. PICK from \in 1..(Len(Recipe) + 1) : memory'[o] = StartingAt(from)
        BY <1>0, <2>2 DEF Start, Remember
      <3>2. memory'[o].at = from /\ memory'[o].first = from /\ from \in Nat
        BY <3>1, RecipePlaces DEF StartingAt
      <3>3. pc'[o] = "next" \/ (pc'[o] = "exited" /\ exit'[o] = 4)
        BY <1>0, <2>2 DEF Start
      <3>4. Covered(o, memory[o].at - 1)'
        BY <3>2 DEF Covered
      <3> QED
        BY <2>1, <3>3, <3>4 DEF CoverAt, Accountable, OnServer
    <2>3. CASE Finish(o)
      <3>1. /\ orgs' = orgs /\ memory' = memory /\ pc[o] = "next" /\ pc'[o] = "exited"
            /\ exit'[o] = 0 => m.failures = 0
        BY <1>0, <2>3 DEF Finish, ExitStatus
      <3> QED
        BY <2>0, <2>1, <3>1 DEF CoverAt, Accountable, Covered, OnServer, Listing
    <2>4. CASE ReadList(o)
      <3>1. /\ orgs' = orgs /\ pc[o] = "next" /\ memory'[o].at = m.at
            /\ memory'[o].first = m.first /\ memory'[o].failures = m.failures
            /\ InHand(o)' = InHand(o)
        BY <2>4, SameTenant DEF ReadList, AppendRow
      <3>2. \/ pc'[o] = "mark"
            \/ pc'[o] = "exited" /\ exit'[o] = 3
            \/ pc'[o] = "probe" /\ InHand(o) \in orgs
        BY <1>0, <2>4 DEF ReadList, Answers, Present
      <3> QED
        BY <2>0, <2>1, <3>1, <3>2 DEF CoverAt, Accountable, Covered, OnServer, Listing
    <2>5. CASE Probe(o)
      <3>1. /\ orgs' = orgs /\ pc[o] = "probe"
            /\ \/ pc'[o] = "exited" /\ exit'[o] = 5
               \/ \E r \in Memory : Skip(o, r) /\ r.first = m.first /\ r.failures = m.failures
        <4>1. orgs' = orgs /\ pc[o] = "probe" /\ InHand(o) \in Tenants
          BY <2>5, InHandNow DEF Probe
        <4>2. \/ Exit(o, 5)
              \/ \E r \in Memory : Skip(o, r) /\ r.first = m.first /\ r.failures = m.failures
          BY <2>5, <4>1, ProbeSkips
        <4> QED
          BY <1>0, <4>1, <4>2
      <3>2. Covered(o, m.at)
        <4>1. \A i \in m.first..m.at : i \in m.first..(m.at - 1) \/ i = m.at
          BY <2>0
        <4> QED
          BY <2>0, <3>1, <4>1 DEF CoverAt, Accountable, Covered, OnServer, Listing, InHand
      <3>3. CASE \E r \in Memory : Skip(o, r) /\ r.first = m.first /\ r.failures = m.failures
        <4>0. pc'[o] = "next"
          BY <1>0, <3>3 DEF Skip
        <4>1. /\ memory'[o].at - 1 = m.at /\ memory'[o].first = m.first
              /\ memory'[o].failures = m.failures
          BY <2>0, <3>3, SkipMemory
        <4>2. Covered(o, memory[o].at - 1)'
          BY <3>1, <3>2, <4>1 DEF Covered
        <4> QED
          BY <2>1, <4>0, <4>2 DEF CoverAt, Accountable, OnServer
      <3> QED
        BY <2>1, <3>1, <3>3 DEF CoverAt, Accountable, OnServer, Listing, InImport, Importing
    <2>6. CASE MarkInflight(o) \/ PollStatus(o) \/ RequestStop(o)
      <3>1. /\ orgs' = orgs /\ exit' = exit /\ memory'[o].at = m.at
            /\ memory'[o].first = m.first /\ memory'[o].failures = m.failures
            /\ InHand(o)' = InHand(o)
        <4>1. ~AppendRow(o)
          <5>1. AppendRow(o) => pc[o] \in {"landed", "died"} /\ pc'[o] = "clear"
            BY <1>0 DEF AppendRow
          <5>2. pc[o] \in {"mark", "poll"} \/ pc' = pc
            BY <2>6 DEF MarkInflight, PollStatus, RequestStop
          <5> QED
            BY <5>1, <5>2
        <4> QED
          BY <2>6, <4>1, SameTenant DEF MarkInflight, PollStatus, RequestStop
      <3>2. \/ pc'[o] = pc[o] /\ pc[o] \in Locations
            \/ pc[o] = "mark" /\ pc'[o] = "create"
            \/ pc[o] = "poll" /\ pc'[o] \in {"poll", "check", "died"}
        BY <1>0, <2>6 DEF MarkInflight, PollStatus, RequestStop, Die
      <3> QED
        BY <2>0, <2>1, <3>1, <3>2
        DEF CoverAt, Accountable, Covered, OnServer, Listing, InImport, Importing
    <2>7. CASE CreateOrg(o) \/ SetUpUser(o) \/ UploadBundle(o) \/ CheckLanded(o)
      <3>1. orgs \subseteq orgs' /\ memory' = memory
        BY <2>7 DEF CreateOrg, SetUpUser, UploadBundle, CheckLanded
      <3>2. /\ pc[o] \in Importing
            /\ \/ pc'[o] = "died"
               \/ pc'[o] \in {"user", "upload", "poll", "landed"} /\ InHand(o) \in orgs'
        <4>1. CASE CreateOrg(o)
          BY <1>0, <4>1 DEF CreateOrg, Die, Importing
        <4>2. CASE SetUpUser(o)
          BY <1>0, <4>2 DEF SetUpUser, Die, Importing
        <4>3. CASE UploadBundle(o)
          BY <1>0, <4>3 DEF UploadBundle, Die, Importing
        <4>4. CASE CheckLanded(o)
          BY <1>0, <2>0, <4>4 DEF CheckLanded, Die, Importing, CoverAt, OnServer
        <4> QED
          BY <2>7, <4>1, <4>2, <4>3, <4>4
      <3>3. Covered(o, memory[o].at - 1)'
        BY <2>0, <3>1, <3>2 DEF CoverAt, Accountable, Covered, InImport
      <3> QED
        BY <2>1, <3>1, <3>2, <3>3 DEF CoverAt, Accountable, OnServer, InHand
    <2>8. CASE AppendRow(o)
      <3>1. /\ orgs' = orgs /\ pc[o] \in {"landed", "died"} /\ pc'[o] = "clear"
            /\ memory'[o].at = m.at /\ memory'[o].first = m.first
        BY <1>0, <2>8, SameTenant DEF AppendRow
      <3>2. CASE pc[o] = "landed"
        <4>1. memory'[o].failures = m.failures
          <5>1. \E n : memory'[o] = [m EXCEPT !.done = n]
            BY <1>0, <2>8, <3>2 DEF AppendRow, Remember
          <5> QED
            BY <1>0, <5>1 DEF Memory
        <4>2. \A i \in m.first..m.at : i \in m.first..(m.at - 1) \/ i = m.at
          BY <2>0
        <4>3. Covered(o, m.at - 1) /\ Covered(o, m.at)
          BY <2>0, <3>2, <4>2 DEF CoverAt, Accountable, Covered, OnServer, InImport, InHand
        <4>4. Covered(o, memory[o].at - 1)' /\ Covered(o, memory[o].at)'
          BY <3>1, <4>1, <4>3 DEF Covered
        <4> QED
          BY <2>1, <3>1, <4>4 DEF CoverAt, Accountable, OnServer
      <3>3. CASE pc[o] = "died"
        <4>1. memory'[o].failures # 0
          <5>1. memory'[o] = [m EXCEPT !.failures = m.failures + 1]
            BY <1>0, <2>8, <3>3 DEF AppendRow, Remember
          <5>2. memory'[o].failures = m.failures + 1
            BY <1>0, <5>1 DEF Memory
          <5> QED
            BY <2>0, <5>2
        <4> QED
          BY <2>1, <3>1, <4>1 DEF CoverAt, Accountable, Covered, OnServer
      <3> QED
        BY <3>1, <3>2, <3>3
    <2>9. CASE ClearInflight(o)
      <3>1. /\ orgs' = orgs /\ pc[o] = "clear"
            /\ memory'[o] = [m EXCEPT !.at = m.at + 1]
            /\ \/ pc'[o] = "next"
               \/ pc'[o] = "exited" /\ (exit'[o] = 0 => m.failures = 0)
        BY <1>0, <2>9 DEF ClearInflight, NextPlace, Remember, ExitStatus
      <3>2. /\ memory'[o].at - 1 = m.at /\ memory'[o].first = m.first
            /\ memory'[o].failures = m.failures
        BY <1>0, <2>0, <3>1 DEF Memory
      <3>3. Covered(o, memory[o].at - 1)'
        BY <2>0, <3>1, <3>2 DEF CoverAt, Accountable, Covered
      <3> QED
        BY <2>1, <3>1, <3>2, <3>3 DEF CoverAt, Accountable, OnServer
    <2>10. CASE Crash(o)
      <3>1. pc'[o] = "down"
        BY <1>0, <2>10 DEF Crash
      <3> QED
        BY <2>1, <3>1 DEF CoverAt, Accountable, OnServer, Listing, InImport, Importing
    <2>11. CASE DealWithInflight(o) \/ RemoveShort(o)
      <3>1. pc'[o] = "exited" /\ exit'[o] # 0
        BY <2>11 DEF DealWithInflight, RemoveShort
      <3> QED
        BY <2>1, <3>1 DEF CoverAt, Accountable, OnServer, Listing, InImport, Importing
    <2> QED
      BY <1>1, <2>2, <2>3, <2>4, <2>5, <2>6, <2>7, <2>8, <2>9, <2>10, <2>11
      DEF Acts, Proceed
  <1>2. ASSUME NEW t \in Tenants, RunImport(t)
        PROVE  CoverInv'
    BY <1>2 DEF RunImport, CoverInv, CoverAt, Accountable, Covered, InHand
  <1>3. CASE UNCHANGED vars
    BY <1>3 DEF vars, CoverInv, CoverAt, Accountable, Covered, InHand
  <1> QED
    BY <1>1, <1>2, <1>3 DEF Next, Acts

\* One operator: a pass that ends with 0 at the end of the recipe leaves every tenant
\* from the one it started at on the server, whatever crashed, failed or was removed
\* before it.  One whose --from names no tenant, or whose recipe cannot be read, starts
\* at none, and its 0 covers nothing (SuccessStartsAtATenant is violated).
THEOREM SuccessIsComplete ==
  ASSUME Alone
  PROVE  Spec => []SuccessCoversTheRecipe
  <1>1. Init => CoverInv
    BY DEF Init, CoverInv, CoverAt, Accountable, OnServer, Listing, InImport, Importing
  <1>2. TypeOK /\ CoverInv /\ [Next]_vars => CoverInv'
    BY CoverStep
  <1>3. TypeOK /\ CoverInv => SuccessCoversTheRecipe
    <2> SUFFICES ASSUME TypeOK, CoverInv, NEW o \in Operators,
                        pc[o] = "exited", exit[o] = 0, memory[o].at > Len(Recipe),
                        NEW i \in memory[o].first..Len(Recipe)
                 PROVE  Recipe[i] \in orgs
      BY DEF SuccessCoversTheRecipe
    <2>1. Covered(o, memory[o].at - 1) /\ memory[o].failures = 0
      BY DEF CoverInv, CoverAt, Accountable
    <2>2. memory[o].at \in Nat /\ memory[o].first \in Nat /\ Len(Recipe) \in Nat
      BY RecipePlaces DEF TypeOK, Memory
    <2>3. i \in memory[o].first..(memory[o].at - 1)
      BY <2>2
    <2> QED
      BY <2>1, <2>3 DEF Covered
  <1> QED
    BY <1>1, <1>2, <1>3, TypeCorrect, PTL DEF Spec

-----------------------------------------------------------------------------
(* Stop requests and skipped tenants.                                       *)

\* What a step does to the pass's count of starts since the stop request, and to
\* what it skipped: apart from a fresh start, only MarkInflight counts, only
\* Probe skips and only RequestStop sets the flag.
LEMMA StopMemory ==
  ASSUME TypeOK, NEW o \in Operators, Proceed(o) \/ RequestStop(o)
  PROVE  /\ ~MarkInflight(o) => memory'[o].sinceStop = memory[o].sinceStop
         /\ ~Probe(o) => memory'[o].verified = memory[o].verified
         /\ ~RequestStop(o) => memory'[o].stop = memory[o].stop
  <1> DEFINE m == memory[o]
  <1>0. memory \in [Operators -> Memory] /\ m \in Memory
    BY DEF TypeOK
  <1>1. CASE Finish(o) \/ CreateOrg(o) \/ SetUpUser(o) \/ UploadBundle(o) \/ CheckLanded(o)
    BY <1>1 DEF Finish, CreateOrg, SetUpUser, UploadBundle, CheckLanded
  <1>2. CASE ReadList(o)
    <2>1. PICK n : memory' = [memory EXCEPT ![o] = [m EXCEPT !.baseline = n]]
      BY <1>2 DEF ReadList, Remember
    <2> QED
      BY <1>0, <2>1 DEF Memory
  <1>3. CASE Probe(o)
    <2>1. InHand(o) \in Tenants
      BY <1>3, InHandNow DEF Probe
    <2>2. CASE memory' = memory
      BY <1>3, <2>2
    <2>3. ASSUME NEW r \in Memory, Skip(o, r), r.stop = m.stop, r.sinceStop = m.sinceStop
          PROVE  memory'[o].stop = m.stop /\ memory'[o].sinceStop = m.sinceStop
      BY <2>3, SkipMemory
    <2>4. memory'[o].stop = m.stop /\ memory'[o].sinceStop = m.sinceStop
      BY <1>3, <2>1, <2>2, <2>3, ProbeSkips
    <2> QED
      BY <1>3, <2>4
  <1>4. CASE MarkInflight(o)
    <2>1. PICK n : memory' = [memory EXCEPT ![o] = [m EXCEPT !.sinceStop = n]]
      BY <1>4 DEF MarkInflight, Remember
    <2> QED
      BY <1>0, <1>4, <2>1 DEF Memory
  <1>5. CASE PollStatus(o)
    <2>1. PICK n : memory' = [memory EXCEPT ![o] = [m EXCEPT !.polls = n]]
      BY <1>5 DEF PollStatus, Remember
    <2> QED
      BY <1>0, <2>1 DEF Memory
  <1>6. CASE AppendRow(o)
    <2>1. \/ \E n : memory' = [memory EXCEPT ![o] = [m EXCEPT !.done = n]]
          \/ \E n : memory' = [memory EXCEPT ![o] = [m EXCEPT !.failures = n]]
      BY <1>6 DEF AppendRow, Remember
    <2> QED
      BY <1>0, <2>1 DEF Memory
  <1>7. CASE ClearInflight(o)
    <2>1. PICK n : memory' = [memory EXCEPT ![o] = [m EXCEPT !.at = n]]
      BY <1>7 DEF ClearInflight, Remember
    <2> QED
      BY <1>0, <2>1 DEF Memory
  <1>8. CASE RequestStop(o)
    <2>1. memory' = [memory EXCEPT ![o] = [m EXCEPT !.stop = TRUE]]
      BY <1>8 DEF RequestStop, Remember
    <2> QED
      BY <1>0, <1>8, <2>1 DEF Memory
  <1> QED
    BY <1>1, <1>2, <1>3, <1>4, <1>5, <1>6, <1>7, <1>8 DEF Proceed

\* A pass that starts or crashes remembers no start and no skip.
LEMMA FreshStart ==
  ASSUME TypeOK, NEW o \in Operators, Start(o) \/ Crash(o)
  PROVE  memory'[o].sinceStop = 0 /\ memory'[o].verified = {}
  <1>1. memory \in [Operators -> Memory]
    BY DEF TypeOK
  <1>2. PICK from : memory' = [memory EXCEPT ![o] = StartingAt(from)]
    BY DEF Start, Crash, Remember
  <1> QED
    BY <1>1, <1>2 DEF StartingAt

\* Every step of a pass keeps what it says of stop requests.
LEMMA OwnStop ==
  ASSUME TypeOK, NEW o \in Operators, StopAt(o), Acts(o)
  PROVE  StopAt(o)'
  <1> USE DEF Goto, Exit, serverVars, fileVars
  <1> DEFINE m == memory[o]
  <1>0. /\ pc \in [Operators -> Locations] /\ m \in Memory
        /\ m.sinceStop \in Nat
    BY DEF TypeOK, Memory
  <1>1. CASE Start(o) \/ Crash(o)
    BY <1>1, FreshStart DEF StopAt
  <1>2. CASE MarkInflight(o)
    <2>1. pc[o] = "mark" /\ pc'[o] = "create" /\ m.sinceStop = 0
      BY <1>0, <1>2 DEF MarkInflight, StopAt, Listing
    <2>2. memory' = [memory EXCEPT ![o] =
                       [m EXCEPT !.sinceStop = IF m.stop THEN @ + 1 ELSE @]]
      BY <1>2 DEF MarkInflight, Remember
    <2>3. memory'[o].sinceStop = (IF m.stop THEN m.sinceStop + 1 ELSE m.sinceStop)
      BY <1>0, <2>2 DEF TypeOK, Memory
    <2>4. ~RequestStop(o)
      BY <1>0, <2>1 DEF RequestStop
    <2>5. memory'[o].stop = m.stop
      BY <1>2, <2>4, StopMemory DEF Proceed
    <2> QED
      BY <2>1, <2>3, <2>5 DEF StopAt, Listing
  <1>3. CASE ClearInflight(o)
    <2>1. ~MarkInflight(o) /\ ~RequestStop(o)
      <3>1. pc[o] = "clear" /\ pc'[o] # "clear"
        BY <1>0, <1>3 DEF ClearInflight
      <3> QED
        BY <3>1 DEF MarkInflight, RequestStop
    <2>2. memory'[o].sinceStop = m.sinceStop /\ memory'[o].stop = m.stop
      BY <1>3, <2>1, StopMemory DEF Proceed
    <2>3. m.stop => pc'[o] = "exited"
      BY <1>0, <1>3 DEF ClearInflight, StopRequested
    <2> QED
      BY <1>0, <2>2, <2>3 DEF StopAt, Listing
  <1>4. CASE \/ Finish(o) \/ ReadList(o) \/ Probe(o) \/ CreateOrg(o) \/ SetUpUser(o)
             \/ UploadBundle(o) \/ PollStatus(o) \/ CheckLanded(o) \/ AppendRow(o)
             \/ RequestStop(o)
    <2>1. pc'[o] \in Listing => pc[o] \in Listing
      BY <1>0, <1>4
      DEF Finish, ReadList, Probe, Skip, CreateOrg, SetUpUser, UploadBundle, PollStatus,
          CheckLanded, AppendRow, RequestStop, Die, Listing
    <2>2. CASE MarkInflight(o)
      BY <1>2, <2>2
    <2>3. CASE ~MarkInflight(o)
      <3>1. memory'[o].sinceStop = m.sinceStop
        BY <1>4, <2>3, StopMemory DEF Proceed
      <3>2. memory'[o].stop = m.stop \/ memory'[o].stop
        <4>1. CASE RequestStop(o)
          <5>1. memory' = [memory EXCEPT ![o] = [m EXCEPT !.stop = TRUE]]
            BY <4>1 DEF RequestStop, Remember
          <5> QED
            BY <1>0, <5>1 DEF TypeOK, Memory
        <4>2. CASE ~RequestStop(o)
          BY <1>4, <4>2, StopMemory DEF Proceed
        <4> QED
          BY <4>1, <4>2
      <3> QED
        BY <2>1, <3>1, <3>2 DEF StopAt
    <2> QED
      BY <2>2, <2>3
  <1>5. CASE DealWithInflight(o) \/ RemoveShort(o)
    <2>1. pc' = pc /\ memory' = memory
      BY <1>5 DEF DealWithInflight, RemoveShort
    <2> QED
      BY <2>1 DEF StopAt
  <1> QED
    BY <1>1, <1>2, <1>3, <1>4, <1>5 DEF Acts, Proceed

\* However many operators share logs and servers: a pass that was asked to stop
\* starts at most one more tenant.  That it starts none is what the script's header
\* says and what does not hold (StopStartsNone is violated): the flag is read after a
\* tenant's row is durable, and nowhere else.
THEOREM StopsAreHonoured == Spec => []StopStartsAtMostOne
  <1>1. Init => StopInv
    BY DEF Init, StopInv, StopAt, StartingAt
  <1>2. TypeOK /\ StopInv /\ [Next]_vars => StopInv'
    <2> SUFFICES ASSUME TypeOK, StopInv, [Next]_vars, NEW p \in Operators
                 PROVE  StopAt(p)'
      BY DEF StopInv
    <2>0. StopAt(p)
      BY DEF StopInv
    <2>1. ASSUME NEW o \in Operators, Acts(o)
          PROVE  StopAt(p)'
      <3>1. CASE p = o
        BY <2>0, <2>1, <3>1, OwnStop
      <3>2. CASE p # o
        <4>1. pc'[p] = pc[p] /\ memory'[p] = memory[p]
          BY <2>1, <3>2, Footprint
        <4> QED
          BY <2>0, <4>1 DEF StopAt
      <3> QED
        BY <3>1, <3>2
    <2>2. ASSUME NEW t \in Tenants, RunImport(t)
          PROVE  StopAt(p)'
      BY <2>0, <2>2 DEF RunImport, StopAt
    <2>3. CASE UNCHANGED vars
      BY <2>0, <2>3 DEF vars, StopAt
    <2> QED
      BY <2>1, <2>2, <2>3 DEF Next, Acts
  <1>3. StopInv => StopStartsAtMostOne
    BY DEF StopInv, StopAt, StopStartsAtMostOne
  <1> QED
    BY <1>1, <1>2, <1>3, TypeCorrect, PTL DEF Spec

\* What was skipped is whole, by the concept count the skip is taken on, until its
\* pass is over.
LEMMA SkipStep ==
  ASSUME Alone, TypeOK, CoverInv, SkipInv, [Next]_vars
  PROVE  SkipInv'
  <1> USE DEF Goto, Exit, serverVars, fileVars
  <1>0. /\ pc \in [Operators -> Locations] /\ concepts \in [Tenants -> Amounts]
        /\ memory \in [Operators -> Memory]
    BY DEF TypeOK
  <1>1. ASSUME NEW o \in Operators, Acts(o)
        PROVE  SkipInv'
    <2> DEFINE m == memory[o]
    <2>0. SkipAt(o) /\ CoverAt(o) /\ m \in Memory /\ \A p \in Operators : p = o
      BY <1>0 DEF Alone, CoverInv, SkipInv
    <2>1. ASSUME SkipAt(o)'
          PROVE  SkipInv'
      BY <2>0, <2>1 DEF SkipInv
    <2>2. CASE Start(o) \/ Crash(o)
      BY <2>1, <2>2, FreshStart DEF SkipAt
    <2>3. CASE Probe(o)
      <3>1. /\ orgs' = orgs /\ concepts' = concepts
            /\ pc[o] = "probe" /\ InHand(o) \in orgs
        BY <2>0, <2>3 DEF Probe, CoverAt, OnServer
      <3>2. \/ memory'[o].verified = m.verified
            \/ /\ memory'[o].verified = m.verified \cup {InHand(o)}
               /\ concepts[InHand(o)] = "all"
        <4>1. InHand(o) \in Tenants
          BY <2>3, InHandNow DEF Probe
        <4>2. CASE memory' = memory
          BY <4>2
        <4>3. ASSUME NEW r \in Memory, Skip(o, r),
                     \/ r.verified = m.verified
                     \/ /\ r.verified = m.verified \cup {InHand(o)}
                        /\ ~ShortOfConcepts(concepts[InHand(o)])
              PROVE  \/ memory'[o].verified = m.verified
                     \/ /\ memory'[o].verified = m.verified \cup {InHand(o)}
                        /\ concepts[InHand(o)] = "all"
          BY <4>3, SkipMemory DEF ShortOfConcepts
        <4> HIDE DEF m
        <4> QED
          BY <2>3, <4>1, <4>2, <4>3, ProbeSkips DEF m
      <3>3. pc[o] \notin Resting
        BY <3>1 DEF Resting
      <3> QED
        BY <2>0, <2>1, <3>1, <3>2, <3>3 DEF SkipAt
    <2>4. CASE CreateOrg(o)
      <3>1. /\ pc[o] \notin Resting /\ orgs \subseteq orgs' /\ concepts' = concepts
            /\ memory' = memory
        BY <2>4 DEF CreateOrg, Resting
      <3> QED
        BY <2>0, <2>1, <3>1 DEF SkipAt
    <2>5. CASE \/ Finish(o) \/ ReadList(o) \/ MarkInflight(o) \/ SetUpUser(o)
               \/ UploadBundle(o) \/ PollStatus(o) \/ CheckLanded(o) \/ AppendRow(o)
               \/ ClearInflight(o) \/ RequestStop(o)
      <3>1. /\ orgs' = orgs /\ concepts' = concepts /\ pc[o] \notin Resting
        BY <2>5
        DEF Finish, ReadList, MarkInflight, SetUpUser, UploadBundle, PollStatus,
            CheckLanded, AppendRow, ClearInflight, RequestStop, Resting
      <3>2. memory'[o].verified = m.verified
        <4>1. CASE Probe(o)
          <5>1. pc[o] = "probe" /\ pc'[o] # "probe"
            BY <1>0, <4>1 DEF Probe, Skip
          <5> QED
            BY <2>5, <5>1
            DEF Finish, ReadList, MarkInflight, SetUpUser, UploadBundle, PollStatus,
                CheckLanded, AppendRow, ClearInflight, RequestStop
        <4>2. CASE ~Probe(o)
          BY <2>5, <4>2, StopMemory DEF Proceed
        <4> QED
          BY <4>1, <4>2
      <3> QED
        BY <2>0, <2>1, <3>1, <3>2 DEF SkipAt
    <2>6. CASE DealWithInflight(o) \/ RemoveShort(o)
      <3>1. pc'[o] \in Resting /\ memory' = memory
        BY <2>6 DEF DealWithInflight, RemoveShort, Resting
      <3>2. \/ orgs' = orgs /\ concepts' = concepts
            \/ \E t : orgs' = orgs \ {t} /\ concepts' = [concepts EXCEPT ![t] = "none"]
        BY <2>6 DEF DealWithInflight, RemoveShort, Remove
      <3>3. m.verified \subseteq Tenants
        BY <2>0, MemoryFields
      <3> QED
        BY <1>0, <2>0, <2>1, <3>1, <3>2, <3>3 DEF SkipAt
    <2> QED
      BY <1>1, <2>2, <2>3, <2>4, <2>5, <2>6 DEF Acts, Proceed
  <1>2. ASSUME NEW t \in Tenants, RunImport(t)
        PROVE  SkipInv'
    <2>1. orgs' = orgs /\ pc' = pc /\ memory' = memory
      BY <1>2 DEF RunImport
    <2>2. \A u \in Tenants : concepts[u] = "all" => concepts'[u] = "all"
      BY <1>0, <1>2 DEF RunImport
    <2>3. \A o \in Operators : memory[o].verified \subseteq Tenants
      BY <1>0, MemoryFields
    <2> QED
      BY <2>1, <2>2, <2>3 DEF SkipInv, SkipAt
  <1>3. CASE UNCHANGED vars
    BY <1>3 DEF vars, SkipInv, SkipAt
  <1> QED
    BY <1>1, <1>2, <1>3 DEF Next, Acts

\* One operator, whether or not every concept count can be read: an organisation a
\* pass skipped on its count carries all of the bundle's concepts for as long as it
\* exists, whatever the import jobs, the later tenants and the removals between passes
\* do.  Of one whose count could not be read nothing is claimed: the script skips it on
\* the name alone (SkipsAreVerified is violated).
THEOREM SkipsAreEarned ==
  ASSUME Alone
  PROVE  Spec => []SkippedAreWhole
  <1>1. Init => CoverInv /\ SkipInv
    <2>1. Init => CoverInv
      BY DEF Init, CoverInv, CoverAt, Accountable, OnServer, Listing, InImport, Importing
    <2>2. Init => SkipInv
      BY DEF Init, SkipInv, SkipAt, StartingAt, Resting
    <2> QED
      BY <2>1, <2>2
  <1>2. TypeOK /\ CoverInv /\ SkipInv /\ [Next]_vars => CoverInv' /\ SkipInv'
    BY CoverStep, SkipStep
  <1>3. SkipInv => SkippedAreWhole
    BY DEF SkipInv, SkipAt, SkippedAreWhole
  <1> QED
    BY <1>1, <1>2, <1>3, TypeCorrect, PTL DEF Spec

-----------------------------------------------------------------------------
(* Every step of a pass advances: what termination needs besides fairness.  *)

\* The order in which the script takes a tenant through its steps.
Place == [next |-> 0, probe |-> 1, mark |-> 2, create |-> 3, user |-> 4, upload |-> 5,
          poll |-> 6, check |-> 7, landed |-> 8, died |-> 8, clear |-> 9, exited |-> 10]

KeepsTenant(o) == memory'[o].at = memory[o].at
FurtherOn(o) == KeepsTenant(o) /\ Place[pc[o]] < Place[pc'[o]]
TenantBehind(o) ==
    /\ memory[o].at <= Len(Recipe) /\ memory'[o].at = memory[o].at + 1
    /\ pc'[o] \in {"next", "exited"}
ReadAgain(o) ==
    /\ KeepsTenant(o) /\ pc[o] = "poll" /\ pc'[o] = "poll"
    /\ memory'[o].polls = memory[o].polls + 1 /\ memory'[o].polls < Polls

\* Whatever the server answers, loses or leaves running, a step of a pass takes
\* the tenant in hand further on or leaves it behind for good, or reads the status
\* of its import one more time of those it may: there is no way back to a tenant.
EveryPassAdvances ==
    [][\A o \in Operators :
         Proceed(o) => FurtherOn(o) \/ TenantBehind(o) \/ ReadAgain(o)]_vars

\* The places of the script, numbered.
LEMMA Places ==
  /\ Place["next"] = 0 /\ Place["probe"] = 1 /\ Place["mark"] = 2
  /\ Place["create"] = 3 /\ Place["user"] = 4 /\ Place["upload"] = 5
  /\ Place["poll"] = 6 /\ Place["check"] = 7 /\ Place["landed"] = 8
  /\ Place["died"] = 8 /\ Place["clear"] = 9 /\ Place["exited"] = 10
  BY DEF Place

\* A pass that goes to a later place, with the same tenant in hand, gets on.
LEMMA GoingOn ==
  ASSUME TypeOK, NEW o \in Operators, NEW next, Goto(o, next),
         Place[pc[o]] < Place[next], memory'[o].at = memory[o].at
  PROVE  FurtherOn(o)
  <1>1. pc'[o] = next
    BY DEF Goto, TypeOK
  <1> QED
    BY <1>1 DEF FurtherOn, KeepsTenant

\* What changes of a pass' memory while it keeps its tenant, and when it does not.
LEMMA Moved ==
  ASSUME TypeOK, NEW o \in Operators
  PROVE  /\ memory[o].at \in Nat /\ memory[o].polls \in Nat
         /\ memory' = memory => memory'[o].at = memory[o].at
         /\ \A n : Remember(o, [memory[o] EXCEPT !.baseline = n])
                     => memory'[o].at = memory[o].at
         /\ \A n : Remember(o, [memory[o] EXCEPT !.sinceStop = n])
                     => memory'[o].at = memory[o].at
         /\ \A n : Remember(o, [memory[o] EXCEPT !.done = n])
                     => memory'[o].at = memory[o].at
         /\ \A n : Remember(o, [memory[o] EXCEPT !.failures = n])
                     => memory'[o].at = memory[o].at
         /\ \A n : Remember(o, [memory[o] EXCEPT !.polls = n])
                     => memory'[o].at = memory[o].at /\ memory'[o].polls = n
         /\ \A n : Remember(o, [memory[o] EXCEPT !.at = n]) => memory'[o].at = n
  <1>1. memory \in [Operators -> Memory] /\ memory[o] \in Memory
    BY DEF TypeOK
  <1>2. memory[o].at \in Nat /\ memory[o].polls \in Nat
    BY <1>1, MemoryFields, RecipePlaces, LimitAssumption DEF LimitAssumption
  <1>3. \A m : Remember(o, m) => memory'[o] = m
    BY <1>1 DEF Remember
  <1>4. PICK r \in Memory : r = memory[o]
    BY <1>1
  <1>5. /\ \A n : [r EXCEPT !.baseline = n].at = r.at
        /\ \A n : [r EXCEPT !.sinceStop = n].at = r.at
        /\ \A n : [r EXCEPT !.done = n].at = r.at
        /\ \A n : [r EXCEPT !.failures = n].at = r.at
        /\ \A n : [r EXCEPT !.polls = n].at = r.at /\ [r EXCEPT !.polls = n].polls = n
        /\ \A n : [r EXCEPT !.at = n].at = n
    BY DEF Memory
  <1>6. /\ \A n : [memory[o] EXCEPT !.baseline = n].at = memory[o].at
        /\ \A n : [memory[o] EXCEPT !.sinceStop = n].at = memory[o].at
        /\ \A n : [memory[o] EXCEPT !.done = n].at = memory[o].at
        /\ \A n : [memory[o] EXCEPT !.failures = n].at = memory[o].at
    BY <1>4, <1>5
  <1>7. /\ \A n : /\ [memory[o] EXCEPT !.polls = n].at = memory[o].at
                 /\ [memory[o] EXCEPT !.polls = n].polls = n
        /\ \A n : [memory[o] EXCEPT !.at = n].at = n
    BY <1>4, <1>5
  <1>8. ASSUME NEW n, Remember(o, [memory[o] EXCEPT !.baseline = n])
        PROVE  memory'[o].at = memory[o].at
    <2>1. memory'[o] = [memory[o] EXCEPT !.baseline = n]
      BY <1>3, <1>8
    <2> QED
      BY <1>6, <2>1
  <1>9. ASSUME NEW n, Remember(o, [memory[o] EXCEPT !.sinceStop = n])
        PROVE  memory'[o].at = memory[o].at
    <2>1. memory'[o] = [memory[o] EXCEPT !.sinceStop = n]
      BY <1>3, <1>9
    <2> QED
      BY <1>6, <2>1
  <1>10. ASSUME NEW n, Remember(o, [memory[o] EXCEPT !.done = n])
        PROVE  memory'[o].at = memory[o].at
    <2>1. memory'[o] = [memory[o] EXCEPT !.done = n]
      BY <1>3, <1>10
    <2> QED
      BY <1>6, <2>1
  <1>11. ASSUME NEW n, Remember(o, [memory[o] EXCEPT !.failures = n])
        PROVE  memory'[o].at = memory[o].at
    <2>1. memory'[o] = [memory[o] EXCEPT !.failures = n]
      BY <1>3, <1>11
    <2> QED
      BY <1>6, <2>1
  <1>12. ASSUME NEW n, Remember(o, [memory[o] EXCEPT !.polls = n])
         PROVE  memory'[o].at = memory[o].at /\ memory'[o].polls = n
    <2>1. memory'[o] = [memory[o] EXCEPT !.polls = n]
      BY <1>3, <1>12
    <2> QED
      BY <1>7, <2>1
  <1>14. ASSUME NEW n, Remember(o, [memory[o] EXCEPT !.at = n])
         PROVE  memory'[o].at = n
    <2>1. memory'[o] = [memory[o] EXCEPT !.at = n]
      BY <1>3, <1>14
    <2> QED
      BY <1>7, <2>1
  <1> QED
    BY <1>2, <1>8, <1>9, <1>10, <1>11, <1>12, <1>14

\* A pass leaves a tenant behind only for the one after it.
LEMMA LeavingBehind ==
  ASSUME TypeOK, NEW o \in Operators, memory[o].at <= Len(Recipe),
         memory'[o].at = memory[o].at + 1, Goto(o, "next") \/ Goto(o, "exited")
  PROVE  TenantBehind(o)
  <1>1. pc'[o] \in {"next", "exited"}
    BY DEF Goto, TypeOK
  <1> QED
    BY <1>1 DEF TenantBehind

\* Each step of the script takes the tenant further on or leaves it behind.
LEMMA ProceedAdvances ==
  ASSUME TypeOK, NEW o \in Operators, Proceed(o)
  PROVE  FurtherOn(o) \/ TenantBehind(o) \/ ReadAgain(o)
  <1>1. CASE Finish(o)
    <2>1. pc[o] = "next" /\ Goto(o, "exited") /\ memory' = memory
      BY <1>1 DEF Finish, Exit
    <2>2. memory'[o].at = memory[o].at
      BY <2>1
    <2>3. FurtherOn(o)
      BY <2>1, <2>2, Places, GoingOn
    <2> QED
      BY <2>3
  <1>2. CASE ReadList(o)
    <2>1. /\ pc[o] = "next"
          /\ Goto(o, "exited") \/ Goto(o, "probe") \/ Goto(o, "mark")
      BY <1>2 DEF ReadList, Exit
    <2>2. \E n : Remember(o, [memory[o] EXCEPT !.baseline = n])
      BY <1>2 DEF ReadList
    <2>3. memory'[o].at = memory[o].at
      BY <2>2, Moved
    <2>4. FurtherOn(o)
      BY <2>1, <2>3, Places, GoingOn
    <2> QED
      BY <2>4
  <1>3. CASE Probe(o)
    <2>1. pc[o] = "probe"
      BY <1>3 DEF Probe
    <2>2. CASE Goto(o, "exited") /\ memory' = memory
      <3>1. memory'[o].at = memory[o].at
        BY <2>2
      <3>2. FurtherOn(o)
        BY <2>1, <2>2, <3>1, Places, GoingOn
      <3> QED
        BY <3>2
    <2>3. ASSUME NEW m \in Memory, Skip(o, m)
          PROVE  TenantBehind(o)
      <3>1. memory'[o].at = memory[o].at + 1
        BY <2>3, SkipMemory
      <3>2. memory[o].at <= Len(Recipe)
        BY <2>1, InHandNow, RecipePlaces
      <3> QED
        BY <2>3, <3>1, <3>2, LeavingBehind DEF Skip
    <2>4. (Goto(o, "exited") /\ memory' = memory) \/ \E m \in Memory : Skip(o, m)
      BY <1>3, <2>1, InHandNow, ProbeSkips DEF Exit
    <2> QED
      BY <2>2, <2>3, <2>4
  <1>4. CASE MarkInflight(o)
    <2>1. pc[o] = "mark" /\ Goto(o, "create")
      BY <1>4 DEF MarkInflight
    <2>2. \E n : Remember(o, [memory[o] EXCEPT !.sinceStop = n])
      BY <1>4 DEF MarkInflight
    <2>3. memory'[o].at = memory[o].at
      BY <2>2, Moved
    <2>4. FurtherOn(o)
      BY <2>1, <2>3, Places, GoingOn
    <2> QED
      BY <2>4
  <1>5. CASE CreateOrg(o) \/ SetUpUser(o) \/ UploadBundle(o) \/ CheckLanded(o)
    <2>1. memory' = memory
      BY <1>5 DEF CreateOrg, SetUpUser, UploadBundle, CheckLanded
    <2>2. \/ pc[o] = "create" /\ (Goto(o, "user") \/ Goto(o, "died"))
          \/ pc[o] = "user" /\ (Goto(o, "upload") \/ Goto(o, "died"))
          \/ pc[o] = "upload" /\ (Goto(o, "poll") \/ Goto(o, "died"))
          \/ pc[o] = "check" /\ (Goto(o, "landed") \/ Goto(o, "died"))
      BY <1>5 DEF CreateOrg, SetUpUser, UploadBundle, CheckLanded, Die
    <2>3. memory'[o].at = memory[o].at
      BY <2>1, Moved
    <2>4. FurtherOn(o)
      BY <2>2, <2>3, Places, GoingOn
    <2> QED
      BY <2>4
  <1>6. CASE PollStatus(o)
    <2>1. pc[o] = "poll"
      BY <1>6 DEF PollStatus
    <2>2. CASE /\ Goto(o, "check") \/ Goto(o, "died")
               /\ \E n : Remember(o, [memory[o] EXCEPT !.polls = n])
      <3>1. memory'[o].at = memory[o].at
        BY <2>2, Moved
      <3>2. FurtherOn(o)
        BY <2>1, <2>2, <3>1, Places, GoingOn
      <3> QED
        BY <3>2
    <2>3. CASE /\ Goto(o, "poll") /\ memory[o].polls + 1 # Polls
               /\ Remember(o, [memory[o] EXCEPT !.polls = memory[o].polls + 1])
      <3>1. memory'[o].at = memory[o].at /\ memory'[o].polls = memory[o].polls + 1
        BY <2>3, Moved
      <3>2. memory[o].polls \in Nat /\ memory[o].polls + 1 < Polls
        <4>1. memory[o] \in Memory
          BY DEF TypeOK
        <4>2. memory[o].polls \in 0..(Polls - 1) /\ Polls \in Nat
          BY <4>1, MemoryFields, LimitAssumption DEF LimitAssumption
        <4> QED
          BY <2>3, <4>2
      <3>3. pc'[o] = "poll"
        BY <2>3 DEF Goto, TypeOK
      <3>4. ReadAgain(o)
        BY <2>1, <3>1, <3>2, <3>3 DEF ReadAgain, KeepsTenant
      <3> QED
        BY <3>4
    <2>4. \/ /\ Goto(o, "check") \/ Goto(o, "died")
             /\ \E n : Remember(o, [memory[o] EXCEPT !.polls = n])
          \/ /\ Goto(o, "poll") /\ memory[o].polls + 1 # Polls
             /\ Remember(o, [memory[o] EXCEPT !.polls = memory[o].polls + 1])
      <3>1. CASE memory[o].polls + 1 = Polls
        BY <1>6, <3>1 DEF PollStatus, Die
      <3>2. CASE memory[o].polls + 1 # Polls
        BY <1>6, <3>2 DEF PollStatus, Die
      <3> QED
        BY <3>1, <3>2
    <2> QED
      BY <2>2, <2>3, <2>4
  <1>7. CASE AppendRow(o)
    <2>1. pc[o] \in {"landed", "died"} /\ Goto(o, "clear")
      BY <1>7 DEF AppendRow
    <2>2. \/ \E n : Remember(o, [memory[o] EXCEPT !.done = n])
          \/ \E n : Remember(o, [memory[o] EXCEPT !.failures = n])
      BY <1>7 DEF AppendRow
    <2>3. memory'[o].at = memory[o].at
      BY <2>2, Moved
    <2>4. FurtherOn(o)
      BY <2>1, <2>3, Places, GoingOn
    <2> QED
      BY <2>4
  <1>8. CASE ClearInflight(o)
    <2>1. /\ Goto(o, "next") \/ Goto(o, "exited")
          /\ Remember(o, [memory[o] EXCEPT !.at = NextPlace(o)])
      BY <1>8 DEF ClearInflight, Exit
    <2>2. memory'[o].at = memory[o].at + 1
      BY <2>1, Moved DEF NextPlace
    <2>3. pc[o] = "clear"
      BY <1>8 DEF ClearInflight
    <2>4. memory[o].at <= Len(Recipe)
      BY <2>3, InHandNow, RecipePlaces
    <2>5. TenantBehind(o)
      BY <2>1, <2>2, <2>4, LeavingBehind
    <2> QED
      BY <2>5
  <1> QED
    BY <1>1, <1>2, <1>3, <1>4, <1>5, <1>6, <1>7, <1>8 DEF Proceed

\* However many operators run it, against whatever server: no step of a pass goes
\* back to an earlier tenant or an earlier step of one, and the status of an import
\* is read no more often than it may be.
THEOREM PassesAdvance == Spec => EveryPassAdvances
  <1>1. TypeOK /\ [Next]_vars =>
          \A o \in Operators : Proceed(o) => FurtherOn(o) \/ TenantBehind(o) \/ ReadAgain(o)
    BY ProceedAdvances
  <1> QED
    BY <1>1, TypeCorrect, PTL DEF Spec, EveryPassAdvances
=============================================================================
