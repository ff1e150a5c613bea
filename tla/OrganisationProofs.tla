-------------------------- MODULE OrganisationProofs --------------------------
(***************************************************************************)
(* Theorems about Organisation, for any number of organisations and users. *)
(***************************************************************************)
EXTENDS Organisation, SequenceTheorems, TLAPS

USE OrganisationAssumption
-----------------------------------------------------------------------------
\* Who writes which tables.
Loaded == (STRUCTURAL \ {"address_level_type"}) \cup TRANSACTIONAL
Written(by) ==
    CASE by = "generated" -> Loaded
      [] by = "run" -> RUN_ARTEFACTS \cup TRANSACTIONAL
      [] by = "bootstrap" -> STRUCTURAL \ {"groups"}
      [] by = "bundle" -> {"form", "users", "groups", "user_group",
                           "address_level_type", "address_level", "group_privilege",
                           "location_location_mapping", "migrated"}

WellMade(r) == r.t \in Written(r.by) /\ (r.by = "generated" => r.n = Nobody)

\* The bundle's rows never outlive its forms, which no teardown deletes.
BundleIsWhole ==
    \A r \in rows : r.by = "bundle" /\ r.t # "migrated"
                      => Made("form", r.o, "bundle") \in rows

IInv ==
    /\ TypeOK
    /\ \A r \in rows : WellMade(r)
    /\ \A o \in Orgs : loading[o] \in Seq(Loaded)
    /\ \A o \in emptied : loading[o] = <<>>
    /\ EmptiedHasRoom
    /\ CohortIsUsable
    /\ BundleIsWhole

LEMMA TablesAre ==
    /\ Tables = {"user_group", "users", "groups", "catchment_address_mapping",
                 "catchment", "address_level", "address_level_type", "form",
                 "group_privilege", "location_location_mapping",
                 "sync_telemetry", "encounter", "individual", "migrated"}
    /\ Loaded = {"user_group", "users", "groups", "catchment_address_mapping",
                 "catchment", "address_level", "encounter", "individual"}
    /\ Deleted = {"user_group", "users", "groups", "catchment_address_mapping",
                 "catchment", "address_level", "address_level_type",
                 "sync_telemetry", "encounter", "individual"}
BY DEF Tables, Loaded, Deleted, STRUCTURAL, METADATA, RUN_ARTEFACTS, TRANSACTIONAL

LEMMA WrittenAre ==
    ASSUME NEW by \in Makers
    PROVE  Written(by) \subseteq Tables
BY TablesAre DEF Written, Makers, STRUCTURAL, RUN_ARTEFACTS, TRANSACTIONAL, Loaded

LEMMA NobodyIsNoUser == Nobody \notin Users /\ 0 \in Users
BY DEF Nobody, Users

\* A bootstrap user refers to the bootstrap's catchment, whatever the state.
LEMMA UserKeys ==
    ASSUME NEW o, NEW u
    PROVE  /\ Keys(Of("users", o, u)) = {Made("catchment", o, "bootstrap")}
           /\ Keys(Of("users", o, u))' = {Made("catchment", o, "bootstrap")}
<1>1. /\ Of("users", o, u).t = "users" /\ Of("users", o, u).by = "bootstrap"
      /\ Of("users", o, u).o = o
  BY DEF Of
<1> QED BY <1>1 DEF Keys

LEMMA LoadOrderIsLoaded == Tail(LOAD_ORDER) \in Seq(Loaded)
<1>1. Tail(LOAD_ORDER) = <<"address_level", "catchment", "catchment_address_mapping",
                           "groups", "users", "user_group", "individual", "encounter">>
  BY DEF LOAD_ORDER
<1>2. <<"address_level", "catchment", "catchment_address_mapping",
        "groups", "users", "user_group", "individual", "encounter">> \in Seq(Loaded)
  BY TablesAre
<1> QED BY <1>1, <1>2

LEMMA LoadedIsTables ==
    ASSUME NEW s \in Seq(Loaded) PROVE s \in Seq(Tables)
<1>1. Loaded \subseteq Tables
  BY TablesAre
<1> QED BY <1>1

-----------------------------------------------------------------------------
LEMMA InitIInv == Init => IInv
<1> SUFFICES ASSUME Init PROVE IInv
  OBVIOUS
<1>1. PICK seeded \in SUBSET Orgs :
          rows = UNION {EarlierBootstrap(o) : o \in seeded}
  BY DEF Init
<1>2. \A r \in rows : /\ r \in Row /\ r.by \in {"bootstrap", "generated"}
                      /\ WellMade(r)
  BY <1>1, NobodyIsNoUser, TablesAre
  DEF EarlierBootstrap, Made, Of, Everyone, Shared, Row, Makers, Written, WellMade, STRUCTURAL
<1>3. TypeOK
  BY <1>2 DEF Init, TypeOK
<1> QED BY <1>2, <1>3 DEF Init, IInv, EmptiedHasRoom, CohortIsUsable, BundleIsWhole

\* Adding rows of other makers than the generator and the runs to an
\* organisation, and none of the cohort's rows lost, keeps the rest.
LEMMA BootstrapStep ==
    ASSUME IInv, NEW o \in Orgs, NEW count \in 1..MaxCohort, Bootstrap(o, count)
    PROVE  IInv'
<1> DEFINE new == cohort_usernames(count)
<1>1. new \subseteq Users
  BY DEF cohort_usernames, Users
<1>2. CASE UNCHANGED <<rows, locType, cohort, emptied>>
  <2>1. TypeOK' /\ EmptiedHasRoom' /\ BundleIsWhole' /\ (\A r \in rows' : WellMade(r))
    BY <1>2 DEF Bootstrap, IInv, TypeOK, EmptiedHasRoom, BundleIsWhole
  <2>2. CohortIsUsable'
    BY <1>2, UserKeys DEF Bootstrap, IInv, CohortIsUsable, Privileged
  <2> QED BY <1>2, <2>1, <2>2 DEF Bootstrap, IInv
<1>3. ASSUME NEW type \in PermittedType(o),
             rows' = (rows \ {Shared(o)}) \cup statements(o, type, new),
             locType' = [locType EXCEPT ![o] = type],
             cohort' = [cohort EXCEPT ![o] = @ \cup new],
             emptied' = emptied \ {o}
      PROVE  IInv'
  <2>1. type \in {"bundle", "bootstrap"} /\ (rule[o] = "permits" => type = "bundle")
    BY <1>3 DEF PermittedType
  <2>2. \A r \in statements(o, type, new) :
            r \in Row /\ WellMade(r) /\ r.o = o
    BY <1>1, <2>1, TablesAre, NobodyIsNoUser
    DEF statements, Made, Of, Everyone, Row, Makers, Written, WellMade, STRUCTURAL
  <2>3. TypeOK'
    BY <1>1, <1>3, <2>1, <2>2 DEF IInv, TypeOK, Bootstrap
  <2>4. \A r \in rows' : WellMade(r)
    BY <1>3, <2>2 DEF IInv
  <2>5. EmptiedHasRoom'
    BY <1>3, <2>2 DEF IInv, EmptiedHasRoom
  <2>6. CohortIsUsable'
    <3> SUFFICES ASSUME NEW p \in Orgs, NEW u \in cohort'[p]
                 PROVE  /\ Of("users", p, u) \in rows' /\ Privileged(p, u)'
                        /\ Made("catchment", p, "bootstrap") \in rows'
                        /\ Made("catchment_address_mapping", p, "bootstrap") \in rows'
                        /\ rule'[p] = "permits" => locType'[p] = "bundle"
      BY UserKeys DEF CohortIsUsable
    <3>1. u \in Users /\ u # Nobody
      BY <2>3, NobodyIsNoUser DEF TypeOK
    <3>2. \A t \in Tables : Of(t, p, u) # Shared(o)
      BY <3>1 DEF Of, Shared
    <3>3. \A t \in Tables \ {"user_group"} : Made(t, p, "bootstrap") # Shared(o)
      BY DEF Of, Shared, Made
    <3>4. Everyone(p) # Shared(o)
      BY DEF Everyone, Shared, Of, Made
    <3>5. CASE p = o /\ u \in new
      BY <1>3, <2>1, <3>1, <3>5 DEF statements, Privileged, Bootstrap, IInv, TypeOK
    <3>6. CASE u \in cohort[p]
      <4>1. /\ Of("users", p, u) \in rows /\ Privileged(p, u)
            /\ Made("catchment", p, "bootstrap") \in rows
            /\ Made("catchment_address_mapping", p, "bootstrap") \in rows
            /\ rule[p] = "permits" => locType[p] = "bundle"
        BY <3>6, UserKeys DEF IInv, CohortIsUsable
      <4>2. {Of("user_group", p, u), Everyone(p)} \subseteq rows
        BY <3>1, <4>1 DEF Privileged
      <4>3. /\ Of("users", p, u) \in rows' /\ Of("user_group", p, u) \in rows'
            /\ Made("catchment", p, "bootstrap") \in rows'
            /\ Made("catchment_address_mapping", p, "bootstrap") \in rows'
            /\ Everyone(p) \in rows'
        BY <1>3, <3>2, <3>3, <3>4, <4>1, <4>2, TablesAre
      <4>4. rule'[p] = "permits" => locType'[p] = "bundle"
        BY <1>3, <2>1, <4>1 DEF Bootstrap, IInv, TypeOK
      <4> QED BY <3>1, <4>3, <4>4 DEF Privileged
    <3> QED BY <1>3, <3>5, <3>6 DEF IInv, TypeOK
  <2>7. BundleIsWhole'
    <3>1. \A r \in statements(o, type, new) :
              r.by = "bundle" => r \in rows
      BY <1>3, <2>1 DEF statements, Made, Of, Everyone, PermittedType
    <3>2. \A r \in rows : r.t # "user_group" => r \in rows'
      BY <1>3 DEF Shared, Of
    <3> QED BY <1>3, <3>1, <3>2 DEF IInv, BundleIsWhole, Made
  <2> QED BY <1>3, <2>3, <2>4, <2>5, <2>6, <2>7 DEF IInv, Bootstrap
<1> QED BY <1>2, <1>3 DEF Bootstrap, upsert

\* What rows gain without an organisation being called empty or a user lost.
LEMMA Gain ==
    ASSUME IInv, NEW o \in Orgs, NEW new \in SUBSET Row,
           \A r \in new : r.o = o /\ WellMade(r) /\ (r.by = "bundle" => r.t = "migrated"),
           rows' = rows \cup new,
           \/ o \notin emptied
           \/ \A r \in new : r.by # "generated" /\ ~(r.by = "run" /\ r.n = Nobody),
           UNCHANGED <<locType, rule, emptied, cohort>>,
           loading' \in [Orgs -> Seq(Loaded)],
           \A p \in emptied : loading'[p] = <<>>
    PROVE  IInv'
<1>1. TypeOK'
  <2>1. loading' \in [Orgs -> Seq(Tables)]
    BY LoadedIsTables
  <2> QED BY <2>1 DEF IInv, TypeOK
<1>2. \A r \in rows' : WellMade(r)
  BY DEF IInv
<1>3. EmptiedHasRoom'
  BY DEF IInv, EmptiedHasRoom
<1>4. CohortIsUsable'
  BY UserKeys DEF IInv, CohortIsUsable, Privileged
<1>5. BundleIsWhole'
  BY DEF IInv, BundleIsWhole
<1> QED BY <1>1, <1>2, <1>3, <1>4, <1>5 DEF IInv

LEMMA ImportStep ==
    ASSUME IInv, NEW o \in Orgs, NEW config \in {"none", "permits"},
           NEW whole \in BOOLEAN, Import(o, config, whole)
    PROVE  IInv'
<1> DEFINE new == {Made(t, o, "bundle") : t \in {"form", "users", "groups", "user_group"}
                     \cup IF whole THEN {"address_level_type", "address_level",
                           "location_location_mapping", "group_privilege"} ELSE {}}
<1>1. \A r \in new : /\ r \in Row /\ r.o = o /\ r.by = "bundle"
                      /\ WellMade(r)
  BY TablesAre DEF Made, Row, Makers, Written, WellMade
<1>2. rows' = rows \cup new
  BY DEF Import
<1> HIDE DEF new
<1>3. TypeOK'
  BY <1>1, <1>2 DEF IInv, TypeOK, Import
<1>4. \A r \in rows' : WellMade(r)
  BY <1>1, <1>2 DEF IInv
<1>5. EmptiedHasRoom'
  BY <1>1, <1>2 DEF IInv, EmptiedHasRoom, Import
<1>6. CohortIsUsable'
  <2> SUFFICES ASSUME NEW p \in Orgs, NEW u \in cohort'[p]
               PROVE  /\ Of("users", p, u) \in rows' /\ Privileged(p, u)'
                      /\ Made("catchment", p, "bootstrap") \in rows'
                      /\ Made("catchment_address_mapping", p, "bootstrap") \in rows'
                      /\ rule'[p] = "permits" => locType'[p] = "bundle"
    BY UserKeys DEF CohortIsUsable
  <2>1. p # o /\ u \in cohort[p] /\ rule'[p] = rule[p] /\ locType'[p] = locType[p]
    BY DEF Import, IInv, TypeOK
  <2> QED BY <1>2, <2>1, UserKeys DEF IInv, CohortIsUsable, Privileged
<1>7. BundleIsWhole'
  <2>1. Made("form", o, "bundle") \in new
    BY DEF new
  <2> QED BY <1>1, <1>2, <2>1 DEF IInv, BundleIsWhole
<1> QED BY <1>3, <1>4, <1>5, <1>6, <1>7 DEF IInv, Import

LEMMA CopyStep ==
    ASSUME IInv, NEW o \in Orgs, CopyTable(o)
    PROVE  IInv'
<1> DEFINE new == Made(Head(loading[o]), o, "generated")
<1>1. loading[o] \in Seq(Loaded) /\ loading[o] # <<>>
  BY DEF CopyTable, IInv
<1>2. Head(loading[o]) \in Loaded /\ Tail(loading[o]) \in Seq(Loaded) /\ <<>> \in Seq(Loaded)
  BY <1>1, HeadTailProperties
<1>3. /\ new \in Row /\ new.o = o /\ WellMade(new) /\ new.by # "bundle"
  BY <1>2, TablesAre DEF Made, Row, Makers, Written, WellMade
<1>4. o \notin emptied
  BY <1>1 DEF IInv
<1>5. /\ loading' \in [Orgs -> Seq(Loaded)]
      /\ \A p \in emptied : loading'[p] = <<>>
  <2>1. loading \in [Orgs -> Seq(Loaded)] /\ \A p \in emptied : loading[p] = <<>>
    BY DEF IInv, TypeOK
  <2>2. PICK left \in Seq(Loaded) : loading' = [loading EXCEPT ![o] = left]
    BY <1>2 DEF CopyTable
  <2> QED
    BY <1>4, <2>1, <2>2
<1>6. \E gain \in {{}, {new}} : rows' = rows \cup gain
  BY DEF CopyTable
<1> HIDE DEF new
<1>7. PICK gain \in {{}, {new}} : rows' = rows \cup gain
  BY <1>6
<1>8. gain \in SUBSET Row /\ \A r \in gain : r.o = o /\ WellMade(r) /\ (r.by = "bundle" => r.t = "migrated")
  BY <1>3, <1>7
<1>9. UNCHANGED <<locType, rule, emptied, cohort>>
  BY DEF CopyTable
<1> QED BY <1>4, <1>5, <1>7, <1>8, <1>9, Gain

LEMMA SyncStep ==
    ASSUME IInv, NEW o \in Orgs, NEW u \in Users \cup {Nobody}, Sync(o, u)
    PROVE  IInv'
<1>1. PICK wrote \in SUBSET {"individual", "encounter"} :
          rows' = rows \cup {Ran(t, o, u) : t \in wrote \cup {"sync_telemetry"}}
  BY DEF Sync
<1> DEFINE new == {Ran(t, o, u) : t \in wrote \cup {"sync_telemetry"}}
<1>2. \A r \in new : /\ r \in Row /\ r.o = o /\ r.by = "run" /\ r.n = u
                      /\ WellMade(r)
  BY TablesAre DEF Ran, Row, Makers, Written, WellMade, RUN_ARTEFACTS, TRANSACTIONAL
<1>3. u = Nobody => o \notin emptied
  <2>1. u = Nobody => Made("users", o, "generated") \in rows
    BY DEF Sync
  <2>2. Made("users", o, "generated").o = o /\ Made("users", o, "generated").by = "generated"
    BY DEF Made
  <2> QED BY <2>1, <2>2 DEF IInv, EmptiedHasRoom
<1>4. /\ loading' \in [Orgs -> Seq(Loaded)]
      /\ \A p \in emptied : loading'[p] = <<>>
  BY DEF Sync, IInv, TypeOK
<1>5. UNCHANGED <<locType, rule, emptied, cohort>>
  BY DEF Sync
<1> HIDE DEF new
<1>6. rows' = rows \cup new /\ new \in SUBSET Row
  BY <1>1, <1>2 DEF new
<1>7. \/ o \notin emptied
      \/ \A r \in new : r.by # "generated" /\ ~(r.by = "run" /\ r.n = Nobody)
  BY <1>2, <1>3
<1> QED BY <1>2, <1>4, <1>5, <1>6, <1>7, Gain

\* A teardown takes every generated row of its organisations, and every row of
\* a generated user's run.
LEMMA TeardownStep ==
    ASSUME IInv, NEW orgs \in SUBSET Orgs, NEW scope \in Scopes, Teardown(orgs, scope)
    PROVE  IInv'
<1>1. TypeOK'
  BY DEF IInv, TypeOK, Teardown
<1>2. \A r \in rows' : WellMade(r)
  BY DEF IInv, Teardown
<1>3. ASSUME NEW r \in rows, r.o \in orgs, r.by = "generated"
      PROVE  r \in Cut(orgs, scope)
  <2>1. r.t \in Loaded
    BY <1>3 DEF IInv, Written, WellMade
  <2>2. Provenance(r)
    <3>1. r.n = Nobody /\ r \in Row
      BY <1>3 DEF IInv, TypeOK, WellMade
    <3>2. r = Made(r.t, r.o, "generated")
      BY <1>3, <3>1 DEF Row, Made
    <3>3. CASE r.t = "catchment_address_mapping"
      <4>1. /\ Made("catchment", r.o, r.by).t = "catchment"
            /\ Made("catchment", r.o, r.by).by = "generated"
        BY <1>3 DEF Made
      <4> QED BY <3>3, <4>1 DEF Provenance, Prefix, GENERATED_UUID
    <3>4. CASE r.t = "groups"
      BY <1>3, <3>2, <3>4 DEF Provenance, Prefix, GENERATED_UUID, Everyone
    <3>5. CASE r.t \notin {"groups", "catchment_address_mapping"}
      BY <1>3, <2>1, <3>5, TablesAre DEF Provenance, Prefix, GENERATED_UUID
    <3> QED BY <3>3, <3>4, <3>5
  <2> QED BY <1>3, <2>1, <2>2, TablesAre DEF Cut
<1>4. ASSUME NEW r \in rows, r.o \in orgs, r.by = "run"
      PROVE  r \in Cut(orgs, scope)
  <2>1. r.t \in {"sync_telemetry", "encounter", "individual"}
    BY <1>4 DEF IInv, Written, WellMade, RUN_ARTEFACTS, TRANSACTIONAL
  <2> QED BY <1>4, <2>1, TablesAre DEF Cut, STRUCTURAL
<1>5. EmptiedHasRoom'
  BY <1>3, <1>4 DEF IInv, EmptiedHasRoom, Teardown
<1>6. CohortIsUsable'
  <2> SUFFICES ASSUME NEW p \in Orgs, NEW u \in cohort'[p]
               PROVE  /\ Of("users", p, u) \in rows' /\ Privileged(p, u)'
                      /\ Made("catchment", p, "bootstrap") \in rows'
                      /\ Made("catchment_address_mapping", p, "bootstrap") \in rows'
                      /\ rule'[p] = "permits" => locType'[p] = "bundle"
    BY UserKeys DEF CohortIsUsable
  <2>1. p \notin orgs /\ u \in cohort[p]
    BY DEF Teardown
  <2>2. u # Nobody
    BY <2>1, NobodyIsNoUser DEF IInv, TypeOK
  <2>3. /\ Of("users", p, u) \in rows /\ Of("user_group", p, u) \in rows
        /\ Made("catchment", p, "bootstrap") \in rows /\ Everyone(p) \in rows
        /\ Made("catchment_address_mapping", p, "bootstrap") \in rows
        /\ rule[p] = "permits" => locType[p] = "bundle"
    BY <2>1, <2>2, UserKeys DEF IInv, CohortIsUsable, Privileged
  <2>4. \A r \in rows : r.o = p => r \in rows'
    BY <2>1 DEF Teardown, Cut
  <2>5. /\ Of("users", p, u) \in rows' /\ Of("user_group", p, u) \in rows'
        /\ Made("catchment", p, "bootstrap") \in rows' /\ Everyone(p) \in rows'
        /\ Made("catchment_address_mapping", p, "bootstrap") \in rows'
    BY <2>3, <2>4 DEF Of, Made, Everyone
  <2> QED BY <2>2, <2>3, <2>5 DEF Privileged, Teardown
<1>7. BundleIsWhole'
  <2>1. \A r \in rows : r.t = "form" => r \in rows'
    BY TablesAre DEF Teardown, Cut
  <2>2. rows' \subseteq rows
    BY DEF Teardown
  <2> QED BY <2>1, <2>2 DEF IInv, BundleIsWhole, Made
<1> QED BY <1>1, <1>2, <1>5, <1>6, <1>7 DEF IInv, Teardown

LEMMA StepKeepsIInv == IInv /\ [Next]_vars => IInv'
<1> SUFFICES ASSUME IInv, [Next]_vars PROVE IInv'
  OBVIOUS
<1>1. ASSUME NEW o \in Orgs, Migrate(o) PROVE IInv'
  <2> DEFINE r == Made("migrated", o, "bundle")
  <2>1. r \in Row /\ r.o = o /\ r.by = "bundle" /\ r.t = "migrated" /\ WellMade(r)
    BY TablesAre DEF Made, Row, Makers, Written, WellMade
  <2>2. /\ rows' = rows \cup {r} /\ UNCHANGED <<locType, rule, emptied, cohort>>
        /\ loading' \in [Orgs -> Seq(Loaded)]
        /\ \A p \in emptied : loading'[p] = <<>>
    BY <1>1 DEF Migrate, IInv, TypeOK
  <2> HIDE DEF r
  <2>3. /\ {r} \in SUBSET Row
        /\ \A q \in {r} : q.o = o /\ WellMade(q) /\ (q.by = "bundle" => q.t = "migrated")
        /\ \A q \in {r} : q.by # "generated" /\ ~(q.by = "run" /\ q.n = Nobody)
    BY <2>1
  <2> QED BY <2>2, <2>3, Gain
<1>2. ASSUME NEW o \in Orgs, Load(o) PROVE IInv'
  <2>1. /\ loading' \in [Orgs -> Seq(Loaded)]
        /\ \A p \in emptied' : loading'[p] = <<>>
    BY <1>2, LoadOrderIsLoaded DEF Load, IInv, TypeOK
  <2>2. TypeOK'
    BY <1>2, <2>1, LoadedIsTables DEF Load, IInv, TypeOK
  <2>3. EmptiedHasRoom' /\ BundleIsWhole' /\ \A r \in rows' : WellMade(r)
    BY <1>2 DEF Load, IInv, EmptiedHasRoom, BundleIsWhole
  <2>4. CohortIsUsable'
    BY <1>2, UserKeys DEF Load, IInv, CohortIsUsable, Privileged
  <2> QED BY <2>1, <2>2, <2>3, <2>4 DEF IInv
<1>3. CASE UNCHANGED vars
  <2>1. TypeOK' /\ EmptiedHasRoom' /\ BundleIsWhole'
    BY <1>3 DEF vars, IInv, TypeOK, EmptiedHasRoom, BundleIsWhole
  <2>2. CohortIsUsable'
    BY <1>3, UserKeys DEF vars, IInv, CohortIsUsable, Privileged
  <2> QED BY <1>3, <2>1, <2>2 DEF vars, IInv
<1> QED BY <1>1, <1>2, <1>3, BootstrapStep, ImportStep, CopyStep, SyncStep, TeardownStep DEF Next

THEOREM Invariance == Spec => []IInv
BY InitIInv, StepKeepsIInv, PTL DEF Spec

\* Every variable keeps its type, whatever the order of imports, bootstraps,
\* loads, runs and teardowns.
THEOREM TypeCorrect == Spec => []TypeOK
BY Invariance, PTL DEF IInv

\* After a teardown of either scope the next load finds no row of an earlier
\* dataset, nor of the runs of its users.
THEOREM RoomIsMade == Spec => []EmptiedHasRoom
BY Invariance, PTL DEF IInv

\* The users of a bootstrap that succeeded can sync until the organisation is
\* torn down or imported anew.
THEOREM CohortsAreUsable == Spec => []CohortIsUsable
BY Invariance, PTL DEF IInv
-----------------------------------------------------------------------------
LEMMA Order ==
    /\ \A t \in Deleted \ {"sync_telemetry"} : DeletedBefore("sync_telemetry", t)
    /\ DeletedBefore("encounter", "individual")
    /\ DeletedBefore("individual", "address_level")
    /\ DeletedBefore("user_group", "users") /\ DeletedBefore("user_group", "groups")
    /\ DeletedBefore("users", "catchment")
    /\ DeletedBefore("catchment_address_mapping", "catchment")
    /\ DeletedBefore("catchment_address_mapping", "address_level")
<1> DEFINE L == LOAD_ORDER
<1>1. /\ {2, 3, 4, 5, 6, 7} \subseteq DOMAIN L
      /\ L[2] = "address_level" /\ L[3] = "catchment" /\ L[4] = "catchment_address_mapping"
      /\ L[5] = "groups" /\ L[6] = "users" /\ L[7] = "user_group"
  BY DEF LOAD_ORDER
<1> HIDE DEF L
<1>2. /\ LoadedBefore("users", "user_group") /\ LoadedBefore("groups", "user_group")
      /\ LoadedBefore("catchment", "users")
      /\ LoadedBefore("catchment", "catchment_address_mapping")
      /\ LoadedBefore("address_level", "catchment_address_mapping")
  BY <1>1 DEF LoadedBefore, L
<1> QED BY <1>2, TablesAre DEF DeletedBefore, RUN_ARTEFACTS, TRANSACTIONAL, STRUCTURAL

\* A data teardown never meets a foreign key: what it keeps refers only to
\* what it keeps, and what it deletes goes after what refers to it.
LEMMA NothingBlocks ==
    ASSUME IInv, NEW o \in Orgs
    PROVE  ~Blocked({o}, "data")
<1> SUFFICES ASSUME NEW r \in Cut({o}, "data"), NEW q \in rows, r \in Keys(q)
             PROVE  q \in Cut({o}, "data") /\ DeletedBefore(q.t, r.t)
  BY DEF Blocked
<1>1. /\ r.o = o /\ r \in rows /\ r.t \in Deleted
      /\ r.t \in STRUCTURAL => Provenance(r)
  BY DEF Cut
<1>2. q \in Row /\ WellMade(q) /\ q.by \in Makers
  BY DEF IInv, TypeOK, Row
<1>3. r.o = q.o
  BY <1>2 DEF Keys, Made, Of, Everyone, Row
<1>4. r.t # "address_level_type"
  BY <1>1 DEF Provenance, STRUCTURAL
<1>5. \A t \in STRUCTURAL : r # Made(t, o, "bundle")
  BY <1>1 DEF Made, Provenance, Prefix, GENERATED_UUID, Everyone, STRUCTURAL
<1>6. r # Made("catchment", o, "bootstrap") /\ r # Made("address_level", o, "bootstrap")
  BY <1>1 DEF Made, Provenance, Prefix, GENERATED_UUID, Everyone, STRUCTURAL
<1>7. CASE q.t = "sync_telemetry"
  <2>1. r.t = "users"
    BY <1>7 DEF Keys, Made, Of
  <2> QED BY <1>1, <1>3, <1>7, <2>1, Order, TablesAre DEF Cut, STRUCTURAL
<1>8. CASE q.t = "encounter"
  <2>1. r.t = "individual"
    BY <1>2, <1>8 DEF Keys, Row
  <2> QED BY <1>1, <1>3, <1>8, <2>1, Order, TablesAre DEF Cut, STRUCTURAL
<1>9. CASE q.t = "individual"
  <2>1. r.t = "address_level"
    BY <1>9 DEF Keys, Made
  <2> QED BY <1>1, <1>3, <1>9, <2>1, Order, TablesAre DEF Cut, STRUCTURAL
<1>10. CASE q.t = "user_group" /\ q.by = "bundle"
  BY <1>3, <1>5, <1>10, <1>1 DEF Keys, Made, Of, STRUCTURAL, Provenance, Prefix, GENERATED_UUID, Everyone
<1>11. CASE q.t = "user_group" /\ q.by # "bundle"
  <2>1. r.t \in {"users", "groups"}
    BY <1>11 DEF Keys, Made, Of, Everyone
  <2>2. q.by \in {"generated", "bootstrap"}
    BY <1>2, <1>11 DEF WellMade, Written, Makers, RUN_ARTEFACTS, TRANSACTIONAL
  <2>3. Provenance(q)
    BY <1>11, <2>2 DEF Provenance, Prefix, GENERATED_UUID, Everyone, Made
  <2> QED BY <1>1, <1>3, <1>11, <2>1, <2>3, Order, TablesAre DEF Cut
<1>12. CASE q.t = "users"
  <2>1. q.by \in {"generated", "bootstrap"} /\ r = Made("catchment", o, q.by)
    BY <1>1, <1>2, <1>3, <1>12 DEF Keys, Written, WellMade, Makers, RUN_ARTEFACTS, TRANSACTIONAL
  <2>2. q.by = "generated"
    BY <1>6, <2>1
  <2>3. Provenance(q)
    BY <1>12, <2>2 DEF Provenance, Prefix, GENERATED_UUID, Everyone, Made
  <2> QED BY <1>1, <1>3, <1>12, <2>1, <2>3, Order, TablesAre DEF Cut, Made
<1>13. CASE q.t = "catchment_address_mapping"
  <2>1. /\ q.by \in {"generated", "bootstrap"}
        /\ r \in {Made("catchment", o, q.by), Made("address_level", o, q.by)}
    BY <1>1, <1>2, <1>3, <1>13 DEF Keys, Written, WellMade, Makers, RUN_ARTEFACTS, TRANSACTIONAL
  <2>2. q.by = "generated"
    BY <1>6, <2>1
  <2>3. Provenance(q)
    <3>1. /\ Made("catchment", q.o, q.by).t = "catchment"
          /\ Made("catchment", q.o, q.by).by = "generated"
      BY <2>2 DEF Made
    <3> QED BY <1>13, <3>1 DEF Provenance, Prefix, GENERATED_UUID
  <2> QED BY <1>1, <1>3, <1>13, <2>1, <2>3, Order, TablesAre DEF Cut, Made
<1>14. CASE q.t = "address_level"
  BY <1>4, <1>14 DEF Keys, Made
<1>g. CASE q.t \in {"group_privilege", "location_location_mapping"}
  <2>1. q.by = "bundle" /\ r \in {Made("groups", o, "bundle"), Made("address_level", o, "bundle")}
    <3>1. q.by = "bundle"
      BY <1>2, <1>g, TablesAre DEF WellMade, Written, Makers, STRUCTURAL, RUN_ARTEFACTS,
                                   TRANSACTIONAL
    <3>2. CASE q.t = "group_privilege"
      BY <1>1, <1>3, <3>1, <3>2 DEF Keys
    <3>3. CASE q.t = "location_location_mapping"
      BY <1>1, <1>3, <3>1, <3>3 DEF Keys
    <3> QED BY <1>g, <3>1, <3>2, <3>3
  <2> QED BY <1>5, <2>1 DEF STRUCTURAL
<1>15. CASE q.t \in {"groups", "catchment", "address_level_type", "form", "migrated"}
  BY <1>15 DEF Keys, Shared, Of
<1> QED BY <1>2, <1>7, <1>8, <1>9, <1>10, <1>11, <1>12, <1>13, <1>14, <1>g, <1>15, TablesAre DEF Row

\* A data teardown of an organisation is never stopped by a foreign key.
THEOREM TeardownsAreNeverBlocked == Spec => []TeardownIsNeverBlocked
<1>1. IInv => TeardownIsNeverBlocked
  BY NothingBlocks DEF TeardownIsNeverBlocked
<1> QED BY <1>1, Invariance, PTL
-----------------------------------------------------------------------------
\* Under data scope the bundle's rows do not look like the generator's; under
\* scope all the preflight stops at the bundle's forms.
LEMMA TeardownSparesBundle ==
    ASSUME IInv, NEW orgs \in SUBSET Orgs, NEW scope \in Scopes, Teardown(orgs, scope),
           NEW r \in rows, r.by = "bundle"
    PROVE  r \notin Cut(orgs, scope)
<1> SUFFICES ASSUME r \in Cut(orgs, scope) PROVE FALSE
  OBVIOUS
<1>1. /\ r \in Row /\ WellMade(r) /\ r.o \in orgs /\ r.t # "migrated"
      /\ Made("form", r.o, "bundle") \in rows
  BY TablesAre DEF IInv, TypeOK, Cut, BundleIsWhole
<1>2. CASE scope = "data"
  <2>1. r.t \in {"users", "groups", "user_group", "address_level_type", "address_level"}
    BY <1>1, TablesAre DEF WellMade, Written, Cut
  <2>2. Provenance(r)
    BY <1>2, <2>1 DEF Cut, STRUCTURAL
  <2>3. r # Everyone(r.o)
    BY DEF Everyone, Made
  <2> QED BY <2>1, <2>2, <2>3 DEF Provenance, Prefix, GENERATED_UUID
<1>3. CASE scope = "all"
  <2>1. /\ Made("form", r.o, "bundle").t = "form" /\ Made("form", r.o, "bundle").o = r.o
        /\ "form" \notin Deleted
    BY TablesAre DEF Made
  <2>2. Unknown(orgs, scope)
    BY <1>1, <1>3, <2>1 DEF Unknown
  <2> QED BY <2>2 DEF Teardown, Refused
<1> QED BY <1>2, <1>3

LEMMA BundleStays ==
    ASSUME IInv, Next, NEW r \in rows, r.by = "bundle"
    PROVE  r \in rows'
<1>1. ASSUME NEW o \in Orgs, NEW count \in 1..MaxCohort, Bootstrap(o, count)
      PROVE  r \in rows'
  <2>1. r # Shared(o)
    BY DEF Shared, Of
  <2> QED BY <1>1, <2>1 DEF Bootstrap, upsert
<1>2. ASSUME NEW orgs \in SUBSET Orgs, NEW scope \in Scopes, Teardown(orgs, scope)
      PROVE  r \in rows'
  BY <1>2, TeardownSparesBundle DEF Teardown
<1> QED BY <1>1, <1>2 DEF Next, Import, Migrate, Load, CopyTable, Sync

\* What the bundle brought stays: a data teardown knows it by its uuid, and one of
\* scope all, which is to take it as well, refuses.
THEOREM BundlesSurvive == Spec => BundleSurvives
<1>1. IInv /\ [Next]_vars => [\A r \in rows : r.by = "bundle" => r \in rows']_vars
  BY BundleStays
<1> QED BY <1>1, Invariance, PTL DEF Spec, BundleSurvives
=============================================================================
