----------------------------- MODULE Organisation -----------------------------
(***************************************************************************)
(* What an organisation's tables hold, and who put it there: the bundle's  *)
(* import, the users of bootstrap_user.py, a generated dataset, the runs,  *)
(* and teardown_org.py, which has to tell them apart by uuid alone.        *)
(*                                                                         *)
(* A row is known by its table, its organisation and its provenance; a     *)
(* uuid by the prefix a LIKE pattern looks at.  One row stands for all the *)
(* rows of a kind, except the bootstrap's users and memberships, which are *)
(* per user.  The server and PostgreSQL are external.                      *)
(***************************************************************************)
EXTENDS Integers, Sequences

CONSTANTS
    Orgs,       \* organisations that exist in the target
    Scopes,     \* the --scope a teardown is run with
    MaxCohort   \* bound: bootstrap_user.py --count

ASSUME OrganisationAssumption ==
    Scopes \subseteq {"data", "all"} /\ MaxCohort \in Nat \ {0}

VARIABLES
    rows,      \* what the database holds
    locType,   \* organisation -> the provenance of its bootstrap location's type
    rule,      \* organisation -> its customRegistrationLocations
    loading,   \* organisation -> the tables load.sql has yet to copy
    emptied,   \* organisations torn down with nothing loaded or bootstrapped since
    cohort     \* organisation -> users bootstrapped since its teardown or import
vars == <<rows, locType, rule, loading, emptied, cohort>>
-----------------------------------------------------------------------------
\* The tables: one run artefact, two transactional tables, the structural ones,
\* of the metadata a form and two tables that refer to structural rows, and one
\* that a migration of the server brings.
RUN_ARTEFACTS == {"sync_telemetry"}
TRANSACTIONAL == {"encounter", "individual"}
STRUCTURAL == {"user_group", "users", "groups", "catchment_address_mapping",
               "catchment", "address_level", "address_level_type"}
METADATA == {"form", "group_privilege", "location_location_mapping"}
LOAD_ORDER == <<"address_level_type", "address_level", "catchment",
                "catchment_address_mapping", "groups", "users", "user_group",
                "individual", "encounter">>
Tables == STRUCTURAL \cup METADATA
          \cup RUN_ARTEFACTS \cup TRANSACTIONAL \cup {"migrated"}

Makers == {"bundle", "generated", "bootstrap", "run"}
Nobody == -1
Users == 0..MaxCohort
Row == [t : Tables, o : Orgs, by : Makers, n : Users \cup {Nobody}]
Made(t, o, by) == [t |-> t, o |-> o, by |-> by, n |-> Nobody]
Of(t, o, u) == [t |-> t, o |-> o, by |-> "bootstrap", n |-> u]

\* Run rows are the generated users' (Nobody) or one bootstrap user's.
Ran(t, o, u) == [t |-> t, o |-> o, by |-> "run", n |-> u]

\* The group is one row whoever made it: both mint the uuid group-<org>.
Everyone(o) == Made("groups", o, "generated")
\* The membership every bootstrap user once shared: usergroup-<org>-0.
Shared(o) == Of("user_group", o, Nobody)

\* The foreign keys.
Keys(r) ==
    LET own(t) == Made(t, r.o, r.by)
        user == IF r.n = Nobody
                THEN Made("users", r.o, IF r.by = "run" THEN "generated" ELSE r.by)
                ELSE Of("users", r.o, r.n)
        place == Made("address_level", r.o,
                      IF r.by = "run" /\ r.n # Nobody THEN "bootstrap" ELSE "generated")
    IN CASE r.t = "sync_telemetry" -> {user}
         [] r.t = "encounter" -> {[r EXCEPT !.t = "individual"]}
         [] r.t = "individual" -> {place}
         [] r.t = "user_group" /\ r.by = "bundle" -> {user, own("groups")}
         [] r.t = "user_group" /\ r.by # "bundle" ->
              {Everyone(r.o)} \cup IF r = Shared(r.o) THEN {} ELSE {user}
         [] r.t = "users" /\ r.by # "bundle" -> {own("catchment")}
         [] r.t = "catchment_address_mapping" -> {own("catchment"), own("address_level")}
         [] r.t = "group_privilege" -> {own("groups")}
         [] r.t = "location_location_mapping" -> {own("address_level")}
         [] r.t = "address_level" ->
              {Made("address_level_type", r.o,
                    IF r.by = "bootstrap" THEN locType[r.o] ELSE "bundle")}
         [] OTHER -> {}
-----------------------------------------------------------------------------
\* bootstrap_user.py: cohort@org and a count of n is cohort1 to cohortn, of 1
\* the name as it stands (here 0).
\* Slip: one user too many.
OneUserMore(count) == IF count = 1 THEN {0} ELSE 1..(count + 1)
cohort_usernames(count) == IF count = 1 THEN {0} ELSE 1..count

\* A location type the organisation permits registration at, an invented one
\* where it has no rule, none where its rule names no type that it owns.
PermittedType(o) ==
    IF rule[o] = "permits" /\ Made("address_level_type", o, "bundle") \in rows
    THEN {"bundle"} ELSE IF rule[o] = "none" THEN {"bootstrap"} ELSE {}

\* Slip: the membership keyed on the id that every UserSpec has here, 0.
OneMembership(o, type, users) ==
    {Made(t, o, "bootstrap") : t \in {"address_level", "catchment",
                                      "catchment_address_mapping"}}
    \cup {Everyone(o), Made("address_level_type", o, type), Shared(o)}
    \cup {Of("users", o, u) : u \in users}

\* A row is found by its uuid and organisation, or inserted.  Of the columns that
\* a found row keeps, locType has the one that matters to a sync.
upsert(held, new) == held \cup new

\* The rows of a cohort.
statements(o, type, users) ==
    {Made(t, o, "bootstrap") : t \in {"address_level", "catchment",
                                      "catchment_address_mapping"}}
    \cup {Everyone(o), Made("address_level_type", o, type)}
    \cup {Of(t, o, u) : t \in {"users", "user_group"}, u \in users}

\* The SQL is one transaction, rolled back by its RAISE EXCEPTION.
Bootstrap(o, count) ==
    /\ \/ \E type \in PermittedType(o) :
            /\ rows' = upsert(rows \ {Shared(o)},
                              statements(o, type, cohort_usernames(count)))
            /\ locType' = [locType EXCEPT ![o] = type]
            /\ cohort' = [cohort EXCEPT ![o] = @ \cup cohort_usernames(count)]
            /\ emptied' = emptied \ {o}
       \/ /\ PermittedType(o) = {}
          /\ UNCHANGED <<rows, locType, cohort, emptied>>
    /\ UNCHANGED <<rule, loading>>
-----------------------------------------------------------------------------
\* provision-org.sh and the server's import: the bundle's rows, the loader's
\* user, the organisation's config.  The script sees only a zero form mapping
\* count, so the location types and the groups' privileges may be missing from
\* what was imported.
Import(o, config, whole) ==
    /\ Made("form", o, "bundle") \notin rows
    /\ rows' = rows \cup {Made(t, o, "bundle") : t \in
                   {"form", "users", "groups", "user_group"}
                     \cup IF whole THEN {"address_level_type", "address_level",
                           "location_location_mapping", "group_privilege"} ELSE {}}
    /\ rule' = [rule EXCEPT ![o] = config]
    /\ cohort' = [cohort EXCEPT ![o] = {}]
    /\ UNCHANGED <<locType, loading, emptied>>

\* A later version of the server with a table nobody has classified.
Migrate(o) ==
    /\ rows' = rows \cup {Made("migrated", o, "bundle")}
    /\ UNCHANGED <<locType, rule, loading, emptied, cohort>>

\* load.sql: the generator writes every table of LOAD_ORDER but the types,
\* which are the target's, each in a transaction of its own.
Load(o) ==
    /\ loading[o] = <<>> /\ Made("form", o, "bundle") \in rows
    /\ loading' = [loading EXCEPT ![o] = Tail(LOAD_ORDER)]
    /\ emptied' = emptied \ {o}
    /\ UNCHANGED <<rows, locType, rule, cohort>>

\* ON_ERROR_STOP: a uuid that is there already, a key to a row that is not, an id
\* that the server's sequence gave away, or the connection ends the load with the
\* tables before it committed.
CopyTable(o) ==
    LET new == Made(Head(loading[o]), o, "generated") IN
    /\ loading[o] # <<>>
    /\ \/ /\ new \notin rows /\ Keys(new) \subseteq rows
          /\ rows' = rows \cup {new}
          /\ loading' = [loading EXCEPT ![o] = Tail(@)]
       \/ /\ loading' = [loading EXCEPT ![o] = <<>>]
          /\ UNCHANGED rows
    /\ UNCHANGED <<locType, rule, emptied, cohort>>

\* A user the server gives all privileges: a member of the group Everyone.
Privileged(o, u) ==
    LET member == IF u = Nobody THEN Made("user_group", o, "generated")
                                ELSE Of("user_group", o, u)
    IN {member, Everyone(o)} \subseteq rows

\* A run's sync by one user: it leaves telemetry, and records if it may push.
Sync(o, u) ==
    /\ (IF u = Nobody THEN Made("users", o, "generated") ELSE Of("users", o, u)) \in rows
    /\ LET wrote == IF Privileged(o, u) THEN {"individual", "encounter"} ELSE {}
           new == {Ran(t, o, u) : t \in wrote \cup {"sync_telemetry"}}
       IN /\ rows' = rows \cup new
          /\ \A r \in new : Keys(r) \subseteq rows'
    /\ UNCHANGED <<locType, rule, loading, emptied, cohort>>
-----------------------------------------------------------------------------
\* teardown_org.py.  A uuid by its prefix, and the prefix of a generated one.
Prefix(r) ==
    IF r.by \notin {"generated", "bootstrap"} THEN "assigned"
    ELSE CASE r.t = "groups" -> "group-"
           [] r.t = "user_group" -> "usergroup-"
           [] OTHER -> IF r.by = "generated" THEN "generated" ELSE "bootstrap-"

\* Slip: the group's one uuid cut with the pattern of the others.
GroupsLikeTheOthers(t) == CASE t = "groups" -> "group-1-"
                            [] t = "user_group" -> "usergroup-"
                            [] OTHER -> "generated"
GENERATED_UUID(t) == CASE t = "groups" -> "group-"
                       [] t = "user_group" -> "usergroup-"
                       [] OTHER -> "generated"

\* Slip: the id range, in which the server's sequences allocate as well.
ByIdRange(r) == r.t # "address_level_type"

\* catchment_address_mapping has no uuid and goes with its catchment; under
\* data scope nothing is taken from address_level_type.
Provenance(r) ==
    /\ r.t # "address_level_type"
    /\ IF r.t = "catchment_address_mapping"
       THEN Prefix(Made("catchment", r.o, r.by)) = GENERATED_UUID("catchment")
       ELSE Prefix(r) = GENERATED_UUID(r.t)

Deleted == RUN_ARTEFACTS \cup TRANSACTIONAL \cup STRUCTURAL

\* The rows a teardown of orgs deletes.
Cut(orgs, scope) ==
    {r \in rows : /\ r.o \in orgs /\ r.t \in Deleted
                  /\ scope = "data" /\ r.t \in STRUCTURAL => Provenance(r)}

\* The preflight: a table with rows that is neither deleted nor knowingly kept.
Unknown(orgs, scope) ==
    \E r \in rows : /\ r.o \in orgs
                    /\ r.t \notin Deleted \cup IF scope = "data" THEN METADATA ELSE {}

LoadedBefore(t, u) == \E i, j \in DOMAIN LOAD_ORDER :
                          i < j /\ LOAD_ORDER[i] = t /\ LOAD_ORDER[j] = u

\* Slip: the structural tables in the order of the load, not reversed.
LoadOrderAsItIs(t, u) ==
    \/ t \in RUN_ARTEFACTS /\ u \in TRANSACTIONAL \cup STRUCTURAL
    \/ t \in TRANSACTIONAL /\ u \in STRUCTURAL
    \/ <<t, u>> = <<"encounter", "individual">>
    \/ {t, u} \subseteq STRUCTURAL /\ LoadedBefore(t, u)

\* The delete order: run artefacts, transactional children first, then the
\* structural tables in LOAD_ORDER reversed.
DeletedBefore(t, u) ==
    \/ t \in RUN_ARTEFACTS /\ u \in TRANSACTIONAL \cup STRUCTURAL
    \/ t \in TRANSACTIONAL /\ u \in STRUCTURAL
    \/ <<t, u>> = <<"encounter", "individual">>
    \/ {t, u} \subseteq STRUCTURAL /\ LoadedBefore(u, t)

\* PostgreSQL refuses a statement that deletes a row which another one, kept or
\* to be deleted by a later statement, refers to.
Blocked(orgs, scope) ==
    \E r \in Cut(orgs, scope), q \in rows :
        r \in Keys(q) /\ (q \notin Cut(orgs, scope) \/ ~DeletedBefore(q.t, r.t))

\* Under scope all what is left behind is an exception too.
Left(orgs, scope) ==
    scope = "all" /\ \E r \in rows \ Cut(orgs, scope) : r.o \in orgs /\ r.t \in Deleted

Refused(orgs, scope) ==
    Unknown(orgs, scope) \/ Blocked(orgs, scope) \/ Left(orgs, scope)

\* One transaction over the organisations: everything, or nothing.
Teardown(orgs, scope) ==
    /\ orgs # {} /\ \A o \in orgs : loading[o] = <<>>
    /\ ~Refused(orgs, scope)
    /\ rows' = rows \ Cut(orgs, scope)
    /\ emptied' = emptied \cup orgs
    /\ cohort' = [o \in Orgs |-> IF o \in orgs THEN {} ELSE cohort[o]]
    /\ UNCHANGED <<locType, rule, loading>>
-----------------------------------------------------------------------------
\* What the first version of the bootstrap left: an invented type, and one
\* membership that all its users share.
EarlierBootstrap(o) ==
    {Made(t, o, "bootstrap") : t \in {"address_level_type", "address_level",
                                      "catchment", "catchment_address_mapping"}}
    \cup {Everyone(o), Of("users", o, 0), Shared(o)}

Init ==
    /\ \E seeded \in SUBSET Orgs :
           /\ rows = UNION {EarlierBootstrap(o) : o \in seeded}
           /\ locType = [o \in Orgs |-> "bootstrap"]
    /\ rule = [o \in Orgs |-> "none"]
    /\ loading = [o \in Orgs |-> <<>>]
    /\ emptied = {}
    /\ cohort = [o \in Orgs |-> {}]

Next ==
    \/ \E o \in Orgs :
         \/ \E count \in 1..MaxCohort : Bootstrap(o, count)
         \/ \E config \in {"none", "permits"}, whole \in BOOLEAN : Import(o, config, whole)
         \/ Migrate(o)
         \/ Load(o)
         \/ CopyTable(o)
         \/ \E u \in Users \cup {Nobody} : Sync(o, u)
    \/ \E orgs \in SUBSET Orgs, scope \in Scopes : Teardown(orgs, scope)

Spec == Init /\ [][Next]_vars
-----------------------------------------------------------------------------
TypeOK ==
    /\ rows \subseteq Row
    /\ locType \in [Orgs -> {"bundle", "bootstrap"}]
    /\ rule \in [Orgs -> {"none", "permits"}]
    /\ loading \in [Orgs -> Seq(Tables)]
    /\ emptied \subseteq Orgs
    /\ cohort \in [Orgs -> SUBSET Users]

\* A torn down organisation has room for the next dataset: no row of an earlier
\* one, whose uuids and ids load.sql brings again, and nothing that the runs left
\* to the generated users.
EmptiedHasRoom ==
    \A o \in emptied : \A r \in rows :
        r.o = o => r.by # "generated" /\ ~(r.by = "run" /\ r.n = Nobody)

\* Children go before what they refer to, whatever import, bootstrap, half a
\* load and the runs have left, in whatever order: a data teardown never ends
\* in a foreign key.  That the bootstrap's memberships match the pattern of the
\* generated ones is part of why: the group they refer to goes.
TeardownIsNeverBlocked == \A o \in Orgs : ~Blocked({o}, "data")

\* A cohort's users are members with all privileges, in a catchment whose
\* location is of a type that the organisation permits.
CohortIsUsable ==
    \A o \in Orgs : \A u \in cohort[o] :
        /\ Of("users", o, u) \in rows /\ Privileged(o, u)
        /\ Keys(Of("users", o, u)) \subseteq rows
        /\ Made("catchment_address_mapping", o, "bootstrap") \in rows
        /\ rule[o] = "permits" => locType[o] = "bundle"

\* What the bundle brought is never taken for the generator's: no data teardown
\* removes it, wherever the server's sequences put its ids.  Nor does one of scope
\* all, which should: see AllScopeEmpties.
BundleSurvives == [][\A r \in rows : r.by = "bundle" => r \in rows']_vars

\* "--scope all empties every org-scoped table this script knows about, metadata
\* included": it does not refuse an organisation that has rows in no other table.
AllScopeEmpties ==
    \A o \in Orgs :
        loading[o] = <<>> /\ (\A r \in rows : r.o = o => r.t \in Deleted \cup METADATA)
            => ~Refused({o}, "all")

\* test_teardown_org.py:108: "a bootstrap user survives a teardown", with what
\* environment-check.sh needs of it.
BootstrapStays ==
    \A o \in Orgs, u \in Users :
        Of("users", o, u) \in rows /\ Privileged(o, u)
            => (Of("users", o, u) \in rows /\ Privileged(o, u))'

\* Of these two promises every step keeps one at least.  Refuted: the data teardown of
\* an organisation that scope all refuses takes a bootstrap user's membership.
APromiseIsKept == [][AllScopeEmpties \/ BootstrapStays]_vars
=============================================================================
