------------------------------- MODULE Dataset -------------------------------
(***************************************************************************)
(* generate.py from the recipe's tenants to the files: an id range for     *)
(* each, its tree of locations, the catchments and users on it, and the    *)
(* subjects, enrolments and encounters of every village; then the feeder,  *)
(* which is built a second time and has to name the same users.            *)
(*                                                                         *)
(* A row is known by its table, its organisation, its id, the row it hangs *)
(* on, its address and when it was created; a location has its level for   *)
(* an address, a membership its group, and a supervisor is a user at 1.    *)
(* Observations, names and uuids are left out.  Every draw of the          *)
(* generator's rng is a free choice.                                       *)
(***************************************************************************)
EXTENDS Integers, Sequences, FiniteSets

CONSTANTS
    Recipes,        \* the deployments generated
    Reimports,      \* refs.json of a target whose bundle was imported anew
    ESTABLISHMENT,  \* the measured levels, with children per parent
    ID_BAND_SAFETY,
    ID_BAND_MIN,
    INT4_MAX,
    Times           \* when a row may be created

\* The types of a target's locations hang off each other as trees.
IsForest(ref) ==
    /\ IsFiniteSet(ref.types) /\ ref.types \subseteq STRING /\ DOMAIN ref.parent \subseteq ref.types
    /\ \A t \in DOMAIN ref.parent : ref.parent[t] \in ref.types
    /\ \A some \in (SUBSET ref.types) \ {{}} :
         \E t \in some : t \in DOMAIN ref.parent => ref.parent[t] \notin some

\* _refs reports a permitted type that the target does not have, and main refuses
\* (Gates): a deployment that comes to be generated has them all.
PermittedAreThere(ref) == ref.subject_types[1].permitted \subseteq ref.types

ASSUME DatasetAssumption ==
    /\ ID_BAND_SAFETY \in Nat \ {0} /\ ID_BAND_MIN \in Nat \ {0} /\ INT4_MAX \in Nat
    /\ Times \subseteq Nat
    /\ ESTABLISHMENT \in Seq([name : STRING, per : (Nat \ {0}) \X (Nat \ {0})])
    /\ ESTABLISHMENT # << >>
    /\ \A r \in Recipes :
         /\ r.id_base \in Nat /\ r.tenants \in Seq(r.specs)
         /\ r.specs = {r.tenants[i] : i \in 1..Len(r.tenants)}
         /\ \A s \in r.specs : /\ s.field_workers \in Nat /\ s.per_village \in Nat \ {0}
                               /\ s.beneficiaries \in Nat /\ s.rate \in Nat
                               /\ s.total \in Nat \cup {-1} /\ s.span \in Nat \cup {-1}
         /\ \A i, j \in 1..Len(r.tenants) : i # j => r.tenants[i].org # r.tenants[j].org
         /\ \A i \in 1..Len(r.tenants) : r.tenants[i].org \in DOMAIN r.refs
         /\ \A o \in DOMAIN r.refs : IsForest(r.refs[o]) /\ PermittedAreThere(r.refs[o])

VARIABLES
    recipe,   \* the recipe
    refs,     \* organisation -> refs.json, as it was dumped last
    pc,       \* where generate.py is
    bases,    \* organisation -> its id_base
    cursor,   \* the first id that no band holds
    tenant,   \* the index of the tenant
    village,  \* the index of the village
    subjects, enrolments, \* those of the village
    left,     \* subjects and encounters the village lacks
    rows,     \* the rows written
    used,     \* organisation -> the refs its rows were built from
    feeder    \* sync-users.csv: its users, and the refs they were built from
vars == <<recipe, refs, pc, bases, cursor, tenant, village, subjects, enrolments,
          left, rows, used, feeder>>
-----------------------------------------------------------------------------
None == -1
Larger(m, n) == IF m >= n THEN m ELSE n
Smaller(m, n) == IF m <= n THEN m ELSE n

\* Python's round of p/q: a half goes to the even neighbour.
Rounded(p, q) ==
    LET f == p \div q r == p % q
    IN IF 2 * r > q \/ (2 * r = q /\ f % 2 = 1) THEN f + 1 ELSE f

villages(s) == Larger(1, Rounded(s.field_workers, s.per_village))
beneficiaries(s) == villages(s) * s.beneficiaries
encounters(s) == IF s.total # None THEN s.total ELSE s.field_workers * s.rate

\* co_tenants.as_tenant_specs: a tenant sized by the subjects it holds.
CoTenant(org, held, full, workers, history) ==
    LET n == Larger(1, Rounded(held, full))
    IN [org |-> org, field_workers |-> Larger(1, n * workers), per_village |-> workers,
        beneficiaries |-> Larger(1, Rounded(held, n)), rate |-> 0, total |-> history,
        supervisor |-> "Sub-Centre", span |-> None]
-----------------------------------------------------------------------------
\* plan_ids, a tenant at a time.
band_width(s) ==
    Larger(ID_BAND_MIN, ID_BAND_SAFETY *
           Larger(Larger(beneficiaries(s), encounters(s)),
                  Larger(villages(s) * 2, s.field_workers * 2)))
SpecOf(t) == recipe.tenants[t]
Tenants == 1..Len(recipe.tenants)

plan_ids ==
    /\ pc = "ids" /\ tenant \in Tenants
    /\ bases' = [o \in DOMAIN bases \cup {SpecOf(tenant).org} |->
                   IF o = SpecOf(tenant).org THEN cursor ELSE bases[o]]
    /\ cursor' = cursor + band_width(SpecOf(tenant))
    /\ tenant' = tenant + 1
    /\ UNCHANGED <<recipe, refs, pc, village, subjects, enrolments, left, rows, used, feeder>>
Planned ==
    /\ pc = "ids" /\ tenant \notin Tenants
    /\ pc' = IF cursor > INT4_MAX THEN "refused" ELSE "tenant"
    /\ tenant' = 1
    /\ UNCHANGED <<recipe, refs, bases, cursor, village, subjects, enrolments, left, rows,
                   used, feeder>>

\* write_dataset plans the ids of each tenant once more, alone, from the base
\* that the whole deployment gave it.
\* Slip: from the deployment's.
FirstBase(org) == recipe.id_base
base_of(org) == bases[org]
-----------------------------------------------------------------------------
\* from_target_types: the longest line of types, down to the deepest one where
\* subjects may be registered; without types, the measured establishment.
Lines(ref) ==
    LET line[t \in ref.types] ==
            IF t \in DOMAIN ref.parent THEN Append(line[ref.parent[t]], t) ELSE <<t>>
    IN {line[t] : t \in {u \in ref.types : \A v \in DOMAIN ref.parent : ref.parent[v] # u}}

\* _refs reads where the first of the organisation's subject types may be
\* registered; the rows are all of the type with the widest form.
registration_type_ids(ref) == ref.subject_types[1].permitted
_widest_subject_type(ref) ==
    LET all == DOMAIN ref.subject_types
        wide == {i \in all : \A j \in all : ref.subject_types[j].elements
                                             <= ref.subject_types[i].elements}
    IN ref.subject_types[CHOOSE i \in wide : \A j \in wide : i <= j]

\* Slip: down to the deepest type there is.
WholeLine(line, permitted) == line
cut(line, permitted) ==
    LET places == {i \in 1..Len(line) : line[i] \in permitted}
    IN IF permitted = {} THEN line
       ELSE IF places = {} THEN << >>
       ELSE SubSeq(line, 1, CHOOSE i \in places : \A j \in places : j <= i)
from_target_types(ref) ==
    LET lines == Lines(ref)
        line == CHOOSE s \in lines : \A r \in lines : Len(r) <= Len(s)
    IN IF lines = {} THEN << >>
       ELSE LET chain == cut(line, registration_type_ids(ref))
            IN [i \in 1..Len(chain) |->
                  [name |-> chain[i],
                   per |-> ESTABLISHMENT[Smaller(i, Len(ESTABLISHMENT))].per]]

\* with_supervisor_span: the children of a sub-centre, and no fewer than one.
with_supervisor_span(s, levels) ==
    IF s.span = None THEN levels
    ELSE IF s.span < s.per_village THEN << >>
    ELSE [i \in 1..Len(levels) |->
            IF levels[i].name = "Village"
            THEN [levels[i] EXCEPT !.per = <<s.span, s.per_village>>] ELSE levels[i]]
establishment(s, ref) ==
    with_supervisor_span(s, IF ref.types = {} THEN ESTABLISHMENT
                            ELSE from_target_types(ref))

\* plan_levels, upwards from the leaves; and the places before a level.
plan_levels(n, levels) ==
    LET c[i \in 1..Len(levels)] ==
            IF i = Len(levels) THEN n
            ELSE Larger(1, Rounded(c[i + 1] * levels[i + 1].per[2], levels[i + 1].per[1]))
    IN c
Before(c) == LET b[i \in 1..Len(c)] == IF i = 1 THEN 0 ELSE b[i - 1] + c[i - 1] IN b

Row == [table : {"address_level", "catchment", "users", "groups", "user_group",
                 "individual", "program_enrolment", "program_encounter", "encounter"},
        org : {s.org : s \in recipe.specs}, id : Nat, on : Nat \cup {None},
        address : Nat \cup {None}, at : Nat]
R(table, org, id, on, address, at) ==
    [table |-> table, org |-> org, id |-> id, on |-> on, address |-> address, at |-> at]

\* build: children are dealt to the level above in turn.
Place(c, first, i, n) == first + Before(c)[i] + n
build(s, levels, first) ==
    LET c == plan_levels(villages(s), levels)
    IN UNION {{R("address_level", s.org, Place(c, first, i, n),
                 IF i = 1 THEN None ELSE Place(c, first, i - 1, n % c[i - 1]), i, 0)
                    : n \in 0..(c[i] - 1)} : i \in 1..Len(c)}

\* catchments.plan: one per leaf, shared by its field workers, and one per
\* location of the supervisors' level, which has to be there.
SupervisorsAt(s, levels) == {i \in 1..Len(levels) : levels[i].name = s.supervisor}
CatchmentsAndUsers(s, levels, first) ==
    LET c == plan_levels(villages(s), levels)
        n == c[Len(c)]
        i == CHOOSE l \in SupervisorsAt(s, levels) : TRUE
    IN (UNION {{R("catchment", s.org, first + k, Place(c, first, Len(c), k), None, 0)}
               \cup {R("users", s.org, first + k * s.per_village + w, first + k, None, 0)
                       : w \in 0..(s.per_village - 1)} : k \in 0..(n - 1)})
       \cup (UNION {{R("catchment", s.org, first + n + k, Place(c, first, i, k), None, 0),
                     R("users", s.org, first + n * s.per_village + k, first + n + k, None, 1)}
                       : k \in 0..(c[i] - 1)})
build_tenant(s, ref, base) ==
    LET levels == establishment(s, ref)
    IN IF levels = << >> \/ SupervisorsAt(s, levels) = {} THEN {}
       ELSE build(s, levels, base + 1) \cup CatchmentsAndUsers(s, levels, base + 1)

\* A tree that leaves its band room: a level has at least twice the places of the
\* one above, but for one that has as many (a supervisor's span may be a village
\* each), and it is not deep for a band.
FansOut(levels) ==
    /\ 4 * (Len(levels) - 3) <= ID_BAND_MIN
    /\ \E v \in 0..Len(levels) : \A i \in 2..Len(levels) :
         levels[i].per[1] >= (IF i = v THEN 1 ELSE 2) * levels[i].per[2]
BandsHaveRoom ==
    /\ ID_BAND_SAFETY >= 2
    /\ \A r \in Recipes : \A i \in 1..Len(r.tenants) :
         LET s == r.tenants[i]
         IN s.per_village < ID_BAND_MIN /\ FansOut(establishment(s, r.refs[s.org]))
-----------------------------------------------------------------------------
\* One group for the organisation, that every generated user is a member of.
group_id_for(base) == base + 1
user_group_rows(org, users, base) ==
    {R("groups", org, group_id_for(base), None, None, 0)}
    \cup {R("user_group", org, u.id, u.id, group_id_for(base), 0) : u \in users}

\* write_dataset: what a tenant's rows hang on, or the error that ends it all.
This == SpecOf(tenant)
Subjects == This.beneficiaries
Share == encounters(This) \div villages(This)
Idle == <<0, 0>>
Structure ==
    /\ pc = "tenant" /\ tenant \in Tenants
    /\ LET new == build_tenant(This, refs[This.org], base_of(This.org))
       IN \/ /\ new = {} /\ pc' = "refused"
             /\ UNCHANGED <<rows, left, village, used>>
          \/ /\ new # {} /\ pc' = "village"
             /\ rows' = rows \cup new
                  \cup user_group_rows(This.org, {r \in new : r.table = "users"},
                                      base_of(This.org))
             /\ village' = 0 /\ left' = <<Subjects, Share>>
             /\ used' = [used EXCEPT ![This.org] = refs[This.org]]
    /\ subjects' = {} /\ enrolments' = {}
    /\ UNCHANGED <<recipe, refs, bases, cursor, tenant, feeder>>

\* The ids of a table count up from the tenant's base, over all its villages.
Next_id(table) ==
    base_of(This.org) + 1 + Cardinality({r \in rows : r.table = table /\ r.org = This.org})
Leaf ==
    LET c == plan_levels(villages(This), establishment(This, refs[This.org]))
    IN Place(c, base_of(This.org) + 1, Len(c), village)

\* Slip: a child keeps the time that was drawn for it.
AsDrawn(at, parent) == at
NotBefore(at, parent) == Larger(at, parent.at)

individual(id, at) == R("individual", This.org, id, None, Leaf, at)
program_enrolment(id, subject, at) ==
    R("program_enrolment", This.org, id, subject.id, subject.address, NotBefore(at, subject))
program_encounter(id, enrolment, at) ==
    R("program_encounter", This.org, id, enrolment.id, enrolment.address,
      NotBefore(at, enrolment))
encounter(id, subject, at) ==
    R("encounter", This.org, id, subject.id, subject.address, NotBefore(at, subject))

\* transactional_rows: a subject of the village, and now and then its enrolment.
Subject(at, enrols, later) ==
    LET i == individual(Next_id("individual"), at)
        e == program_enrolment(Next_id("program_enrolment"), i, later)
    IN /\ pc = "village" /\ left[1] > 0
       /\ enrols => refs[This.org].programs
       /\ subjects' = subjects \cup {i}
       /\ enrolments' = enrolments \cup IF enrols THEN {e} ELSE {}
       /\ rows' = rows \cup {i} \cup IF enrols THEN {e} ELSE {}
       /\ left' = <<left[1] - 1, left[2]>>
       /\ UNCHANGED <<recipe, refs, pc, bases, cursor, tenant, village, used, feeder>>

\* An encounter on one of the village's enrolments, or of its subjects.
Encounter(on, at) ==
    /\ pc = "village" /\ left[1] = 0 /\ left[2] > 0
    /\ \/ /\ on \in enrolments
          /\ rows' = rows \cup {program_encounter(Next_id("program_encounter"), on, at)}
       \/ /\ on \in subjects
          /\ rows' = rows \cup {encounter(Next_id("encounter"), on, at)}
    /\ left' = <<0, left[2] - 1>>
    /\ UNCHANGED <<recipe, refs, pc, bases, cursor, tenant, village, subjects, enrolments,
                   used, feeder>>

\* Slip: the subjects of the villages before are drawn from too.
KeptOn(group) == group
Emptied(group) == {}
VillageDone ==
    /\ pc = "village" /\ left[1] = 0 /\ (left[2] = 0 \/ subjects = {})
    /\ subjects' = Emptied(subjects) /\ enrolments' = Emptied(enrolments)
    /\ \/ /\ village + 1 < villages(This)
          /\ village' = village + 1 /\ left' = <<Subjects, Share>>
          /\ UNCHANGED <<pc, tenant>>
       \/ /\ village + 1 >= villages(This)
          /\ village' = 0 /\ left' = Idle /\ tenant' = tenant + 1 /\ pc' = "tenant"
    /\ UNCHANGED <<recipe, refs, bases, cursor, rows, used, feeder>>
-----------------------------------------------------------------------------
\* feeder_csv builds every tenant again; --feeder-only does nothing else, on
\* the refs of the day.  A tenant that cannot be built ends a file that has the
\* tenants before it.
\* Slip: with the refs of the first tenant.
FirstTenants(org) == refs[SpecOf(1).org]
refs_by_organisation(org) == refs[org]
Built(t) == build_tenant(SpecOf(t), refs_by_organisation(SpecOf(t).org), bases[SpecOf(t).org])
feeder_csv ==
    /\ pc \in {"tenant", "done"} /\ (pc = "tenant" => tenant \notin Tenants)
    /\ \E n \in 0..Len(recipe.tenants) :
         /\ \A t \in 1..n : Built(t) # {}
         /\ \/ n = Len(recipe.tenants) /\ pc' = "done"
            \/ n < Len(recipe.tenants) /\ Built(n + 1) = {} /\ pc' = "refused"
         /\ feeder' = [refs |-> refs,
                       users |-> UNION {{<<r.org, r.id, r.at>> :
                                           r \in {x \in Built(t) : x.table = "users"}}
                                          : t \in 1..n}]
    /\ UNCHANGED <<recipe, refs, bases, cursor, tenant, village, subjects, enrolments, left,
                   rows, used>>

\* The target's bundle is imported anew, and its refs are dumped.
Reimport(org, ref) ==
    /\ pc = "done" /\ org \in DOMAIN refs
    /\ refs' = [refs EXCEPT ![org] = ref] /\ refs' # refs
    /\ UNCHANGED <<recipe, pc, bases, cursor, tenant, village, subjects, enrolments, left,
                   rows, used, feeder>>
-----------------------------------------------------------------------------
Init ==
    /\ recipe \in Recipes /\ refs = recipe.refs /\ pc = "ids" /\ bases = << >>
    /\ cursor = recipe.id_base /\ tenant = 1 /\ village = 0 /\ subjects = {} /\ enrolments = {}
    /\ left = Idle /\ rows = {} /\ used = recipe.refs
    /\ feeder = [refs |-> recipe.refs, users |-> {}]
Draw ==
    \/ \E at, later \in Times, enrols \in BOOLEAN : Subject(at, enrols, later)
    \/ \E on \in subjects \cup enrolments, at \in Times : Encounter(on, at)
Next ==
    \/ plan_ids \/ Planned \/ Structure \/ Draw \/ VillageDone \/ feeder_csv
    \/ \E ref \in Reimports, org \in DOMAIN refs : Reimport(org, ref)
Spec == Init /\ [][Next]_vars
-----------------------------------------------------------------------------
Of(table) == {r \in rows : r.table = table}
TypeOK ==
    /\ pc \in {"ids", "tenant", "village", "done", "refused"}
    /\ cursor \in Nat /\ \A o \in DOMAIN bases : bases[o] \in Nat
    /\ rows \subseteq Row
    /\ subjects \cup enrolments \subseteq
         {r \in rows : /\ tenant \in Tenants /\ r.org = This.org /\ r.address = Leaf
                       /\ r.table \in {"individual", "program_enrolment"}}
    /\ IF pc = "village" THEN left \in (0..Subjects) \X (0..Share) ELSE left = Idle

\* The bands of two organisations never overlap, and once planned they all lie
\* below the largest id that a column holds.
Planning == pc \in {"ids", "refused"}
BandsAreDisjoint ==
    \A t \in Tenants : SpecOf(t).org \in DOMAIN bases =>
        /\ \A u \in Tenants : t < u /\ SpecOf(u).org \in DOMAIN bases =>
             bases[SpecOf(t).org] + band_width(SpecOf(t)) <= bases[SpecOf(u).org]
        /\ ~Planning => bases[SpecOf(t).org] + band_width(SpecOf(t)) <= INT4_MAX

\* And every row's id lies in its organisation's band, and no two rows of a
\* table, whoever's they are, share one.
IdsNeverCollide ==
    /\ BandsAreDisjoint
    /\ \A r \in rows : \E t \in Tenants :
         SpecOf(t).org = r.org /\ r.id - bases[r.org] \in 1..band_width(SpecOf(t))
    /\ \A q, r \in rows : q.table = r.table /\ q.id = r.id => q = r

\* Every subject is in the catchments of exactly the village's field workers and
\* one supervisor, who are all members of the group with the privileges; and it is
\* placed where its own type may be registered, if that is wherever the first type
\* may, so that they pull it.  Where it is not, see OneSubjectTypeMatters.
TypeAt(org, address) ==
    LET place == CHOOSE l \in Of("address_level") : l.org = org /\ l.id = address
        spec == CHOOSE t \in recipe.specs : t.org = org
    IN establishment(spec, used[org])[place.address].name
May(org, address, permitted) == permitted = {} \/ TypeAt(org, address) \in permitted
Placed == {<<i.org, i.address>> : i \in Of("individual")}
LocationOf(tree, id) == CHOOSE l \in tree : l.id = id
Upwards(tree, id) ==
    LET up[i \in {l.id : l \in tree}] ==
            {i} \cup IF LocationOf(tree, i).on = None THEN {} ELSE up[LocationOf(tree, i).on]
    IN up[id]
WideAsTheFirst(ref) ==
    LET own == _widest_subject_type(ref).permitted
        first == registration_type_ids(ref)
    IN own = {} \/ (first # {} /\ first \subseteq own)
EverySubjectIsSynced ==
    \A p \in Placed :
        LET of(table) == {r \in Of(table) : r.org = p[1]}
            above == Upwards(of("address_level"), p[2])
            reached == {c.id : c \in {x \in of("catchment") : x.on \in above}}
            syncing == {u \in of("users") : u.on \in reached}
            spec == CHOOSE t \in recipe.specs : t.org = p[1]
        IN /\ WideAsTheFirst(used[p[1]]) =>
                May(p[1], p[2], _widest_subject_type(used[p[1]]).permitted)
           /\ Cardinality({u \in syncing : u.at = 0}) = spec.per_village
           /\ Cardinality({u \in syncing : u.at = 1}) = 1
           /\ \A u \in syncing : \E m \in of("user_group"), g \in of("groups") :
                                    m.on = u.id /\ m.address = g.id

\* generate.py, of the subject type whose permitted locations it reads: "The
\* generator uses one subject type per tenant (`ctx.subject_types[0]`), so only
\* that one's entry matters".  So every subject is where its own type may be.  False of
\* the code, where the types have different entries.
OneSubjectTypeMatters ==
    \A p \in Placed : May(p[1], p[2], _widest_subject_type(used[p[1]]).permitted)

\* An enrolment or an encounter hangs on a row of its own organisation that is
\* no younger, and at its address; and each village that is finished holds its
\* subjects and, where it has any, its share of the encounters.
VillagesHoldTheirShare ==
    /\ \A r \in Of("program_enrolment") \cup Of("encounter") \cup Of("program_encounter") :
         \E p \in Of(IF r.table = "program_encounter" THEN "program_enrolment"
                     ELSE "individual") :
             p.org = r.org /\ p.id = r.on /\ p.address = r.address /\ p.at <= r.at
    /\ \A i \in Of("individual") :
         LET spec == CHOOSE t \in recipe.specs : t.org = i.org
             at(tables) == {r \in rows : r.table \in tables /\ r.org = i.org
                                         /\ r.address = i.address}
         IN (i \notin subjects) =>
              /\ Cardinality(at({"individual"})) = spec.beneficiaries
              /\ Cardinality(at({"encounter", "program_encounter"}))
                   = encounters(spec) \div villages(spec)

\* A feeder names the users that were written, unless it was built from other refs
\* than they were.
FeederNamesTheUsers ==
    pc = "done" /\ feeder.refs = used =>
        feeder.users = {<<r.org, r.id, r.at>> : r \in Of("users")}
==============================================================================
