---------------------------- MODULE DatasetProofs ----------------------------
(***************************************************************************)
(* The generator, for any recipe whose tenants are different organisations *)
(* and any hierarchy of location types: plan_ids hands out disjoint bands  *)
(* that fit the columns, the feeder names the users written, and what is   *)
(* drawn for the villages hangs together and is what each was to hold.     *)
(***************************************************************************)
EXTENDS Dataset, FiniteSetTheorems, SequenceTheorems, TLAPS

\* What plan_ids keeps while it walks the tenants: the bands of those it has
\* passed lie below its cursor, in the tenants' order.
OrgsOf(n) == {SpecOf(t).org : t \in 1..n}
Below == \A t \in Tenants : SpecOf(t).org \in DOMAIN bases =>
             bases[SpecOf(t).org] + band_width(SpecOf(t)) <= cursor
InOrder == \A t, u \in Tenants : t < u /\ {SpecOf(t).org, SpecOf(u).org} \subseteq DOMAIN bases =>
               bases[SpecOf(t).org] + band_width(SpecOf(t)) <= bases[SpecOf(u).org]
Walked == pc = "ids" => tenant \in 1..(Len(recipe.tenants) + 1)
                        /\ DOMAIN bases = OrgsOf(tenant - 1)
Fits == ~Planning => cursor <= INT4_MAX
IInv ==
    /\ recipe \in Recipes /\ cursor \in Nat
    /\ \A o \in DOMAIN bases : bases[o] \in Nat
    /\ Walked /\ Below /\ InOrder /\ Fits

\* A band is a positive number of ids, whatever the tenant's size rounds to.
LEMMA WidthIsPositive ==
    ASSUME NEW r \in Recipes, NEW t \in 1..Len(r.tenants)
    PROVE  band_width(r.tenants[t]) \in Nat /\ band_width(r.tenants[t]) > 0
<1> DEFINE s == r.tenants[t]
<1>1. /\ s.field_workers \in Nat /\ s.per_village \in Nat \ {0} /\ s.beneficiaries \in Nat
      /\ s.rate \in Nat /\ s.total \in Nat \cup {-1}
  <2>1. s \in r.specs
    BY DatasetAssumption
  <2> QED
    BY <2>1, DatasetAssumption
<1>2. Rounded(s.field_workers, s.per_village) \in Int
  <2>1. PICK x \in Nat, y \in Nat \ {0} : x = s.field_workers /\ y = s.per_village
    BY <1>1
  <2>2. Rounded(x, y) \in Int
    BY DEF Rounded
  <2> QED
    BY <2>1, <2>2
<1>3. villages(s) \in Int
  BY <1>2 DEF villages, Larger
<1>4. beneficiaries(s) \in Int /\ encounters(s) \in Int
  BY <1>1, <1>3 DEF beneficiaries, encounters, None
<1> DEFINE largest == Larger(Larger(beneficiaries(s), encounters(s)),
                             Larger(villages(s) * 2, s.field_workers * 2))
<1>5. largest \in Int
  BY <1>1, <1>3, <1>4 DEF Larger
<1>6. ID_BAND_SAFETY * largest \in Int /\ ID_BAND_MIN \in Nat \ {0}
  BY <1>5, DatasetAssumption
<1>7. band_width(s) = Larger(ID_BAND_MIN, ID_BAND_SAFETY * largest)
  BY DEF band_width
<1> QED
  BY <1>6, <1>7 DEF Larger

LEMMA InitIInv == Init => IInv
<1> SUFFICES ASSUME Init PROVE IInv
  OBVIOUS
<1>1. DOMAIN bases = {}
  BY DEF Init
<1>2. recipe \in Recipes /\ cursor \in Nat
  BY DatasetAssumption DEF Init
<1>3. Len(recipe.tenants) \in Nat
  BY <1>2, DatasetAssumption
<1>4. Walked
  BY <1>1, <1>3 DEF Init, Walked, OrgsOf
<1> QED
  BY <1>1, <1>2, <1>4 DEF Init, IInv, Below, InOrder, Fits, Planning

\* A tenant more: its band starts where all the others end.
LEMMA PlanStep == IInv /\ plan_ids => IInv'
<1> SUFFICES ASSUME IInv, plan_ids PROVE IInv'
  OBVIOUS
<1> DEFINE org == SpecOf(tenant).org
           width == band_width(SpecOf(tenant))
<1>1. /\ recipe \in Recipes /\ recipe' = recipe /\ tenant \in Tenants /\ pc = "ids" /\ pc' = "ids"
      /\ tenant' = tenant + 1 /\ cursor' = cursor + width
      /\ bases' = [o \in DOMAIN bases \cup {org} |-> IF o = org THEN cursor ELSE bases[o]]
  BY DEF plan_ids, IInv
<1>2. width \in Nat /\ width > 0
  BY <1>1, WidthIsPositive DEF SpecOf, Tenants
<1>3. cursor \in Nat /\ cursor' \in Nat
  BY <1>1, <1>2 DEF IInv
<1>4. \A t \in Tenants : band_width(SpecOf(t)) \in Nat
  BY <1>1, WidthIsPositive DEF SpecOf, Tenants
<1>5. Len(recipe.tenants) \in Nat
  BY <1>1, DatasetAssumption
<1>6. \A t, u \in Tenants : t # u => SpecOf(t).org # SpecOf(u).org
  BY <1>1, DatasetAssumption DEF Tenants, SpecOf
<1>7. DOMAIN bases = OrgsOf(tenant - 1)
  BY <1>1 DEF IInv, Walked
<1>8. \A t \in Tenants : (SpecOf(t).org)' = SpecOf(t).org
                         /\ band_width(SpecOf(t))' = band_width(SpecOf(t))
  BY <1>1 DEF SpecOf, band_width, villages, beneficiaries, encounters
<1>9. Tenants' = Tenants
  BY <1>1 DEF Tenants
<1>10. \A t \in Tenants : SpecOf(t).org \in DOMAIN bases => t < tenant
  BY <1>1, <1>5, <1>6, <1>7 DEF OrgsOf, Tenants
<1>11. \A o \in DOMAIN bases : bases[o] \in Nat
  BY DEF IInv
<1>12. Walked'
  <2>1. (SpecOf(tenant).org) = org /\ \A t \in 1..tenant : t \in Tenants
    BY <1>1, <1>5 DEF Tenants
  <2>2. OrgsOf(tenant - 1) \cup {org} = {SpecOf(t).org : t \in 1..tenant}
    BY <1>1, <1>5 DEF OrgsOf, Tenants
  <2>3. DOMAIN bases' = {SpecOf(t).org : t \in 1..tenant}
    BY <1>1, <1>7, <2>2
  <2>4. (OrgsOf(tenant - 1))' = {SpecOf(t).org : t \in 1..tenant}
    BY <1>1, <1>5 DEF OrgsOf, SpecOf, Tenants
  <2> QED
    BY <1>1, <1>5, <2>3, <2>4 DEF Walked, Tenants
<1>13. Below'
  <2> SUFFICES ASSUME NEW t \in Tenants, SpecOf(t).org \in DOMAIN bases'
               PROVE  bases'[SpecOf(t).org] + band_width(SpecOf(t)) <= cursor'
    BY <1>8, <1>9 DEF Below
  <2>1. CASE t = tenant
    BY <2>1, <1>1, <1>2, <1>3
  <2>2. CASE t # tenant
    <3>1. SpecOf(t).org # org /\ SpecOf(t).org \in DOMAIN bases
      BY <2>2, <1>1, <1>6
    <3>2. bases[SpecOf(t).org] + band_width(SpecOf(t)) <= cursor
      BY <3>1 DEF IInv, Below
    <3>3. bases'[SpecOf(t).org] = bases[SpecOf(t).org]
      BY <3>1, <1>1
    <3> QED
      BY <3>1, <3>2, <3>3, <1>1, <1>2, <1>3, <1>4, <1>11
  <2> QED
    BY <2>1, <2>2
<1>14. InOrder'
  <2> SUFFICES ASSUME NEW t \in Tenants, NEW u \in Tenants, t < u,
                      SpecOf(t).org \in DOMAIN bases', SpecOf(u).org \in DOMAIN bases'
               PROVE  bases'[SpecOf(t).org] + band_width(SpecOf(t)) <= bases'[SpecOf(u).org]
    BY <1>8, <1>9 DEF InOrder
  <2>1. \A v \in Tenants : v # tenant /\ SpecOf(v).org \in DOMAIN bases' =>
            SpecOf(v).org \in DOMAIN bases /\ bases'[SpecOf(v).org] = bases[SpecOf(v).org]
    BY <1>1, <1>6
  <2>2. t # tenant
    <3> SUFFICES ASSUME t = tenant PROVE FALSE
      OBVIOUS
    <3>1. t \in Int /\ u \in Int /\ u # tenant
      BY <1>5 DEF Tenants
    <3>2. u < tenant
      BY <2>1, <3>1, <1>10
    <3> QED
      BY <3>1, <3>2
  <2>3. CASE u = tenant
    <3>1. bases'[SpecOf(u).org] = cursor
      BY <2>3, <1>1
    <3> QED
      BY <2>1, <2>2, <3>1 DEF IInv, Below
  <2>4. CASE u # tenant
    BY <2>1, <2>2, <2>4 DEF IInv, InOrder
  <2> QED
    BY <2>3, <2>4
<1>15. \A o \in DOMAIN bases' : bases'[o] \in Nat
  BY <1>1, <1>3, <1>11
<1> QED
  BY <1>1, <1>3, <1>12, <1>13, <1>14, <1>15 DEF IInv, Fits, Planning

\* Every other step leaves the bands alone, and Planned lets no cursor past.
LEMMA OtherSteps ==
    IInv /\ UNCHANGED <<recipe, bases, cursor>> /\ pc' # "ids"
         /\ (Planning => pc' = "refused" \/ cursor <= INT4_MAX) => IInv'
<1> SUFFICES ASSUME IInv, UNCHANGED <<recipe, bases, cursor>>, pc' # "ids",
                    Planning => pc' = "refused" \/ cursor <= INT4_MAX
             PROVE  IInv'
  OBVIOUS
<1>1. Below' /\ InOrder'
  BY DEF IInv, Below, InOrder, Tenants, SpecOf, band_width, villages, beneficiaries, encounters
<1>2. Walked' /\ Fits'
  BY DEF IInv, Walked, Fits, Planning
<1> QED
  BY <1>1, <1>2 DEF IInv

LEMMA NextIInv == IInv /\ [Next]_vars => IInv'
<1> SUFFICES ASSUME IInv, [Next]_vars PROVE IInv'
  OBVIOUS
<1>1. CASE plan_ids
  BY <1>1, PlanStep
<1>2. CASE Planned
  <2>1. cursor \in Nat /\ INT4_MAX \in Nat
    BY DatasetAssumption DEF IInv
  <2>2. cursor > INT4_MAX => pc' = "refused"
    BY <1>2 DEF Planned
  <2> QED
    BY <1>2, <2>1, <2>2, OtherSteps DEF Planned
<1>3. CASE Structure
  BY <1>3, OtherSteps DEF Structure, Planning
<1>4. CASE Draw
  BY <1>4, OtherSteps DEF Draw, Subject, Encounter, Planning
<1>5. CASE VillageDone
  BY <1>5, OtherSteps DEF VillageDone, Planning
<1>6. CASE feeder_csv
  BY <1>6, OtherSteps DEF feeder_csv, Planning
<1>7. CASE \E ref \in Reimports, org \in DOMAIN refs : Reimport(org, ref)
  BY <1>7, OtherSteps DEF Reimport, Planning
<1>8. CASE UNCHANGED vars
  <2>1. Below' /\ InOrder' /\ Walked' /\ Fits'
    BY <1>8 DEF vars, IInv, Below, InOrder, Walked, Fits, Planning, OrgsOf, Tenants, SpecOf,
                band_width, villages, beneficiaries, encounters
  <2> QED
    BY <1>8, <2>1 DEF vars, IInv
<1> QED
  BY <1>1, <1>2, <1>3, <1>4, <1>5, <1>6, <1>7, <1>8 DEF Next

LEMMA IInvImpliesBands == IInv => BandsAreDisjoint
<1> SUFFICES ASSUME IInv, NEW t \in Tenants, SpecOf(t).org \in DOMAIN bases
             PROVE  /\ \A u \in Tenants : t < u /\ SpecOf(u).org \in DOMAIN bases =>
                         bases[SpecOf(t).org] + band_width(SpecOf(t)) <= bases[SpecOf(u).org]
                    /\ ~Planning => bases[SpecOf(t).org] + band_width(SpecOf(t)) <= INT4_MAX
  BY DEF BandsAreDisjoint
<1>1. \A u \in Tenants : t < u /\ SpecOf(u).org \in DOMAIN bases =>
          bases[SpecOf(t).org] + band_width(SpecOf(t)) <= bases[SpecOf(u).org]
  BY DEF IInv, InOrder
<1>2. /\ bases[SpecOf(t).org] \in Nat /\ band_width(SpecOf(t)) \in Nat /\ INT4_MAX \in Nat
      /\ cursor \in Nat
  BY WidthIsPositive, DatasetAssumption DEF IInv, Tenants, SpecOf
<1>3. bases[SpecOf(t).org] + band_width(SpecOf(t)) <= cursor
  BY DEF IInv, Below
<1> QED
  BY <1>1, <1>2, <1>3 DEF IInv, Fits

\* plan_ids gives every organisation of a deployment a band of ids of its own,
\* all of them within the columns' range, whatever the recipe.
THEOREM DisjointBands == Spec => []BandsAreDisjoint
<1>1. Init => IInv
  BY InitIInv
<1>2. IInv /\ [Next]_vars => IInv'
  BY NextIInv
<1>3. IInv => BandsAreDisjoint
  BY IInvImpliesBands
<1> QED
  BY <1>1, <1>2, <1>3, PTL DEF Spec
-----------------------------------------------------------------------------
\* The users that a tenant's rows hold, and the tenants whose rows are written.
UsersOf(t) ==
    {r \in build_tenant(SpecOf(t), recipe.refs[SpecOf(t).org], bases[SpecOf(t).org]) :
        r.table = "users"}
Written == {t \in Tenants : pc # "ids" /\ (t < tenant \/ (t = tenant /\ pc = "village"))}

\* The line of the feeder that names a user, and the users a building on given refs
\* gives.
Names(users) == {<<r.org, r.id, r.at>> : r \in users}
BuiltFrom(r, t) ==
    {x \in build_tenant(SpecOf(t), r[SpecOf(t).org], bases[SpecOf(t).org]) : x.table = "users"}

\* Rows and feeder are built alike: until the feeder is there the refs are the
\* recipe's, the users written are those of the tenants written, and a feeder that is
\* complete names what its own refs give.
FeedInv ==
    /\ DOMAIN used = DOMAIN recipe.refs
    /\ \A t \in Tenants : used[SpecOf(t).org] = recipe.refs[SpecOf(t).org]
    /\ pc \in {"ids", "tenant", "village"} => refs = recipe.refs
    /\ pc = "ids" => rows = {}
    /\ pc # "ids" => tenant \in 1..(Len(recipe.tenants) + 1)
    /\ pc = "village" => tenant \in Tenants
    /\ pc = "done" => tenant \notin Tenants
    /\ Of("users") = UNION {UsersOf(t) : t \in Written}
    /\ pc = "done" => feeder.users = UNION {Names(BuiltFrom(feeder.refs, t)) : t \in Tenants}

\* Only a tenant's structure holds users; what is drawn for a village does not.
LEMMA DrawnAreNoUsers ==
    ASSUME Draw
    PROVE  Of("users")' = Of("users")
<1>1. \E new : rows' = rows \cup new /\ \A r \in new : r.table # "users"
  <2>1. ASSUME NEW at \in Times, NEW later \in Times, NEW enrols \in BOOLEAN,
               Subject(at, enrols, later)
        PROVE  \E new : rows' = rows \cup new /\ \A r \in new : r.table # "users"
    <3>1. \A id, time, subject : /\ individual(id, time).table # "users"
                                /\ program_enrolment(id, subject, time).table # "users"
      BY DEF individual, program_enrolment, R
    <3> DEFINE i == individual(Next_id("individual"), at)
               e == program_enrolment(Next_id("program_enrolment"), i, later)
               new == {i} \cup IF enrols THEN {e} ELSE {}
    <3>2. rows' = rows \cup {i} \cup IF enrols THEN {e} ELSE {}
      BY <2>1 DEF Subject
    <3>3. i.table # "users" /\ e.table # "users"
      BY <3>1
    <3> HIDE DEF i, e
    <3>4. rows' = rows \cup new /\ \A r \in new : r.table # "users"
      BY <3>2, <3>3
    <3> QED
      BY <3>4
  <2>2. ASSUME NEW on \in subjects \cup enrolments, NEW at \in Times, Encounter(on, at)
        PROVE  \E new : rows' = rows \cup new /\ \A r \in new : r.table # "users"
    <3>1. \A id : /\ program_encounter(id, on, at).table # "users"
                  /\ encounter(id, on, at).table # "users"
      BY DEF program_encounter, encounter, R
    <3>2. \/ rows' = rows \cup {program_encounter(Next_id("program_encounter"), on, at)}
          \/ rows' = rows \cup {encounter(Next_id("encounter"), on, at)}
      BY <2>2 DEF Encounter
    <3>3. ASSUME NEW e, e.table # "users", rows' = rows \cup {e}
          PROVE  \E new : rows' = rows \cup new /\ \A r \in new : r.table # "users"
      <4> DEFINE new == {e}
      <4>1. rows' = rows \cup new /\ \A r \in new : r.table # "users"
        BY <3>3
      <4> HIDE DEF new
      <4> QED
        BY <4>1
    <3> QED
      BY <3>1, <3>2, <3>3
  <2> QED
    BY <2>1, <2>2 DEF Draw
<1> QED
  BY <1>1 DEF Of

\* The users of a tenant stay the same once the ids are planned, and so do the
\* users written while no tenant's structure is.
LEMMA WrittenStay ==
    ASSUME recipe' = recipe, bases' = bases, Of("users")' = Of("users"), Written' = Written,
           Of("users") = UNION {UsersOf(t) : t \in Written}
    PROVE  (Of("users") = UNION {UsersOf(t) : t \in Written})'
<1>1. \A t : UsersOf(t)' = UsersOf(t)
  BY DEF UsersOf, SpecOf
<1> QED
  BY <1>1

LEMMA InitFeedInv == Init => FeedInv
<1> SUFFICES ASSUME Init PROVE FeedInv
  OBVIOUS
<1>1. Of("users") = {} /\ Written = {}
  BY DEF Init, Of, Written
<1> QED
  BY <1>1 DEF Init, FeedInv

LEMMA FeedStep == IInv /\ FeedInv /\ [Next]_vars => FeedInv'
<1> SUFFICES ASSUME IInv, FeedInv, [Next]_vars PROVE FeedInv'
  OBVIOUS
<1>0. Len(recipe.tenants) \in Nat
  BY DatasetAssumption DEF IInv
<1>1. CASE plan_ids
  <2>1. Of("users")' = {} /\ Written' = {}
    BY <1>1 DEF plan_ids, FeedInv, Of, Written
  <2> QED
    BY <1>1, <2>1 DEF plan_ids, FeedInv, Tenants, SpecOf
<1>2. CASE Planned
  <2>1. Of("users")' = {} /\ Written' = {}
    BY <1>0, <1>2 DEF Planned, FeedInv, Of, Written, Tenants
  <2>2. pc' \in {"tenant", "refused"} /\ tenant' = 1
    BY <1>2 DEF Planned
  <2> QED
    BY <1>0, <1>2, <2>1, <2>2 DEF Planned, FeedInv, Tenants, SpecOf
<1>3. CASE Structure
  <2> DEFINE new == build_tenant(This, refs[This.org], base_of(This.org))
  <2>1. /\ pc = "tenant" /\ tenant \in Tenants
        /\ recipe' = recipe /\ bases' = bases /\ refs' = refs /\ tenant' = tenant
        /\ feeder' = feeder
    BY <1>3 DEF Structure
  <2>2. \A t \in Tenants : UsersOf(t)' = UsersOf(t)
    BY <2>1 DEF UsersOf, SpecOf
  <2>3. CASE new = {} /\ pc' = "refused" /\ UNCHANGED <<rows, left, village, used>>
    <3>1. Of("users")' = Of("users") /\ Written' = Written
      BY <2>1, <2>3 DEF Of, Written, Tenants
    <3>2. (Of("users") = UNION {UsersOf(t) : t \in Written})'
      BY <2>1, <3>1, WrittenStay DEF FeedInv
    <3> QED
      BY <2>1, <2>3, <3>2 DEF FeedInv, Tenants, SpecOf
  <2>4. CASE /\ new # {} /\ pc' = "village"
             /\ rows' = rows \cup new
                  \cup user_group_rows(This.org, {r \in new : r.table = "users"},
                                      base_of(This.org))
             /\ used' = [used EXCEPT ![This.org] = refs[This.org]]
    <3>1. {r \in new : r.table = "users"} = UsersOf(tenant)
      BY <2>1 DEF UsersOf, This, base_of, FeedInv
    <3>2. \A org, users, base : \A r \in user_group_rows(org, users, base) : r.table # "users"
      BY DEF user_group_rows, R
    <3>3. Of("users")' = Of("users") \cup UsersOf(tenant)
      <4>1. PICK groups : groups = user_group_rows(This.org, {r \in new : r.table = "users"},
                                                   base_of(This.org))
        OBVIOUS
      <4>2. \A r \in groups : r.table # "users"
        BY <3>2, <4>1
      <4>3. PICK built : built = new /\ rows' = rows \cup built \cup groups
        BY <2>4, <4>1
      <4> HIDE DEF new
      <4> QED
        BY <3>1, <4>2, <4>3 DEF Of
    <3>4. Written' = Written \cup {tenant}
      BY <1>0, <2>1, <2>4 DEF Written, Tenants
    <3>5. (Of("users") = UNION {UsersOf(t) : t \in Written})'
      <4>1. UNION {UsersOf(t) : t \in Written \cup {tenant}}
              = (UNION {UsersOf(t) : t \in Written}) \cup UsersOf(tenant)
        OBVIOUS
      <4>2. UNION {UsersOf(t)' : t \in Written'} = UNION {UsersOf(t) : t \in Written'}
        BY <2>1, <2>2, <3>4 DEF Written
      <4> QED
        BY <3>3, <3>4, <4>1, <4>2 DEF FeedInv
    <3>6. /\ DOMAIN used' = DOMAIN recipe.refs
          /\ \A t \in Tenants : used'[SpecOf(t).org] = recipe.refs[SpecOf(t).org]
      BY <2>1, <2>4 DEF FeedInv, This
    <3> QED
      BY <2>1, <2>4, <3>5, <3>6 DEF FeedInv, Tenants, SpecOf
  <2> QED
    BY <1>3, <2>3, <2>4 DEF Structure
<1>4. CASE Draw
  <2>1. /\ recipe' = recipe /\ bases' = bases /\ refs' = refs /\ tenant' = tenant /\ pc' = pc
        /\ used' = used /\ feeder' = feeder /\ pc = "village"
    BY <1>4 DEF Draw, Subject, Encounter
  <2>2. Of("users")' = Of("users") /\ Written' = Written
    BY <1>4, <2>1, DrawnAreNoUsers DEF Written, Tenants
  <2>3. (Of("users") = UNION {UsersOf(t) : t \in Written})'
    BY <2>1, <2>2, WrittenStay DEF FeedInv
  <2> QED
    BY <2>1, <2>3 DEF FeedInv, Tenants, SpecOf
<1>5. CASE VillageDone
  <2>1. /\ recipe' = recipe /\ bases' = bases /\ refs' = refs /\ rows' = rows
        /\ used' = used /\ feeder' = feeder /\ pc = "village" /\ tenant \in Tenants
        /\ \/ pc' = pc /\ tenant' = tenant
           \/ pc' = "tenant" /\ tenant' = tenant + 1
    BY <1>5 DEF VillageDone, FeedInv
  <2>2. Of("users")' = Of("users") /\ Written' = Written
    BY <1>0, <2>1 DEF Of, Written, Tenants
  <2>3. (Of("users") = UNION {UsersOf(t) : t \in Written})'
    BY <2>1, <2>2, WrittenStay DEF FeedInv
  <2> QED
    BY <1>0, <2>1, <2>3 DEF FeedInv, Tenants, SpecOf
<1>6. CASE feeder_csv
  <2>1. /\ recipe' = recipe /\ bases' = bases /\ refs' = refs /\ rows' = rows
        /\ used' = used /\ tenant' = tenant /\ tenant \notin Tenants
        /\ pc \in {"tenant", "done"} /\ pc' \in {"refused", "done"}
    BY <1>6 DEF feeder_csv, FeedInv
  <2>2. Of("users")' = Of("users") /\ Written' = Written
    BY <1>0, <2>1 DEF Of, Written, Tenants
  <2>3. (Of("users") = UNION {UsersOf(t) : t \in Written})'
    BY <2>1, <2>2, WrittenStay DEF FeedInv
  <2>4. ASSUME pc' = "done"
        PROVE  feeder'.users = UNION {Names(BuiltFrom(refs, t)) : t \in Tenants}
    <3>1. PICK n \in 0..Len(recipe.tenants) :
            /\ \/ n = Len(recipe.tenants) /\ pc' = "done"
               \/ n < Len(recipe.tenants) /\ pc' = "refused"
            /\ feeder' = [refs |-> refs,
                          users |-> UNION {{<<r.org, r.id, r.at>> :
                                              r \in {x \in Built(t) : x.table = "users"}}
                                             : t \in 1..n}]
      BY <1>6 DEF feeder_csv
    <3>2. 1..n = Tenants
      BY <2>4, <3>1 DEF Tenants
    <3>3. feeder'.users = UNION {{<<r.org, r.id, r.at>> :
                                    r \in {x \in Built(t) : x.table = "users"}}
                                   : t \in Tenants}
      BY <3>1, <3>2
    <3>4. \A t : Names(BuiltFrom(refs, t))
                 = {<<r.org, r.id, r.at>> : r \in {x \in Built(t) : x.table = "users"}}
      BY DEF Names, BuiltFrom, Built, refs_by_organisation
    <3> QED
      BY <3>3, <3>4
  <2>5. feeder'.refs = refs
    BY <1>6 DEF feeder_csv
  <2>6. \A t : BuiltFrom(feeder.refs, t)' = BuiltFrom(refs, t)
    BY <2>1, <2>5 DEF BuiltFrom, SpecOf
  <2>7. (pc = "done" => feeder.users = UNION {Names(BuiltFrom(feeder.refs, t)) : t \in Tenants})'
    BY <2>1, <2>4, <2>6 DEF Names, Tenants
  <2> QED
    BY <2>1, <2>3, <2>7 DEF FeedInv, Tenants, SpecOf
<1>7. CASE \E ref \in Reimports, org \in DOMAIN refs : Reimport(org, ref)
  <2>1. /\ recipe' = recipe /\ bases' = bases /\ rows' = rows /\ feeder' = feeder
        /\ used' = used /\ tenant' = tenant /\ pc = "done" /\ pc' = pc
    BY <1>7 DEF Reimport
  <2>2. Of("users")' = Of("users") /\ Written' = Written
    BY <2>1 DEF Of, Written, Tenants
  <2>3. (Of("users") = UNION {UsersOf(t) : t \in Written})'
    BY <2>1, <2>2, WrittenStay DEF FeedInv
  <2>4. (pc = "done" => feeder.users = UNION {Names(BuiltFrom(feeder.refs, t)) : t \in Tenants})'
    BY <2>1 DEF FeedInv, Names, BuiltFrom, Tenants, SpecOf
  <2> QED
    BY <2>1, <2>3, <2>4 DEF FeedInv, Tenants, SpecOf
<1>8. CASE UNCHANGED vars
  <2>1. Of("users")' = Of("users") /\ Written' = Written
    BY <1>8 DEF vars, Of, Written, Tenants
  <2>2. (Of("users") = UNION {UsersOf(t) : t \in Written})'
    BY <1>8, <2>1, WrittenStay DEF vars, FeedInv
  <2>3. \A t : BuiltFrom(feeder.refs, t)' = BuiltFrom(feeder.refs, t)
    BY <1>8 DEF vars, BuiltFrom, SpecOf
  <2> QED
    BY <1>8, <2>2, <2>3 DEF vars, FeedInv, Tenants, SpecOf, Names
<1> QED
  BY <1>1, <1>2, <1>3, <1>4, <1>5, <1>6, <1>7, <1>8 DEF Next

\* A feeder that was built from the refs the rows were built from names the users
\* written, field workers and supervisors, all of them and no other, whatever the
\* recipe and the hierarchy.
THEOREM FeederNamesThem == Spec => []FeederNamesTheUsers
<1>1. IInv /\ FeedInv => FeederNamesTheUsers
  <2> SUFFICES ASSUME IInv, FeedInv, pc = "done", feeder.refs = used
               PROVE  feeder.users = Names(Of("users"))
    BY DEF FeederNamesTheUsers, Names
  <2>1. Len(recipe.tenants) \in Nat
    BY DatasetAssumption DEF IInv
  <2>2. Written = Tenants
    BY <2>1 DEF Written, FeedInv, Tenants
  <2>3. \A t \in Tenants : BuiltFrom(feeder.refs, t) = UsersOf(t)
    BY DEF FeedInv, BuiltFrom, UsersOf
  <2>4. feeder.users = UNION {Names(UsersOf(t)) : t \in Tenants}
    BY <2>3 DEF FeedInv
  <2>5. Of("users") = UNION {UsersOf(t) : t \in Tenants}
    BY <2>2 DEF FeedInv
  <2> QED
    BY <2>4, <2>5 DEF Names
<1>2. Init => IInv /\ FeedInv
  BY InitIInv, InitFeedInv
<1>3. IInv /\ FeedInv /\ [Next]_vars => (IInv /\ FeedInv)'
  BY NextIInv, FeedStep
<1> QED
  BY <1>1, <1>2, <1>3, PTL DEF Spec
-----------------------------------------------------------------------------
(* Least and largest elements, and induction in the form of sets.           *)

\* Every nonempty set of naturals has a least element.
LEMMA LeastElement ==
    ASSUME NEW S \in SUBSET Nat, S # {}
    PROVE  \E x \in S : \A y \in S : x <= y
<1>1. PICK x \in S : \A y \in S : <<y, x>> \notin OpToRel(<, Nat)
  BY NatLessThanWellFounded, WFMin
<1>2. ASSUME NEW y \in S, y < x
      PROVE  <<y, x>> \in OpToRel(<, Nat)
  BY <1>2 DEF OpToRel
<1>3. \A y \in S : ~(y < x)
  BY <1>1, <1>2
<1> QED
  BY <1>3

\* Induction, in the form of a set that holds 0 and is closed under successor.
LEMMA NatSetInduction ==
    ASSUME NEW A, A \subseteq Nat, 0 \in A, \A k \in A : k + 1 \in A
    PROVE  A = Nat
<1>1. SUFFICES ASSUME Nat \ A # {} PROVE FALSE
  OBVIOUS
<1>2. PICK x \in Nat \ A : \A y \in Nat \ A : x <= y
  BY <1>1, LeastElement
<1>3. x \in Nat /\ x # 0 /\ x - 1 \in Nat /\ ~(x <= x - 1)
  OBVIOUS
<1>4. x - 1 \in A
  BY <1>2, <1>3
<1> QED
  BY <1>3, <1>4

\* Every nonempty, bounded set of naturals has a largest element.
LEMMA LargestElement ==
    ASSUME NEW S \in SUBSET Nat, S # {}, NEW n \in Nat, \A x \in S : x <= n
    PROVE  \E x \in S : \A y \in S : y <= x
<1> DEFINE down == {n - x : x \in S}
<1>1. down \in SUBSET Nat /\ down # {}
  <2>1. \A x \in S : n - x \in Nat
    OBVIOUS
  <2> QED
    BY <2>1
<1>2. PICK d \in down : \A e \in down : d <= e
  <2> HIDE DEF down
  <2> QED
    BY <1>1, LeastElement
<1>3. PICK x \in S : d = n - x
  OBVIOUS
<1>4. \A y \in S : n - x <= n - y
  BY <1>2, <1>3
<1> QED
  BY <1>4

\* Of finitely many sequences one is the longest.
LEMMA LongestOf ==
    ASSUME NEW X, NEW S \in SUBSET Seq(X), S # {}, IsFiniteSet(S)
    PROVE  \E s \in S : \A r \in S : Len(r) <= Len(s)
<1> DEFINE A == {k \in Nat : \A T \in SUBSET S : T # {} /\ Cardinality(T) = k =>
                                \E s \in T : \A r \in T : Len(r) <= Len(s)}
<1>1. \A s \in S : Len(s) \in Nat
  BY LenProperties
<1>2. \A T \in SUBSET S : IsFiniteSet(T) /\ Cardinality(T) \in Nat
  BY FS_Subset, FS_CardinalityType
<1>3. 0 \in A
  BY <1>2, FS_EmptySet
<1>4. ASSUME NEW k \in A PROVE k + 1 \in A
  <2>0. k \in Nat /\ k + 1 \in Nat
    BY <1>4
  <2> SUFFICES ASSUME NEW T \in SUBSET S, T # {}, Cardinality(T) = k + 1
               PROVE  \E s \in T : \A r \in T : Len(r) <= Len(s)
    BY <2>0, Zenon
  <2>1. PICK t \in T : TRUE
    OBVIOUS
  <2>2. T \ {t} \in SUBSET S /\ Cardinality(T \ {t}) = k
    <3>1. IsFiniteSet(T) /\ Cardinality(T \ {t}) = Cardinality(T) - 1
      BY <1>2, <2>1, FS_RemoveElement
    <3> QED
      BY <1>4, <3>1
  <2>3. CASE T \ {t} = {}
    BY <1>1, <2>1, <2>3
  <2>4. CASE T \ {t} # {}
    <3>1. PICK s \in T \ {t} : \A r \in T \ {t} : Len(r) <= Len(s)
      BY <1>4, <2>2, <2>4
    <3>2. Len(s) \in Nat /\ Len(t) \in Nat
      BY <1>1
    <3>3. CASE Len(t) <= Len(s)
      BY <3>1, <3>3
    <3>4. CASE ~(Len(t) <= Len(s))
      <4>1. \A r \in T : Len(r) <= Len(t)
        <5> SUFFICES ASSUME NEW r \in T PROVE Len(r) <= Len(t)
          OBVIOUS
        <5>1. Len(r) \in Nat /\ (r = t \/ Len(r) <= Len(s))
          BY <1>1, <3>1
        <5> QED
          BY <3>2, <3>4, <5>1
      <4> QED
        BY <2>1, <4>1
    <3> QED
      BY <3>3, <3>4
  <2> QED
    BY <2>3, <2>4
<1>5. A = Nat
  <2>1. A \subseteq Nat /\ 0 \in A /\ \A k \in A : k + 1 \in A
    BY <1>3, <1>4
  <2> HIDE DEF A
  <2> QED
    BY <2>1, NatSetInduction
<1>6. Cardinality(S) \in A
  BY <1>2, <1>5
<1> QED
  BY <1>6

-----------------------------------------------------------------------------
(* The levels that a tenant's locations are planned on.                     *)

Level == [name : STRING, per : (Nat \ {0}) \X (Nat \ {0})]

\* The line that ends at a type, from the type above's.
NextLine(ref, g) ==
    [t \in ref.types |-> IF t \in DOMAIN ref.parent THEN Append(g[ref.parent[t]], t) ELSE <<t>>]
LineTo(ref) == CHOOSE g : g = NextLine(ref, g)

\* Types that hang off each other as trees each have a line above them.
LEMMA LinesExist ==
    ASSUME NEW ref, IsForest(ref)
    PROVE  LineTo(ref) = NextLine(ref, LineTo(ref))
<1> DEFINE Done(S, g) == \A t \in S : /\ t \in DOMAIN ref.parent => ref.parent[t] \in S
                                      /\ g[t] = NextLine(ref, g)[t]
           G == {S \in SUBSET ref.types : \E g : Done(S, g)}
           lacking == {Cardinality(ref.types \ S) : S \in G}
<1>1. \A S \in SUBSET ref.types : /\ IsFiniteSet(ref.types \ S)
                                  /\ Cardinality(ref.types \ S) \in Nat
  BY FS_Subset, FS_CardinalityType DEF IsForest
<1>2. {} \in G
  OBVIOUS
<1>3. PICK S \in G : \A T \in G : Cardinality(ref.types \ S) <= Cardinality(ref.types \ T)
  <2>1. lacking \in SUBSET Nat /\ lacking # {}
    BY <1>1, <1>2
  <2>2. PICK least \in lacking : \A other \in lacking : least <= other
    <3> HIDE DEF lacking
    <3> QED
      BY <2>1, LeastElement
  <2> HIDE DEF G
  <2> QED
    BY <2>2
<1>4. PICK g : Done(S, g)
  OBVIOUS
<1>5. S = ref.types
  <2> SUFFICES ASSUME ref.types \ S # {} PROVE FALSE
    OBVIOUS
  <2>1. PICK t \in ref.types \ S :
            t \in DOMAIN ref.parent => ref.parent[t] \notin ref.types \ S
    BY DEF IsForest
  <2>2. t \in DOMAIN ref.parent => ref.parent[t] \in S
    BY <2>1 DEF IsForest
  <2> DEFINE h == [u \in ref.types |-> IF u = t THEN NextLine(ref, g)[t] ELSE g[u]]
             T == S \cup {t}
  <2>3. \A u \in S : h[u] = g[u]
    BY <2>1
  <2>4. \A u \in T : u \in DOMAIN ref.parent => ref.parent[u] \in S
    BY <1>4, <2>2
  <2>5. \A u \in T : NextLine(ref, h)[u] = NextLine(ref, g)[u]
    BY <2>3, <2>4 DEF NextLine
  <2>6. \A u \in T : h[u] = NextLine(ref, g)[u]
    BY <1>4, <2>1, <2>3
  <2>7. Done(T, h)
    <3> HIDE DEF h
    <3> QED
      BY <2>4, <2>5, <2>6
  <2>8. T \in G
    <3>1. T \in SUBSET ref.types
      BY <2>1
    <3> HIDE DEF h, Done, T
    <3> QED
      BY <2>7, <3>1
  <2>9. ref.types \ T = (ref.types \ S) \ {t}
    OBVIOUS
  <2>10. Cardinality(ref.types \ T) = Cardinality(ref.types \ S) - 1
    <3>1. IsFiniteSet(ref.types \ S) /\ t \in ref.types \ S
      BY <1>1, <2>1
    <3>2. Cardinality((ref.types \ S) \ {t}) = Cardinality(ref.types \ S) - 1
      <4> HIDE DEF T
      <4> QED
        BY <3>1, FS_RemoveElement
    <3> QED
      BY <2>9, <3>2
  <2>11. Cardinality(ref.types \ S) <= Cardinality(ref.types \ T)
    BY <1>3, <2>8
  <2> QED
    BY <1>1, <2>10, <2>11
<1> DEFINE f == [t \in ref.types |-> g[t]]
<1>6. f = NextLine(ref, f)
  <2>1. NextLine(ref, f) = NextLine(ref, g)
    BY DEF NextLine, IsForest
  <2>2. \A t \in ref.types : g[t] = NextLine(ref, g)[t]
    BY <1>4, <1>5
  <2>3. f = [t \in ref.types |-> NextLine(ref, g)[t]]
    BY <2>2
  <2> QED
    BY <2>1, <2>3 DEF NextLine
<1> HIDE DEF f
<1> QED
  BY <1>6 DEF LineTo

\* They are sequences of types, and finitely many.
LEMMA LinesAre ==
    ASSUME NEW ref, IsForest(ref)
    PROVE  Lines(ref) \in SUBSET Seq(ref.types) /\ IsFiniteSet(Lines(ref))
<1>1. PICK line : line = LineTo(ref) /\ line = NextLine(ref, line)
  BY LinesExist
<1> DEFINE ends == {u \in ref.types : \A v \in DOMAIN ref.parent : ref.parent[v] # u}
<1>2. Lines(ref) = {line[t] : t \in ends}
  BY <1>1 DEF Lines, LineTo, NextLine
<1>3. \A t \in ref.types : line[t] \in Seq(ref.types)
  <2> DEFINE bad == {t \in ref.types : line[t] \notin Seq(ref.types)}
  <2> SUFFICES ASSUME bad # {} PROVE FALSE
    OBVIOUS
  <2>1. PICK t \in bad : t \in DOMAIN ref.parent => ref.parent[t] \notin bad
    BY DEF IsForest
  <2>2. CASE t \in DOMAIN ref.parent
    <3>1. line[t] = Append(line[ref.parent[t]], t)
      BY <1>1, <2>2 DEF NextLine
    <3>2. line[ref.parent[t]] \in Seq(ref.types)
      BY <2>1, <2>2 DEF IsForest
    <3>3. PICK above \in Seq(ref.types) : above = line[ref.parent[t]]
      BY <3>2
    <3>4. Append(above, t) \in Seq(ref.types)
      BY <2>1, AppendProperties
    <3> QED
      BY <2>1, <3>1, <3>3, <3>4
  <2>3. CASE t \notin DOMAIN ref.parent
    <3>1. line[t] = <<t>> /\ t \in ref.types
      BY <1>1, <2>3 DEF NextLine
    <3>2. PICK f \in [1..1 -> ref.types] : f = <<t>>
      BY <3>1
    <3>3. f \in Seq(ref.types)
      BY SeqDef
    <3> QED
      BY <2>1, <3>1, <3>2, <3>3
  <2> QED
    BY <2>2, <2>3
<1>4. IsFiniteSet({line[t] : t \in ends})
  <2>1. IsFiniteSet(ends)
    BY FS_Subset DEF IsForest
  <2>2. [t \in ends |-> line[t]] \in Surjection(ends, {line[t] : t \in ends})
    BY DEF Surjection
  <2> QED
    BY <2>1, <2>2, FS_Surjection DEF ExistsSurjection
<1> QED
  BY <1>2, <1>3, <1>4

\* A function on 1..n is a sequence of length n.
LEMMA FunctionAsSeq ==
    ASSUME NEW S, NEW n \in Nat, NEW f \in [1..n -> S]
    PROVE  f \in Seq(S) /\ Len(f) = n
<1>1. f \in Seq(S)
  BY SeqDef
<1>2. Len(f) \in Nat /\ DOMAIN f = 1..Len(f) /\ DOMAIN f = 1..n
  BY <1>1, LenProperties
<1> QED
  BY <1>1, <1>2

\* Cut at its deepest permitted type, a line stays a line.
LEMMA CutIs ==
    ASSUME NEW X, NEW line \in Seq(X), NEW permitted
    PROVE  cut(line, permitted) \in Seq(X)
<1> DEFINE places == {i \in 1..Len(line) : line[i] \in permitted}
<1>1. Len(line) \in Nat
  BY LenProperties
<1>2. CASE permitted = {}
  BY <1>2 DEF cut
<1>3. CASE permitted # {} /\ places = {}
  BY <1>3, EmptySeq DEF cut
<1>4. CASE permitted # {} /\ places # {}
  <2>1. places \in SUBSET Nat /\ \A i \in places : i <= Len(line)
    BY <1>1
  <2>2. \E i \in places : \A j \in places : j <= i
    <3> HIDE DEF places
    <3> QED
      BY <1>1, <1>4, <2>1, LargestElement
  <2>3. PICK m \in places : cut(line, permitted) = SubSeq(line, 1, m)
    <3>1. cut(line, permitted)
            = SubSeq(line, 1, CHOOSE i \in places : \A j \in places : j <= i)
      BY <1>4 DEF cut
    <3> HIDE DEF places
    <3> QED
      BY <2>2, <3>1
  <2>4. m \in 1..Len(line)
    OBVIOUS
  <2> QED
    BY <1>1, <2>3, <2>4, SubSeqProperties
<1> QED
  BY <1>2, <1>3, <1>4

\* What from_target_types gives are levels, as the measured ones are.
LEMMA TargetTypesAre ==
    ASSUME NEW ref, IsForest(ref)
    PROVE  from_target_types(ref) \in Seq(Level)
<1>1. CASE Lines(ref) = {}
  BY <1>1, EmptySeq DEF from_target_types
<1>2. CASE Lines(ref) # {}
  <2>1. PICK line \in Seq(ref.types) :
            line = CHOOSE s \in Lines(ref) : \A r \in Lines(ref) : Len(r) <= Len(s)
    <3>1. \E s \in Lines(ref) : \A r \in Lines(ref) : Len(r) <= Len(s)
      BY <1>2, LinesAre, LongestOf
    <3> QED
      BY <3>1, LinesAre
  <2>2. PICK chain \in Seq(ref.types) : chain = cut(line, registration_type_ids(ref))
    BY CutIs
  <2>3. PICK n \in Nat : n = Len(chain) /\ \A i \in 1..n : chain[i] \in STRING
    BY LenProperties, ElementOfSeq DEF IsForest
  <2> DEFINE levels == [i \in 1..n |-> [name |-> chain[i],
                                       per |-> ESTABLISHMENT[Smaller(i, Len(ESTABLISHMENT))].per]]
  <2>4. from_target_types(ref) = levels
    BY <1>2, <2>1, <2>2, <2>3 DEF from_target_types
  <2>5. ESTABLISHMENT \in Seq(Level) /\ ESTABLISHMENT # << >>
    BY DatasetAssumption DEF Level
  <2>6. PICK m \in Nat \ {0} : m = Len(ESTABLISHMENT) /\ \A j \in 1..m : ESTABLISHMENT[j] \in Level
    BY <2>5, EmptySeq, LenProperties, ElementOfSeq
  <2>7. \A i \in 1..n : Smaller(i, m) \in 1..m
    BY DEF Smaller
  <2>8. \A i \in 1..n : ESTABLISHMENT[Smaller(i, m)] \in Level
    BY <2>6, <2>7
  <2>9. \A i \in 1..n : ESTABLISHMENT[Smaller(i, m)].per \in (Nat \ {0}) \X (Nat \ {0})
    BY <2>8 DEF Level
  <2>10. levels \in [1..n -> Level]
    BY <2>3, <2>6, <2>9 DEF Level
  <2> QED
    BY <2>4, <2>10, FunctionAsSeq
<1> QED
  BY <1>1, <1>2

\* A tenant's sizes, whatever it was sized by.
SizesAre(s) ==
    /\ s.field_workers \in Nat /\ s.per_village \in Nat \ {0} /\ s.beneficiaries \in Nat
    /\ s.rate \in Nat /\ s.total \in Nat \cup {-1} /\ s.span \in Nat \cup {-1}

\* The levels a tenant is planned on.
LEMMA EstablishmentIs ==
    ASSUME NEW s, SizesAre(s), NEW ref, IsForest(ref)
    PROVE  establishment(s, ref) \in Seq(Level)
<1>1. PICK levels \in Seq(Level) :
          levels = IF ref.types = {} THEN ESTABLISHMENT ELSE from_target_types(ref)
  BY TargetTypesAre, DatasetAssumption DEF Level
<1>2. establishment(s, ref) = with_supervisor_span(s, levels)
  BY <1>1 DEF establishment
<1>3. CASE s.span = None
  BY <1>1, <1>2, <1>3 DEF with_supervisor_span
<1>4. CASE s.span # None /\ s.span < s.per_village
  BY <1>2, <1>4, EmptySeq DEF with_supervisor_span
<1>5. CASE s.span # None /\ ~(s.span < s.per_village)
  <2>1. s.span \in Nat \ {0} /\ s.per_village \in Nat \ {0}
    BY <1>5 DEF SizesAre, None
  <2>2. PICK n \in Nat : n = Len(levels) /\ levels \in [1..n -> Level]
    BY LenProperties
  <2> DEFINE spanned == [i \in 1..n |-> IF levels[i].name = "Village"
                                        THEN [levels[i] EXCEPT !.per = <<s.span, s.per_village>>]
                                        ELSE levels[i]]
  <2>3. with_supervisor_span(s, levels) = spanned
    BY <1>5, <2>2 DEF with_supervisor_span
  <2>4. \A i \in 1..n : [levels[i] EXCEPT !.per = <<s.span, s.per_village>>] \in Level
    BY <2>1, <2>2 DEF Level
  <2>5. spanned \in [1..n -> Level]
    BY <2>2, <2>4
  <2> HIDE DEF spanned
  <2> QED
    BY <1>2, <2>3, <2>5, FunctionAsSeq
<1> QED
  BY <1>3, <1>4, <1>5

\* A tenant has a village.
LEMMA VillagesAre ==
    ASSUME NEW s, SizesAre(s)
    PROVE  villages(s) \in Nat \ {0}
<1>1. Rounded(s.field_workers, s.per_village) \in Int
  BY DEF SizesAre, Rounded
<1> QED
  BY <1>1 DEF villages, Larger

\* How many places each level has: at least one, and the villages at the last.
OverLevel(below, level) == Larger(1, Rounded(below * level.per[2], level.per[1]))
LEMMA PlannedAre ==
    ASSUME NEW levels \in Seq(Level), levels # << >>, NEW n \in Nat \ {0}
    PROVE  /\ plan_levels(n, levels) \in Seq(Nat \ {0})
           /\ Len(plan_levels(n, levels)) = Len(levels)
           /\ plan_levels(n, levels)[Len(levels)] = n
           /\ \A i \in 1..(Len(levels) - 1) :
                plan_levels(n, levels)[i] = OverLevel(plan_levels(n, levels)[i + 1], levels[i + 1])
<1>0. PICK L \in Nat \ {0} : L = Len(levels) /\ levels \in [1..L -> Level]
  BY EmptySeq, LenProperties
<1> DEFINE Above(c, i) == Larger(1, Rounded(c * levels[i].per[2], levels[i].per[1]))
           Next1(g) == [i \in 1..L |-> IF i = L THEN n ELSE Above(g[i + 1], i + 1)]
           plan == CHOOSE g : g = Next1(g)
<1>1. plan_levels(n, levels) = plan
  BY <1>0 DEF plan_levels
<1>2. \A c \in Nat \ {0}, i \in 1..L : Above(c, i) \in Nat \ {0}
  <2> SUFFICES ASSUME NEW c \in Nat \ {0}, NEW i \in 1..L PROVE Above(c, i) \in Nat \ {0}
    OBVIOUS
  <2>1. levels[i] \in Level
    BY <1>0
  <2>2. PICK p \in Nat \ {0}, q \in Nat \ {0} : p = levels[i].per[1] /\ q = levels[i].per[2]
    BY <2>1 DEF Level
  <2>3. c * q \in Nat
    OBVIOUS
  <2>4. Rounded(c * q, p) \in Int
    BY <2>3 DEF Rounded
  <2> QED
    BY <2>2, <2>4 DEF Larger
<1> DEFINE Suffix(g, k) == /\ g \in [(L - k)..L -> Nat \ {0}] /\ g[L] = n
                           /\ \A i \in (L - k)..(L - 1) : g[i] = Above(g[i + 1], i + 1)
           A == {k \in Nat : k <= L - 1 => \E g : Suffix(g, k)}
<1> HIDE DEF Above
<1>3. 0 \in A
  <2>1. Suffix([i \in L..L |-> n], 0)
    OBVIOUS
  <2> HIDE DEF Suffix
  <2> QED
    BY <2>1
<1>4. ASSUME NEW k \in A PROVE k + 1 \in A
  <2>0. k \in Nat /\ k + 1 \in Nat
    BY <1>4
  <2> SUFFICES ASSUME k + 1 <= L - 1 PROVE \E g : Suffix(g, k + 1)
    BY <2>0
  <2>1. k <= L - 1
    BY <2>0
  <2>2. PICK g : Suffix(g, k)
    BY <1>4, <2>1
  <2>3. PICK l \in 1..L : l = L - k /\ L - (k + 1) = l - 1 /\ l - 1 \in 1..L
    BY <2>0
  <2>4. g[l] \in Nat \ {0}
    BY <2>2, <2>3
  <2> DEFINE h == [i \in (l - 1)..L |-> IF i = l - 1 THEN Above(g[l], l) ELSE g[i]]
  <2>5. h \in [(l - 1)..L -> Nat \ {0}]
    <3>1. Above(g[l], l) \in Nat \ {0}
      BY <1>2, <2>3, <2>4
    <3>2. \A i \in (l - 1)..L : i # l - 1 => i \in (L - k)..L
      BY <2>3
    <3>3. \A i \in (l - 1)..L : i # l - 1 => g[i] \in Nat \ {0}
      BY <2>2, <3>2
    <3> QED
      BY <3>1, <3>3
  <2>6. h[L] = n
    BY <2>2, <2>3
  <2>7. \A i \in (l - 1)..(L - 1) : h[i] = Above(h[i + 1], i + 1)
    <3> SUFFICES ASSUME NEW i \in (l - 1)..(L - 1) PROVE h[i] = Above(h[i + 1], i + 1)
      OBVIOUS
    <3>1. CASE i = l - 1
      <4>1. h[i] = Above(g[l], l) /\ i + 1 = l /\ h[l] = g[l]
        BY <2>3, <3>1
      <4> HIDE DEF h
      <4> QED
        BY <4>1
    <3>2. CASE i # l - 1
      <4>1. i \in l..(L - 1) /\ h[i] = g[i] /\ h[i + 1] = g[i + 1]
        BY <2>3, <3>2
      <4> HIDE DEF h
      <4> QED
        BY <2>2, <2>3, <4>1
    <3> QED
      BY <3>1, <3>2
  <2> HIDE DEF h
  <2>8. Suffix(h, k + 1)
    BY <2>3, <2>5, <2>6, <2>7
  <2> HIDE DEF Suffix
  <2> QED
    BY <2>8
<1>5. A = Nat
  <2>1. A \subseteq Nat /\ 0 \in A /\ \A k \in A : k + 1 \in A
    BY <1>3, <1>4
  <2> HIDE DEF A
  <2> QED
    BY <2>1, NatSetInduction
<1>6. PICK f : Suffix(f, L - 1)
  <2> HIDE DEF Suffix
  <2>1. L - 1 \in A /\ L - 1 <= L - 1
    <3>1. L - 1 \in Nat
      OBVIOUS
    <3> HIDE DEF A
    <3> QED
      BY <1>5, <3>1
  <2> QED
    BY <2>1
<1>7. f \in [1..L -> Nat \ {0}] /\ f[L] = n /\ f = Next1(f)
  <2>1. L - (L - 1) = 1
    OBVIOUS
  <2> QED
    BY <1>6, <2>1
<1>8. plan = Next1(plan)
  <2> HIDE DEF Next1
  <2> QED
    BY <1>7
<1>9. /\ plan \in [1..L -> Nat \ {0}] /\ plan[L] = n
      /\ \A i \in 1..(L - 1) : plan[i] = Above(plan[i + 1], i + 1)
  <2> HIDE DEF plan
  <2>1. plan[L] = n /\ \A i \in 1..(L - 1) : plan[i] = Above(plan[i + 1], i + 1)
    BY <1>8
  <2> DEFINE B == {k \in Nat : k <= L - 1 => plan[L - k] \in Nat \ {0}}
  <2>2. 0 \in B
    BY <2>1
  <2>3. ASSUME NEW k \in B PROVE k + 1 \in B
    <3>0. k \in Nat /\ k + 1 \in Nat
      BY <2>3
    <3> SUFFICES ASSUME k + 1 <= L - 1 PROVE plan[L - (k + 1)] \in Nat \ {0}
      BY <3>0
    <3>1. PICK i \in 1..(L - 1) : i = L - (k + 1) /\ i + 1 = L - k /\ i + 1 \in 1..L
      BY <3>0
    <3>2. plan[i + 1] \in Nat \ {0}
      BY <2>3, <3>0, <3>1
    <3> QED
      BY <1>2, <2>1, <3>1, <3>2
  <2>4. B = Nat
    <3>1. B \subseteq Nat /\ 0 \in B /\ \A k \in B : k + 1 \in B
      BY <2>2, <2>3
    <3> HIDE DEF B
    <3> QED
      BY <3>1, NatSetInduction
  <2>5. \A i \in 1..L : plan[i] \in Nat \ {0}
    <3> SUFFICES ASSUME NEW i \in 1..L PROVE plan[i] \in Nat \ {0}
      OBVIOUS
    <3>1. L - i \in Nat /\ L - i <= L - 1 /\ L - (L - i) = i
      OBVIOUS
    <3>2. L - i \in B
      <4> HIDE DEF B
      <4> QED
        BY <2>4, <3>1
    <3> QED
      BY <3>1, <3>2
  <2>6. plan = [i \in 1..L |-> plan[i]]
    BY <1>8
  <2> QED
    BY <2>1, <2>5, <2>6
<1>10. \A i \in 1..(L - 1) : plan[i] = OverLevel(plan[i + 1], levels[i + 1])
  <2> HIDE DEF plan
  <2>1. \A c, i : Above(c, i) = OverLevel(c, levels[i])
    BY DEF OverLevel, Above
  <2> QED
    BY <1>9, <2>1
<1>11. plan \in Seq(Nat \ {0}) /\ Len(plan) = L
  BY <1>9, FunctionAsSeq
<1> HIDE DEF plan
<1> QED
  BY <1>0, <1>1, <1>9, <1>10, <1>11

\* The places before a level: none before the first, and a level's own after it.
LEMMA BeforeIs ==
    ASSUME NEW c \in Seq(Nat \ {0}), c # << >>
    PROVE  /\ Before(c) \in [1..Len(c) -> Nat] /\ Before(c)[1] = 0
           /\ \A i \in 1..(Len(c) - 1) : Before(c)[i + 1] = Before(c)[i] + c[i]
           /\ \A i, j \in 1..Len(c) : i < j => Before(c)[i] + c[i] <= Before(c)[j]
<1>0. PICK L \in Nat \ {0} : L = Len(c) /\ c \in [1..L -> Nat \ {0}]
  BY EmptySeq, LenProperties
<1> DEFINE Next1(g) == [i \in 1..L |-> IF i = 1 THEN 0 ELSE g[i - 1] + c[i - 1]]
           b == CHOOSE g : g = Next1(g)
<1>1. Before(c) = b
  BY <1>0 DEF Before
<1> DEFINE Prefix(g, k) == /\ g \in [1..(k + 1) -> Nat] /\ g[1] = 0
                           /\ \A i \in 1..k : g[i + 1] = g[i] + c[i]
           A == {k \in Nat : k <= L - 1 => \E g : Prefix(g, k)}
<1>2. 0 \in A
  <2>1. Prefix([i \in 1..1 |-> 0], 0)
    OBVIOUS
  <2> HIDE DEF Prefix
  <2> QED
    BY <2>1
<1>3. ASSUME NEW k \in A PROVE k + 1 \in A
  <2>0. k \in Nat /\ k + 1 \in Nat
    BY <1>3
  <2> SUFFICES ASSUME k + 1 <= L - 1 PROVE \E g : Prefix(g, k + 1)
    BY <2>0
  <2>1. k <= L - 1
    BY <2>0
  <2>2. PICK g : Prefix(g, k)
    BY <1>3, <2>1
  <2>3. PICK l \in 1..L : l = k + 1 /\ l + 1 \in 1..L
    BY <2>0
  <2>4. g[l] \in Nat /\ c[l] \in Nat
    BY <1>0, <2>2, <2>3
  <2> DEFINE h == [i \in 1..(l + 1) |-> IF i = l + 1 THEN g[l] + c[l] ELSE g[i]]
  <2>5. h \in [1..(l + 1) -> Nat] /\ h[1] = 0
    <3>1. \A i \in 1..(l + 1) : i # l + 1 => g[i] \in Nat
      BY <2>2, <2>3
    <3>2. g[l] + c[l] \in Nat
      BY <2>4
    <3>3. h \in [1..(l + 1) -> Nat]
      <4>1. \A i \in 1..(l + 1) : (IF i = l + 1 THEN g[l] + c[l] ELSE g[i]) \in Nat
        BY <3>1, <3>2
      <4> QED
        BY <4>1, Zenon
    <3>4. 1 \in 1..(l + 1) /\ 1 # l + 1
      BY <2>3
    <3>5. h[1] = g[1] /\ g[1] = 0
      BY <2>2, <3>4
    <3> QED
      BY <3>3, <3>5
  <2>6. \A i \in 1..l : h[i + 1] = h[i] + c[i]
    <3> SUFFICES ASSUME NEW i \in 1..l PROVE h[i + 1] = h[i] + c[i]
      OBVIOUS
    <3>1. CASE i = l
      BY <2>3, <3>1
    <3>2. CASE i # l
      <4>1. i \in 1..k /\ h[i] = g[i] /\ h[i + 1] = g[i + 1]
        BY <2>3, <3>2
      <4> HIDE DEF h
      <4> QED
        BY <2>2, <4>1
    <3> QED
      BY <3>1, <3>2
  <2> HIDE DEF h
  <2>7. Prefix(h, k + 1)
    BY <2>3, <2>5, <2>6
  <2> HIDE DEF Prefix
  <2> QED
    BY <2>7
<1>4. A = Nat
  <2>1. A \subseteq Nat /\ 0 \in A /\ \A k \in A : k + 1 \in A
    BY <1>2, <1>3
  <2> HIDE DEF A
  <2> QED
    BY <2>1, NatSetInduction
<1>5. PICK f : Prefix(f, L - 1)
  <2> HIDE DEF Prefix
  <2>1. L - 1 \in A /\ L - 1 <= L - 1
    <3>1. L - 1 \in Nat
      OBVIOUS
    <3> HIDE DEF A
    <3> QED
      BY <1>4, <3>1
  <2> QED
    BY <2>1
<1>6. f = Next1(f)
  BY <1>0, <1>5
<1>7. b = Next1(b)
  <2> HIDE DEF Next1
  <2> QED
    BY <1>6
<1> HIDE DEF b
<1>8. /\ b[1] = 0 /\ b = [i \in 1..L |-> b[i]]
      /\ \A i \in 1..(L - 1) : b[i + 1] = b[i] + c[i]
  <2>1. b = [i \in 1..L |-> b[i]]
        /\ \A i \in 1..L : b[i] = IF i = 1 THEN 0 ELSE b[i - 1] + c[i - 1]
    BY <1>7, Zenon
  <2>2. b[1] = 0
    <3>1. 1 \in 1..L
      OBVIOUS
    <3> QED
      BY <2>1, <3>1, Zenon
  <2>3. ASSUME NEW i \in 1..(L - 1) PROVE b[i + 1] = b[i] + c[i]
    <3>1. i + 1 \in 1..L /\ i + 1 # 1 /\ (i + 1) - 1 = i
      OBVIOUS
    <3>2. b[i + 1] = b[(i + 1) - 1] + c[(i + 1) - 1]
      BY <2>1, <3>1, Zenon
    <3> QED
      BY <3>1, <3>2
  <2> QED
    BY <2>1, <2>2, <2>3
<1> DEFINE B == {k \in Nat : k <= L - 1 => b[k + 1] \in Nat}
<1>9. B = Nat
  <2>1. 0 \in B
    BY <1>8
  <2>2. ASSUME NEW k \in B PROVE k + 1 \in B
    <3>1. k \in Nat /\ k + 1 \in Nat
      BY <2>2
    <3> SUFFICES ASSUME k + 1 <= L - 1 PROVE b[(k + 1) + 1] \in Nat
      BY <3>1
    <3>2. PICK j \in 1..(L - 1) : j = k + 1
      BY <3>1
    <3>3. b[j] \in Nat
      BY <2>2, <3>1, <3>2
    <3>4. c[j] \in Nat
      BY <1>0, <3>2
    <3>5. b[j + 1] = b[j] + c[j]
      BY <1>8, <3>2
    <3> QED
      BY <3>2, <3>3, <3>4, <3>5
  <2>3. B \subseteq Nat /\ 0 \in B /\ \A k \in B : k + 1 \in B
    BY <2>1, <2>2
  <2> HIDE DEF B
  <2> QED
    BY <2>3, NatSetInduction
<1>10. \A i \in 1..L : b[i] \in Nat
  <2> SUFFICES ASSUME NEW i \in 1..L PROVE b[i] \in Nat
    OBVIOUS
  <2>1. i - 1 \in Nat /\ i - 1 <= L - 1 /\ (i - 1) + 1 = i
    OBVIOUS
  <2>2. i - 1 \in B
    <3> HIDE DEF B
    <3> QED
      BY <1>9, <2>1
  <2> QED
    BY <2>1, <2>2
<1>11. b \in [1..L -> Nat]
  BY <1>8, <1>10
<1> DEFINE C == {k \in Nat : \A i \in 1..L : i + k + 1 <= L => b[i] + c[i] <= b[i + k + 1]}
<1>12. C = Nat
  <2>1. 0 \in C
    <3> SUFFICES ASSUME NEW i \in 1..L, i + 0 + 1 <= L PROVE b[i] + c[i] <= b[i + 0 + 1]
      OBVIOUS
    <3>1. i \in 1..(L - 1) /\ i + 0 + 1 = i + 1 /\ i + 1 \in 1..L
      OBVIOUS
    <3>2. b[i + 1] = b[i] + c[i] /\ b[i + 1] \in Nat
      BY <1>8, <1>10, <3>1
    <3> QED
      BY <3>1, <3>2
  <2>2. ASSUME NEW k \in C PROVE k + 1 \in C
    <3>1. k \in Nat /\ k + 1 \in Nat
      BY <2>2
    <3> SUFFICES ASSUME NEW i \in 1..L, i + (k + 1) + 1 <= L
                 PROVE  b[i] + c[i] <= b[i + (k + 1) + 1]
      BY <3>1
    <3>2. PICK j \in 1..(L - 1) : j = i + k + 1 /\ i + (k + 1) + 1 = j + 1 /\ j + 1 \in 1..L
      BY <3>1
    <3>3. b[i] + c[i] <= b[j]
      <4>1. i + k + 1 <= L /\ \A x \in 1..L : x + k + 1 <= L => b[x] + c[x] <= b[x + k + 1]
        BY <2>2, <3>1
      <4> QED
        BY <3>2, <4>1
    <3>4. b[j + 1] = b[j] + c[j]
      BY <1>8, <3>2
    <3>5. j \in 1..L
      BY <3>2
    <3>6. b[j] \in Nat /\ b[i] \in Nat
      BY <1>10, <3>5
    <3>7. c[j] \in Nat /\ c[i] \in Nat
      BY <1>0, <3>5
    <3>8. b[i] + c[i] <= b[j + 1]
      <4>1. PICK p \in Nat, q \in Nat, x \in Nat, y \in Nat :
                p = b[i] /\ q = c[i] /\ x = b[j] /\ y = c[j]
        BY <3>6, <3>7
      <4>2. p + q <= x
        BY <3>3, <4>1
      <4>3. p + q <= x + y
        BY <4>2
      <4> QED
        BY <3>4, <4>1, <4>3
    <3>9. i + (k + 1) + 1 = j + 1
      BY <3>2
    <3> QED
      BY <3>8, <3>9
  <2>3. C \subseteq Nat /\ 0 \in C /\ \A k \in C : k + 1 \in C
    BY <2>1, <2>2
  <2> HIDE DEF C
  <2> QED
    BY <2>3, NatSetInduction
<1>13. \A i, j \in 1..L : i < j => b[i] + c[i] <= b[j]
  <2> SUFFICES ASSUME NEW i \in 1..L, NEW j \in 1..L, i < j PROVE b[i] + c[i] <= b[j]
    OBVIOUS
  <2>1. (j - i) - 1 \in Nat /\ i + ((j - i) - 1) + 1 = j /\ j <= L
    OBVIOUS
  <2>2. (j - i) - 1 \in C
    <3> HIDE DEF C
    <3> QED
      BY <1>12, <2>1
  <2> QED
    BY <2>1, <2>2
<1> QED
  BY <1>0, <1>1, <1>8, <1>11, <1>13

\* Two places of a tree never have one id.
LEMMA PlacesAre ==
    ASSUME NEW c \in Seq(Nat \ {0}), c # << >>, NEW first \in Nat
    PROVE  /\ \A i \in 1..Len(c), n \in Nat : Place(c, first, i, n) \in Nat
           /\ \A i, j \in 1..Len(c) : \A n \in 0..(c[i] - 1), m \in 0..(c[j] - 1) :
                Place(c, first, i, n) = Place(c, first, j, m) => i = j /\ n = m
<1>1. PICK b \in [1..Len(c) -> Nat] :
          b = Before(c) /\ \A i, j \in 1..Len(c) : i < j => b[i] + c[i] <= b[j]
  BY BeforeIs
<1>2. Len(c) \in Nat /\ \A i \in 1..Len(c) : c[i] \in Nat
  BY LenProperties
<1>3. \A n : \A i \in 1..Len(c) : Place(c, first, i, n) = first + b[i] + n
  BY <1>1 DEF Place
<1>4. ASSUME NEW i \in 1..Len(c), NEW j \in 1..Len(c), NEW n \in 0..(c[i] - 1),
             NEW m \in 0..(c[j] - 1), Place(c, first, i, n) = Place(c, first, j, m)
      PROVE  i = j /\ n = m
  <2>1. PICK p \in Nat, x \in Nat, q \in Nat, y \in Nat :
            p = b[i] /\ x = b[j] /\ q = c[i] /\ y = c[j]
    BY <1>1, <1>2
  <2>2. n \in 0..(q - 1) /\ m \in 0..(y - 1) /\ first + p + n = first + x + m
    BY <1>3, <1>4, <2>1
  <2>3. ~(i < j)
    <3> SUFFICES ASSUME i < j PROVE FALSE
      OBVIOUS
    <3>1. p + q <= x
      BY <1>1, <2>1
    <3> QED
      BY <2>2, <3>1
  <2>4. ~(j < i)
    <3> SUFFICES ASSUME j < i PROVE FALSE
      OBVIOUS
    <3>1. x + y <= p
      BY <1>1, <2>1
    <3> QED
      BY <2>2, <3>1
  <2>5. i = j
    BY <1>2, <2>3, <2>4
  <2> QED
    BY <2>1, <2>2, <2>5
<1>5. \A i \in 1..Len(c), n \in Nat : Place(c, first, i, n) \in Nat
  <2> SUFFICES ASSUME NEW i \in 1..Len(c), NEW n \in Nat PROVE Place(c, first, i, n) \in Nat
    OBVIOUS
  <2>1. Place(c, first, i, n) = first + b[i] + n
    BY <1>3
  <2>2. PICK x \in Nat : x = b[i]
    BY <1>1
  <2>3. first + x + n \in Nat
    OBVIOUS
  <2> QED
    BY <2>1, <2>2, <2>3
<1> QED
  BY <1>4, <1>5

\* Rows of some tables of one organisation, as R makes them.
RowsIn(tables, org) ==
    [table : tables, org : {org}, id : Nat, on : Nat \cup {None},
     address : Nat \cup {None}, at : Nat]

\* The counts that a tenant's places are planned with.
PlannedFor(s, levels, c, L) ==
    /\ c = plan_levels(villages(s), levels) /\ c # << >>
    /\ L = Len(c) /\ L = Len(levels) /\ DOMAIN c = 1..L
    /\ c \in [1..L -> Nat \ {0}] /\ c[L] = villages(s)
    /\ \A i \in 1..(L - 1) : c[i] = OverLevel(c[i + 1], levels[i + 1])
LEMMA CountsAre ==
    ASSUME NEW s, SizesAre(s), NEW levels \in Seq(Level), levels # << >>
    PROVE  \E c \in Seq(Nat \ {0}), L \in Nat \ {0} : PlannedFor(s, levels, c, L)
<1>1. villages(s) \in Nat \ {0}
  BY VillagesAre
<1>2. PICK c \in Seq(Nat \ {0}) : /\ c = plan_levels(villages(s), levels)
                                  /\ Len(c) = Len(levels) /\ c[Len(levels)] = villages(s)
                                  /\ \A i \in 1..(Len(levels) - 1) :
                                       c[i] = OverLevel(c[i + 1], levels[i + 1])
  BY <1>1, PlannedAre
<1>3. Len(levels) \in Nat \ {0}
  BY EmptySeq, LenProperties
<1>4. c # << >> /\ c \in [1..Len(c) -> Nat \ {0}] /\ DOMAIN c = 1..Len(c)
  BY <1>2, <1>3, EmptySeq, LenProperties
<1>5. PlannedFor(s, levels, c, Len(c)) /\ Len(c) \in Nat \ {0}
  BY <1>2, <1>3, <1>4 DEF PlannedFor
<1> QED
  BY <1>5

\* A tree's rows are locations of its organisation, at ids that are naturals.
LEMMA BuildIs ==
    ASSUME NEW s, SizesAre(s), NEW levels \in Seq(Level), levels # << >>, NEW first \in Nat
    PROVE  build(s, levels, first) \subseteq RowsIn({"address_level"}, s.org)
<1>0. PICK c \in Seq(Nat \ {0}), L \in Nat \ {0} : PlannedFor(s, levels, c, L)
  BY CountsAre
<1>1. /\ c = plan_levels(villages(s), levels) /\ c # << >> /\ L = Len(c)
      /\ c \in [1..L -> Nat \ {0}]
  BY <1>0 DEF PlannedFor
<1>2. \A i \in 1..L, n \in Nat : Place(c, first, i, n) \in Nat
  BY <1>1, PlacesAre
<1> SUFFICES ASSUME NEW r \in build(s, levels, first)
             PROVE  r \in RowsIn({"address_level"}, s.org)
  OBVIOUS
<1>3. PICK i \in 1..L : \E n \in 0..(c[i] - 1) :
          r = R("address_level", s.org, Place(c, first, i, n),
                IF i = 1 THEN None ELSE Place(c, first, i - 1, n % c[i - 1]), i, 0)
  BY <1>1 DEF build
<1>8. PICK n \in 0..(c[i] - 1) :
          r = R("address_level", s.org, Place(c, first, i, n),
                IF i = 1 THEN None ELSE Place(c, first, i - 1, n % c[i - 1]), i, 0)
  BY <1>3
<1>4. n \in Nat
  BY <1>1
<1>5. i # 1 => i - 1 \in 1..L /\ n % c[i - 1] \in Nat
  <2> SUFFICES ASSUME i # 1 PROVE i - 1 \in 1..L /\ n % c[i - 1] \in Nat
    OBVIOUS
  <2>1. i - 1 \in 1..L
    OBVIOUS
  <2>2. PICK d \in Nat \ {0} : d = c[i - 1]
    BY <1>1, <2>1
  <2>3. n % d \in Nat
    BY <1>4
  <2> QED
    BY <2>1, <2>2, <2>3
<1>6. PICK on \in Nat \cup {None} :
          on = IF i = 1 THEN None ELSE Place(c, first, i - 1, n % c[i - 1])
  BY <1>2, <1>5
<1>7. Place(c, first, i, n) \in Nat
  BY <1>2, <1>4
<1> QED
  BY <1>6, <1>7, <1>8 DEF R, RowsIn

\* Who there is: a catchment and its field workers for every leaf, and a catchment and
\* its supervisor for every place of the supervisors' level.
Person(r, s, c, first, i, n, per) ==
    \/ \E k \in 0..(n - 1) :
         \/ r = R("catchment", s.org, first + k, Place(c, first, Len(c), k), None, 0)
         \/ \E w \in 0..(per - 1) :
              r = R("users", s.org, first + k * per + w, first + k, None, 0)
    \/ \E k \in 0..(c[i] - 1) :
         \/ r = R("catchment", s.org, first + n + k, Place(c, first, i, k), None, 0)
         \/ r = R("users", s.org, first + n * per + k, first + n + k, None, 1)
PeopleBy(s, levels, first, c, L, n, per, i) ==
    /\ PlannedFor(s, levels, c, L) /\ levels # << >>
    /\ n = c[L] /\ n = villages(s) /\ per = s.per_village
    /\ \A r : r \in CatchmentsAndUsers(s, levels, first) <=> Person(r, s, c, first, i, n, per)
LEMMA PeopleIs ==
    ASSUME NEW s, SizesAre(s), NEW levels \in Seq(Level), SupervisorsAt(s, levels) # {}, NEW first
    PROVE  \E c \in Seq(Nat \ {0}), L \in Nat \ {0}, n \in Nat \ {0}, per \in Nat \ {0} :
             \E i \in 1..L : PeopleBy(s, levels, first, c, L, n, per, i)
<1>0. levels # << >>
  BY EmptySeq DEF SupervisorsAt
<1>7. PICK c \in Seq(Nat \ {0}), L \in Nat \ {0} : PlannedFor(s, levels, c, L)
  BY <1>0, CountsAre
<1>1. /\ c = plan_levels(villages(s), levels) /\ c # << >> /\ L = Len(c) /\ L = Len(levels)
      /\ c \in [1..L -> Nat \ {0}] /\ c[L] = villages(s)
  BY <1>7 DEF PlannedFor
<1>2. PICK i \in 1..L : i = CHOOSE l \in SupervisorsAt(s, levels) : TRUE
  BY <1>1 DEF SupervisorsAt
<1>3. PICK n \in Nat \ {0} : n = c[L]
  BY <1>1
<1>4. PICK per \in Nat \ {0} : per = s.per_village
  BY DEF SizesAre
<1>5. \A r : r \in CatchmentsAndUsers(s, levels, first) <=> Person(r, s, c, first, i, n, per)
  BY <1>1, <1>2, <1>3, <1>4 DEF CatchmentsAndUsers, Person
<1>6. PeopleBy(s, levels, first, c, L, n, per, i)
  BY <1>0, <1>1, <1>3, <1>4, <1>5, <1>7 DEF PeopleBy
<1> QED
  BY <1>6

\* Catchments and users are rows of the organisation.
LEMMA PeopleAre ==
    ASSUME NEW s, SizesAre(s), NEW levels \in Seq(Level), SupervisorsAt(s, levels) # {},
           NEW first \in Nat
    PROVE  CatchmentsAndUsers(s, levels, first) \subseteq RowsIn({"catchment", "users"}, s.org)
<1>4. PICK c \in Seq(Nat \ {0}), L \in Nat \ {0}, n \in Nat \ {0}, per \in Nat \ {0} :
        \E l \in 1..L : PeopleBy(s, levels, first, c, L, n, per, l)
  BY PeopleIs
<1>5. PICK i \in 1..L : PeopleBy(s, levels, first, c, L, n, per, i)
  BY <1>4
<1>1. c # << >> /\ L = Len(c) /\ c \in [1..L -> Nat \ {0}] /\ n = c[L]
  BY <1>5 DEF PeopleBy, PlannedFor
<1>2. \A l \in 1..L, k \in Nat : Place(c, first, l, k) \in Nat
  BY <1>1, PlacesAre
<1>3. \A r \in CatchmentsAndUsers(s, levels, first) : Person(r, s, c, first, i, n, per)
  BY <1>5 DEF PeopleBy
<1> SUFFICES ASSUME NEW r \in CatchmentsAndUsers(s, levels, first)
             PROVE  r \in RowsIn({"catchment", "users"}, s.org)
  OBVIOUS
<1>6. Person(r, s, c, first, i, n, per) /\ L = Len(c)
  BY <1>1, <1>3
<1>7. \A k \in 0..(n - 1), w \in 0..(per - 1) :
          first + k \in Nat /\ first + k * per + w \in Nat
  <2> SUFFICES ASSUME NEW k \in 0..(n - 1), NEW w \in 0..(per - 1)
               PROVE  first + k \in Nat /\ first + k * per + w \in Nat
    OBVIOUS
  <2>1. k \in Nat /\ w \in Nat /\ k * per \in Nat
    OBVIOUS
  <2> QED
    BY <2>1
<1>8. \A k \in 0..(c[i] - 1) : k \in Nat /\ first + n + k \in Nat /\ first + n * per + k \in Nat
  <2>1. PICK x \in Nat, y \in Nat : x = c[i] /\ y = n * per
    BY <1>1
  <2>2. \A k \in 0..(x - 1) : k \in Nat /\ first + n + k \in Nat /\ first + y + k \in Nat
    OBVIOUS
  <2> QED
    BY <2>1, <2>2
<1>9. L \in 1..L /\ \A k \in 0..(n - 1) : k \in Nat
  OBVIOUS
<1>10. ASSUME NEW k \in 0..(n - 1),
              r = R("catchment", s.org, first + k, Place(c, first, L, k), None, 0)
       PROVE  r \in RowsIn({"catchment", "users"}, s.org)
  <2>0. k \in Nat /\ L \in 1..L
    BY <1>9
  <2>1. first + k \in Nat
    BY <2>0
  <2>2. Place(c, first, L, k) \in Nat
    BY <1>2, <2>0
  <2> QED
    BY <1>10, <2>1, <2>2 DEF R, RowsIn
<1>11. ASSUME NEW k \in 0..(n - 1), NEW w \in 0..(per - 1),
              r = R("users", s.org, first + k * per + w, first + k, None, 0)
       PROVE  r \in RowsIn({"catchment", "users"}, s.org)
  <2>1. first + k \in Nat /\ first + k * per + w \in Nat
    BY <1>7
  <2> QED
    BY <1>11, <2>1 DEF R, RowsIn
<1>12. ASSUME NEW k \in 0..(c[i] - 1),
              \/ r = R("catchment", s.org, first + n + k, Place(c, first, i, k), None, 0)
              \/ r = R("users", s.org, first + n * per + k, first + n + k, None, 1)
       PROVE  r \in RowsIn({"catchment", "users"}, s.org)
  <2>1. first + n + k \in Nat /\ first + n * per + k \in Nat /\ Place(c, first, i, k) \in Nat
    BY <1>2, <1>8
  <2>2. CASE r = R("catchment", s.org, first + n + k, Place(c, first, i, k), None, 0)
    BY <2>1, <2>2 DEF R, RowsIn
  <2>3. CASE r = R("users", s.org, first + n * per + k, first + n + k, None, 1)
    BY <2>1, <2>3 DEF R, RowsIn
  <2> QED
    BY <1>12, <2>2, <2>3
<1> QED
  BY <1>6, <1>10, <1>11, <1>12 DEF Person

\* What build_tenant gives a tenant, and its group and memberships.
Tables == {"address_level", "catchment", "users"}
LEMMA TenantsRows ==
    ASSUME NEW s, SizesAre(s), NEW ref, IsForest(ref), NEW base \in Nat
    PROVE  build_tenant(s, ref, base) \subseteq RowsIn(Tables, s.org)
<1>1. PICK levels \in Seq(Level) : levels = establishment(s, ref)
  BY EstablishmentIs
<1>2. base + 1 \in Nat
  OBVIOUS
<1>3. CASE levels = << >> \/ SupervisorsAt(s, levels) = {}
  BY <1>1, <1>3 DEF build_tenant
<1>4. CASE levels # << >> /\ SupervisorsAt(s, levels) # {}
  <2>1. /\ build(s, levels, base + 1) \subseteq RowsIn({"address_level"}, s.org)
        /\ CatchmentsAndUsers(s, levels, base + 1) \subseteq RowsIn({"catchment", "users"}, s.org)
    BY <1>2, <1>4, BuildIs, PeopleAre
  <2>2. build_tenant(s, ref, base)
          = build(s, levels, base + 1) \cup CatchmentsAndUsers(s, levels, base + 1)
    BY <1>1, <1>4 DEF build_tenant
  <2>3. /\ RowsIn({"address_level"}, s.org) \subseteq RowsIn(Tables, s.org)
        /\ RowsIn({"catchment", "users"}, s.org) \subseteq RowsIn(Tables, s.org)
    BY DEF RowsIn, Tables
  <2> QED
    BY <2>1, <2>2, <2>3
<1> QED
  BY <1>3, <1>4

LEMMA GroupsRows ==
    ASSUME NEW org, NEW users, users \subseteq RowsIn(Tables, org), NEW base \in Nat
    PROVE  user_group_rows(org, users, base) \subseteq RowsIn({"groups", "user_group"}, org)
<1> SUFFICES ASSUME NEW r \in user_group_rows(org, users, base)
             PROVE  r \in RowsIn({"groups", "user_group"}, org)
  OBVIOUS
<1>1. PICK g \in Nat : g = group_id_for(base)
  BY DEF group_id_for
<1>2. CASE r = R("groups", org, g, None, None, 0)
  BY <1>2 DEF R, RowsIn
<1>3. ASSUME NEW u \in users, r = R("user_group", org, u.id, u.id, g, 0)
      PROVE  r \in RowsIn({"groups", "user_group"}, org)
  <2>1. u.id \in Nat
    BY DEF RowsIn
  <2> QED
    BY <1>3, <2>1 DEF R, RowsIn
<1> QED
  BY <1>1, <1>2, <1>3 DEF user_group_rows
-----------------------------------------------------------------------------
(* What is drawn for the villages.                                          *)

DrawnTables == {"individual", "program_enrolment", "program_encounter", "encounter"}
Base(t) == bases[SpecOf(t).org]
LevelsOf(t) == establishment(SpecOf(t), recipe.refs[SpecOf(t).org])
CountsOf(t) == plan_levels(villages(SpecOf(t)), LevelsOf(t))
LeafOf(t, k) == Place(CountsOf(t), Base(t) + 1, Len(CountsOf(t)), k)
VillagesOf(t) == 0..(villages(SpecOf(t)) - 1)
ShareOf(t) == encounters(SpecOf(t)) \div villages(SpecOf(t))
Drawn(table, t) == {r \in rows : r.table = table /\ r.org = SpecOf(t).org}
AtLeaf(table, t, k) == {r \in Drawn(table, t) : r.address = LeafOf(t, k)}
NothingDrawn == \A table \in DrawnTables : Of(table)' = Of(table)

\* Every drawn row belongs to a tenant that was written, and what the village
\* draws from are rows of its own.
Counted == pc = "village" =>
    /\ village \in VillagesOf(tenant)
    /\ left \in (0..Subjects) \X (0..Share) /\ (left[1] > 0 => left[2] = Share)
Held ==
    /\ pc # "village" => left = Idle /\ subjects = {} /\ enrolments = {}
    /\ subjects \subseteq AtLeaf("individual", tenant, village)
    /\ enrolments \subseteq AtLeaf("program_enrolment", tenant, village)
PlaceInv ==
    /\ pc \in {"ids", "tenant", "village", "done", "refused"}
    /\ pc # "ids" => \A t \in Tenants : SpecOf(t).org \in DOMAIN bases
    /\ rows \subseteq Row
    /\ \A table \in DrawnTables : IsFiniteSet(Of(table))
    /\ \A r \in rows : r.table \in DrawnTables => \E t \in Written : r.org = SpecOf(t).org
    /\ \A t \in Written : LevelsOf(t) # << >>
    /\ Counted /\ Held

\* A tenant's spec and refs are the recipe's.
LEMMA TenantIs ==
    ASSUME IInv, NEW t \in Tenants
    PROVE  /\ SpecOf(t) \in recipe.specs /\ SizesAre(SpecOf(t)) /\ villages(SpecOf(t)) \in Nat \ {0}
           /\ SpecOf(t).org \in DOMAIN recipe.refs /\ IsForest(recipe.refs[SpecOf(t).org])
           /\ LevelsOf(t) \in Seq(Level) /\ ShareOf(t) \in Nat
           /\ SpecOf(t).beneficiaries \in Nat
<1>1. recipe \in Recipes
  BY DEF IInv
<1>2. SpecOf(t) \in recipe.specs
  BY <1>1, DatasetAssumption DEF Tenants, SpecOf
<1>3. SizesAre(SpecOf(t))
  BY <1>1, <1>2, DatasetAssumption DEF SizesAre
<1>4. SpecOf(t).org \in DOMAIN recipe.refs /\ IsForest(recipe.refs[SpecOf(t).org])
  BY <1>1, DatasetAssumption DEF Tenants, SpecOf
<1>5. villages(SpecOf(t)) \in Nat \ {0}
  BY <1>3, VillagesAre
<1>6. LevelsOf(t) \in Seq(Level)
  BY <1>3, <1>4, EstablishmentIs DEF LevelsOf
<1>7. encounters(SpecOf(t)) \in Nat
  <2>1. SpecOf(t).field_workers * SpecOf(t).rate \in Nat
    BY <1>3 DEF SizesAre
  <2> QED
    BY <1>3, <2>1 DEF SizesAre, encounters, None
<1>8. ShareOf(t) \in Nat
  <2>1. \A m \in Nat, d \in Nat \ {0} : m \div d \in Nat
    OBVIOUS
  <2> QED
    BY <1>5, <1>7, <2>1 DEF ShareOf
<1> QED
  BY <1>2, <1>3, <1>4, <1>5, <1>6, <1>8 DEF SizesAre

\* The tenants are different organisations, and once planned have a base each.
LEMMA BasesAre ==
    ASSUME IInv, PlaceInv, pc # "ids"
    PROVE  /\ \A t \in Tenants : Base(t) \in Nat
           /\ \A t, u \in Tenants : SpecOf(t).org = SpecOf(u).org => t = u
<1>1. recipe \in Recipes
  BY DEF IInv
<1>2. \A t, u \in Tenants : SpecOf(t).org = SpecOf(u).org => t = u
  BY <1>1, DatasetAssumption DEF Tenants, SpecOf
<1>3. \A t \in Tenants : Base(t) \in Nat
  BY DEF IInv, PlaceInv, Base
<1> QED
  BY <1>2, <1>3

\* The places of a tenant's villages.
LEMMA LeavesAre ==
    ASSUME IInv, NEW t \in Tenants, Base(t) \in Nat, LevelsOf(t) # << >>
    PROVE  \A k \in Nat : /\ LeafOf(t, k) \in Nat
                          /\ \A l \in Nat : LeafOf(t, k) = LeafOf(t, l) => k = l
<1>1. SizesAre(SpecOf(t)) /\ LevelsOf(t) \in Seq(Level)
  BY TenantIs
<1>0. PICK c \in Seq(Nat \ {0}), L \in Nat \ {0} : PlannedFor(SpecOf(t), LevelsOf(t), c, L)
  BY <1>1, CountsAre
<1>2. c = CountsOf(t) /\ c # << >> /\ L = Len(c)
  BY <1>0 DEF CountsOf, PlannedFor
<1>3. Before(c) \in [1..L -> Nat]
  BY <1>2, BeforeIs
<1>4. PICK b \in Nat : b = Before(c)[L]
  BY <1>3
<1>5. \A k : LeafOf(t, k) = (Base(t) + 1) + b + k
  BY <1>2, <1>4 DEF LeafOf, Place
<1> QED
  BY <1>5

\* A row drawn now: at the village, with the next id of its table.
Fresh(r, table) ==
    /\ r \in RowsIn({table}, This.org) /\ r.address = LeafOf(tenant, village)
    /\ r.id = Base(tenant) + 1 + Cardinality(Drawn(table, tenant))

LEMMA Drawing ==
    ASSUME IInv, FeedInv, PlaceInv, pc = "village"
    PROVE  /\ tenant \in Tenants /\ tenant \in Written /\ Base(tenant) \in Nat /\ village \in Nat
           /\ Leaf = LeafOf(tenant, village) /\ Leaf \in Nat
           /\ \A table \in DrawnTables :
                /\ IsFiniteSet(Drawn(table, tenant)) /\ Cardinality(Drawn(table, tenant)) \in Nat
                /\ Next_id(table) = Base(tenant) + 1 + Cardinality(Drawn(table, tenant))
                /\ Next_id(table) \in Nat
<1>1. tenant \in Tenants /\ tenant \in Written /\ refs = recipe.refs
  BY DEF FeedInv, Written
<1>2. Base(tenant) \in Nat
  BY <1>1, BasesAre
<1>3. village \in Nat
  <2>1. villages(SpecOf(tenant)) \in Nat
    BY <1>1, TenantIs
  <2> QED
    BY <2>1 DEF PlaceInv, Counted, VillagesOf
<1>4. Leaf = LeafOf(tenant, village)
  BY <1>1 DEF Leaf, LeafOf, CountsOf, LevelsOf, This, Base, base_of
<1>5. Leaf \in Nat
  BY <1>1, <1>2, <1>3, <1>4, LeavesAre DEF PlaceInv
<1>6. ASSUME NEW table \in DrawnTables
      PROVE  /\ IsFiniteSet(Drawn(table, tenant)) /\ Cardinality(Drawn(table, tenant)) \in Nat
             /\ Next_id(table) = Base(tenant) + 1 + Cardinality(Drawn(table, tenant))
             /\ Next_id(table) \in Nat
  <2>1. Drawn(table, tenant) \in SUBSET Of(table)
    BY DEF Drawn, Of
  <2>2. IsFiniteSet(Drawn(table, tenant))
    BY <2>1, FS_Subset DEF PlaceInv
  <2>3. Cardinality(Drawn(table, tenant)) \in Nat
    BY <2>2, FS_CardinalityType
  <2>4. Next_id(table) = Base(tenant) + 1 + Cardinality(Drawn(table, tenant))
    BY DEF Next_id, Drawn, This, Base, base_of
  <2> QED
    BY <1>2, <2>2, <2>3, <2>4
<1> QED
  BY <1>1, <1>2, <1>3, <1>4, <1>5, <1>6

\* A subject of the village, and perhaps its enrolment.
LEMMA SubjectIs ==
    ASSUME IInv, FeedInv, PlaceInv, NEW at \in Times, NEW later \in Times, NEW enrols \in BOOLEAN,
           Subject(at, enrols, later)
    PROVE  \E i, es :
             /\ Fresh(i, "individual")
             /\ \A e \in es : Fresh(e, "program_enrolment") /\ e.on = i.id /\ i.at <= e.at
             /\ es = {} \/ \E e : es = {e}
             /\ rows' = rows \cup {i} \cup es
             /\ subjects' = subjects \cup {i} /\ enrolments' = enrolments \cup es
<1> DEFINE i == individual(Next_id("individual"), at)
           e == program_enrolment(Next_id("program_enrolment"), i, later)
           es == IF enrols THEN {e} ELSE {}
<1>1. pc = "village" /\ at \in Nat /\ later \in Nat
  BY DatasetAssumption DEF Subject
<1>2. Fresh(i, "individual") /\ i.at \in Nat /\ i.address = LeafOf(tenant, village)
      /\ i.id \in Nat
  <2>1. Next_id("individual") \in Nat
    BY <1>1, Drawing DEF DrawnTables
  <2> QED
    BY <1>1, <2>1, Drawing DEF Fresh, individual, R, RowsIn, DrawnTables
<1>3. Fresh(e, "program_enrolment") /\ e.on = i.id /\ i.at <= e.at
  <2> HIDE DEF i
  <2>1. PICK late \in Nat : late = NotBefore(later, i) /\ i.at <= late
    BY <1>1, <1>2 DEF NotBefore, Larger
  <2>2. Next_id("program_enrolment") \in Nat /\ LeafOf(tenant, village) \in Nat
    BY <1>1, Drawing DEF DrawnTables
  <2>3. Next_id("program_enrolment")
           = Base(tenant) + 1 + Cardinality(Drawn("program_enrolment", tenant))
    BY <1>1, Drawing DEF DrawnTables
  <2> QED
    BY <1>2, <2>1, <2>2, <2>3 DEF Fresh, program_enrolment, R, RowsIn
<1>4. /\ rows' = rows \cup {i} \cup es
      /\ subjects' = subjects \cup {i} /\ enrolments' = enrolments \cup es
  BY DEF Subject
<1>5. es = {} \/ es = {e}
  OBVIOUS
<1>6. \A x \in es : x = e
  OBVIOUS
<1> HIDE DEF i, e, es
<1> QED
  BY <1>2, <1>3, <1>4, <1>5, <1>6

\* An encounter of the village, on one of its subjects or enrolments.
Drawable == {"encounter", "program_encounter"}
LEMMA EncounterIs ==
    ASSUME IInv, FeedInv, PlaceInv, NEW on \in subjects \cup enrolments, NEW at \in Times,
           Encounter(on, at)
    PROVE  \E e : \E table \in Drawable :
             /\ Fresh(e, table) /\ rows' = rows \cup {e}
             /\ on \in IF table = "program_encounter" THEN enrolments ELSE subjects
             /\ e.on = on.id /\ on.at <= e.at
<1>1. pc = "village" /\ at \in Nat
  BY DatasetAssumption DEF Encounter
<1>2. on \in Row /\ on.address = LeafOf(tenant, village)
  BY DEF PlaceInv, Held, AtLeaf, Drawn
<1>3. on.at \in Nat /\ on.id \in Nat
  BY <1>2 DEF Row
<1>4. PICK late \in Nat : late = NotBefore(at, on) /\ on.at <= late
  BY <1>1, <1>3 DEF NotBefore, Larger
<1>5. LeafOf(tenant, village) \in Nat /\ \A table \in DrawnTables :
          /\ Next_id(table) = Base(tenant) + 1 + Cardinality(Drawn(table, tenant))
          /\ Next_id(table) \in Nat
  BY <1>1, Drawing
<1>6. CASE /\ on \in enrolments
           /\ rows' = rows \cup {program_encounter(Next_id("program_encounter"), on, at)}
  <2> DEFINE e == program_encounter(Next_id("program_encounter"), on, at)
  <2>1. Fresh(e, "program_encounter") /\ e.on = on.id /\ on.at <= e.at
    BY <1>2, <1>3, <1>4, <1>5 DEF Fresh, program_encounter, R, RowsIn, DrawnTables
  <2> HIDE DEF e
  <2> QED
    BY <1>6, <2>1 DEF Drawable, e
<1>7. CASE on \in subjects /\ rows' = rows \cup {encounter(Next_id("encounter"), on, at)}
  <2> DEFINE e == encounter(Next_id("encounter"), on, at)
  <2>1. Fresh(e, "encounter") /\ e.on = on.id /\ on.at <= e.at
    BY <1>2, <1>3, <1>4, <1>5 DEF Fresh, encounter, R, RowsIn, DrawnTables
  <2> HIDE DEF e
  <2> QED
    BY <1>7, <2>1 DEF Drawable, e
<1> QED
  BY <1>6, <1>7 DEF Encounter

\* What a tenant is planned as depends on the recipe and its base alone.
LEMMA SameTenant ==
    ASSUME recipe' = recipe, bases' = bases
    PROVE  /\ Tenants' = Tenants /\ Row' = Row
           /\ \A t : /\ SpecOf(t)' = SpecOf(t) /\ LevelsOf(t)' = LevelsOf(t)
                     /\ VillagesOf(t)' = VillagesOf(t) /\ ShareOf(t)' = ShareOf(t)
                     /\ Base(t)' = Base(t) /\ CountsOf(t)' = CountsOf(t)
           /\ \A t, k : LeafOf(t, k)' = LeafOf(t, k)
<1>1. \A t : /\ SpecOf(t)' = SpecOf(t) /\ LevelsOf(t)' = LevelsOf(t) /\ Base(t)' = Base(t)
             /\ VillagesOf(t)' = VillagesOf(t) /\ ShareOf(t)' = ShareOf(t)
             /\ CountsOf(t)' = CountsOf(t)
  BY DEF SpecOf, LevelsOf, Base, VillagesOf, ShareOf, CountsOf
<1>2. \A t, k : LeafOf(t, k)' = LeafOf(t, k)
  BY <1>1 DEF LeafOf
<1>3. Tenants' = Tenants /\ Row' = Row
  BY DEF Tenants, Row
<1> QED
  BY <1>1, <1>2, <1>3

\* A step of Draw adds fresh rows of the village, and little else.
LEMMA DrawAdds ==
    ASSUME IInv, FeedInv, PlaceInv, Draw
    PROVE  \E new :
             /\ IsFiniteSet(new) /\ rows' = rows \cup new
             /\ \A r \in new : \E table \in DrawnTables : Fresh(r, table)
             /\ subjects' \subseteq subjects \cup {r \in new : r.table = "individual"}
             /\ enrolments' \subseteq enrolments \cup {r \in new : r.table = "program_enrolment"}
<1>1. \A r, table : Fresh(r, table) => r.table = table
  BY DEF Fresh, RowsIn
<1>2. ASSUME NEW at \in Times, NEW later \in Times, NEW enrols \in BOOLEAN,
             Subject(at, enrols, later)
      PROVE  \E new :
             /\ IsFiniteSet(new) /\ rows' = rows \cup new
             /\ \A r \in new : \E table \in DrawnTables : Fresh(r, table)
             /\ subjects' \subseteq subjects \cup {r \in new : r.table = "individual"}
             /\ enrolments' \subseteq enrolments \cup {r \in new : r.table = "program_enrolment"}
  <2>1. PICK i, es :
             /\ Fresh(i, "individual") /\ \A e \in es : Fresh(e, "program_enrolment")
             /\ es = {} \/ \E e : es = {e}
             /\ rows' = rows \cup {i} \cup es
             /\ subjects' = subjects \cup {i} /\ enrolments' = enrolments \cup es
    BY <1>2, SubjectIs
  <2> DEFINE new == {i} \cup es
  <2>2. IsFiniteSet(new)
    BY <2>1, FS_EmptySet, FS_Singleton, FS_Union
  <2>3. rows' = rows \cup new /\ \A r \in new : \E table \in DrawnTables : Fresh(r, table)
    BY <2>1 DEF DrawnTables
  <2>4. /\ subjects' \subseteq subjects \cup {r \in new : r.table = "individual"}
        /\ enrolments' \subseteq enrolments \cup {r \in new : r.table = "program_enrolment"}
    BY <1>1, <2>1
  <2> HIDE DEF new
  <2> QED
    BY <2>2, <2>3, <2>4
<1>3. ASSUME NEW on \in subjects \cup enrolments, NEW at \in Times, Encounter(on, at)
      PROVE  \E new :
             /\ IsFiniteSet(new) /\ rows' = rows \cup new
             /\ \A r \in new : \E table \in DrawnTables : Fresh(r, table)
             /\ subjects' \subseteq subjects \cup {r \in new : r.table = "individual"}
             /\ enrolments' \subseteq enrolments \cup {r \in new : r.table = "program_enrolment"}
  <2>1. PICK e : \E table \in Drawable : Fresh(e, table) /\ rows' = rows \cup {e}
    BY <1>3, EncounterIs
  <2> DEFINE new == {e}
  <2>2. IsFiniteSet(new) /\ rows' = rows \cup new
    BY <2>1, FS_Singleton
  <2>3. \A r \in new : \E table \in DrawnTables : Fresh(r, table)
    BY <2>1 DEF DrawnTables, Drawable
  <2>4. subjects' = subjects /\ enrolments' = enrolments
    BY <1>3 DEF Encounter
  <2> HIDE DEF new
  <2> QED
    BY <2>2, <2>3, <2>4
<1> QED
  BY <1>2, <1>3 DEF Draw

\* A draw takes one off what the village lacks, encounters only after subjects.
LEMMA DrawCounts ==
    ASSUME IInv, FeedInv, PlaceInv, Draw
    PROVE  /\ pc = "village"
           /\ UNCHANGED <<recipe, refs, pc, bases, cursor, tenant, village, used, feeder>>
           /\ Counted'
<1>1. /\ pc = "village"
      /\ UNCHANGED <<recipe, refs, pc, bases, cursor, tenant, village, used, feeder>>
  BY DEF Draw, Subject, Encounter
<1>2. tenant \in Tenants
  BY <1>1 DEF FeedInv
<1>3. PICK b \in Nat, s \in Nat : b = Subjects /\ s = Share
  BY <1>2, TenantIs DEF Subjects, Share, This, ShareOf
<1>4. Subjects' = Subjects /\ Share' = Share /\ VillagesOf(tenant)' = VillagesOf(tenant)
  BY <1>1, SameTenant DEF Subjects, Share, This, SpecOf
<1>5. /\ village \in VillagesOf(tenant)
      /\ left \in (0..b) \X (0..s) /\ (left[1] > 0 => left[2] = s)
  BY <1>1, <1>3 DEF PlaceInv, Counted
<1>6. PICK m \in 0..b, n \in 0..s : left = <<m, n>> /\ (m > 0 => n = s)
  BY <1>5
<1>7. \/ m > 0 /\ left' = <<m - 1, n>>
      \/ m = 0 /\ n > 0 /\ left' = <<0, n - 1>>
  <2>1. ASSUME NEW at \in Times, NEW later \in Times, NEW enrols \in BOOLEAN,
               Subject(at, enrols, later)
        PROVE  m > 0 /\ left' = <<m - 1, n>>
    BY <1>6, <2>1 DEF Subject
  <2>2. ASSUME NEW on \in subjects \cup enrolments, NEW at \in Times, Encounter(on, at)
        PROVE  m = 0 /\ n > 0 /\ left' = <<0, n - 1>>
    BY <1>6, <2>2 DEF Encounter
  <2> QED
    BY <2>1, <2>2 DEF Draw
<1>8. left' \in (0..b) \X (0..s) /\ (left'[1] > 0 => left'[2] = s)
  <2>1. CASE m > 0 /\ left' = <<m - 1, n>>
    BY <1>6, <2>1
  <2>2. CASE m = 0 /\ n > 0 /\ left' = <<0, n - 1>>
    BY <1>6, <2>2
  <2> QED
    BY <1>7, <2>1, <2>2
<1>9. Counted'
  BY <1>1, <1>3, <1>4, <1>5, <1>8 DEF Counted
<1> QED
  BY <1>1, <1>9

LEMMA InitPlaceInv == Init => PlaceInv
<1> SUFFICES ASSUME Init PROVE PlaceInv
  OBVIOUS
<1>1. rows = {} /\ Written = {} /\ pc = "ids"
  BY DEF Init, Written
<1>2. \A table \in DrawnTables : Of(table) = {}
  BY <1>1 DEF Of
<1>3. Counted /\ Held
  BY <1>1 DEF Init, Counted, Held
<1> QED
  BY <1>1, <1>2, <1>3, FS_EmptySet DEF PlaceInv

\* A step that writes no row and ends in no village.
LEMMA NoRow ==
    ASSUME PlaceInv, recipe' = recipe, bases' = bases, rows' = rows, Written' = Written,
           pc' \in {"tenant", "done", "refused"}, pc # "ids",
           left' = Idle, subjects' = {}, enrolments' = {}
    PROVE  PlaceInv'
<1>1. Counted' /\ Held'
  BY DEF Counted, Held
<1> QED
  BY <1>1, SameTenant DEF PlaceInv, Of

\* A tenant's structure: rows of its organisation, in tables of their own.
LEMMA StructureRows ==
    ASSUME IInv, FeedInv, PlaceInv, Structure, pc' = "village"
    PROVE  \E new, groups :
             /\ new # {}
             /\ new = build_tenant(SpecOf(tenant), recipe.refs[SpecOf(tenant).org], Base(tenant))
             /\ new \subseteq RowsIn(Tables, SpecOf(tenant).org)
             /\ groups = user_group_rows(SpecOf(tenant).org, {r \in new : r.table = "users"},
                                         Base(tenant))
             /\ groups \subseteq RowsIn({"groups", "user_group"}, SpecOf(tenant).org)
             /\ rows' = rows \cup new \cup groups
<1>1. tenant \in Tenants /\ refs = recipe.refs /\ pc = "tenant"
  BY DEF Structure, FeedInv
<1>2. Base(tenant) \in Nat /\ This = SpecOf(tenant) /\ base_of(This.org) = Base(tenant)
  BY <1>1, BasesAre DEF This, base_of, Base
<1>3. PICK new : new = build_tenant(This, refs[This.org], base_of(This.org))
  OBVIOUS
<1>4. PICK groups : groups = user_group_rows(This.org, {r \in new : r.table = "users"},
                                             base_of(This.org))
  OBVIOUS
<1>5. new # {} /\ rows' = rows \cup new \cup groups
  BY <1>3, <1>4 DEF Structure
<1>6. new \subseteq RowsIn(Tables, This.org)
  BY <1>1, <1>2, <1>3, TenantIs, TenantsRows
<1>7. groups \subseteq RowsIn({"groups", "user_group"}, This.org)
  BY <1>2, <1>4, <1>6, GroupsRows
<1> QED
  BY <1>1, <1>2, <1>3, <1>4, <1>5, <1>6, <1>7

LEMMA RowsInRow ==
    ASSUME IInv, NEW t \in Tenants
    PROVE  /\ RowsIn(Tables, SpecOf(t).org) \subseteq Row
           /\ RowsIn({"groups", "user_group"}, SpecOf(t).org) \subseteq Row
           /\ \A table \in DrawnTables : RowsIn({table}, SpecOf(t).org) \subseteq Row
<1>1. SpecOf(t).org \in {s.org : s \in recipe.specs}
  BY TenantIs
<1> QED
  BY <1>1 DEF RowsIn, Row, Tables, DrawnTables

LEMMA PlaceStructure ==
    ASSUME IInv, FeedInv, PlaceInv, Structure, pc' = "village" PROVE PlaceInv'
<1>0. Len(recipe.tenants) \in Nat
  BY DatasetAssumption DEF IInv
<1>1. /\ pc = "tenant" /\ tenant \in Tenants /\ UNCHANGED <<recipe, refs, bases, tenant>>
      /\ subjects' = {} /\ enrolments' = {} /\ village' = 0 /\ left' = <<Subjects, Share>>
  BY DEF Structure
<1>2. PICK new, groups :
             /\ new # {}
             /\ new = build_tenant(SpecOf(tenant), recipe.refs[SpecOf(tenant).org], Base(tenant))
             /\ new \subseteq RowsIn(Tables, SpecOf(tenant).org)
             /\ groups \subseteq RowsIn({"groups", "user_group"}, SpecOf(tenant).org)
             /\ rows' = rows \cup new \cup groups
  BY StructureRows
<1>3. \A r \in new \cup groups : r.table \notin DrawnTables
  BY <1>2 DEF RowsIn, Tables, DrawnTables
<1>4. rows' \subseteq Row'
  <2>1. new \subseteq Row /\ groups \subseteq Row /\ rows \subseteq Row /\ Row' = Row
    BY <1>1, <1>2, RowsInRow, SameTenant DEF PlaceInv
  <2> QED
    BY <1>2, <2>1
<1>5. Written' = Written \cup {tenant}
  BY <1>0, <1>1 DEF Written, Tenants
<1>6. NothingDrawn
  BY <1>2, <1>3 DEF NothingDrawn, Of
<1>7. (\A r \in rows : r.table \in DrawnTables => \E t \in Written : r.org = SpecOf(t).org)'
  <2> SUFFICES ASSUME NEW r \in rows', r.table \in DrawnTables
               PROVE  \E t \in Written' : r.org = SpecOf(t)'.org
    OBVIOUS
  <2>1. r \in rows
    BY <1>2, <1>3
  <2> QED
    BY <1>1, <1>5, <2>1, SameTenant DEF PlaceInv
<1>8. LevelsOf(tenant) # << >>
  BY <1>2 DEF build_tenant, LevelsOf
<1>9. Counted'
  <2>1. /\ villages(SpecOf(tenant)) \in Nat \ {0} /\ ShareOf(tenant) \in Nat
        /\ SpecOf(tenant).beneficiaries \in Nat
    BY <1>1, TenantIs
  <2>2. 0 \in VillagesOf(tenant)
    BY <2>1 DEF VillagesOf
  <2>3. Subjects' = Subjects /\ Share' = Share
    BY <1>1, SameTenant DEF Subjects, Share, This
  <2>4. PICK b \in Nat, s \in Nat : b = Subjects /\ s = Share
    BY <2>1 DEF Subjects, Share, This, ShareOf
  <2>5. left' \in (0..b) \X (0..s) /\ left'[2] = s
    BY <1>1, <2>4
  <2> QED
    BY <1>1, <2>2, <2>3, <2>4, <2>5, SameTenant DEF Counted
<1>10. Held'
  BY <1>1 DEF Held
<1>11. (\A t \in Written : LevelsOf(t) # << >>)'
  BY <1>1, <1>5, <1>8, SameTenant DEF PlaceInv
<1>12. (pc # "ids" => \A t \in Tenants : SpecOf(t).org \in DOMAIN bases)'
  BY <1>1, SameTenant DEF PlaceInv
<1> QED
  BY <1>4, <1>6, <1>7, <1>9, <1>10, <1>11, <1>12 DEF PlaceInv, NothingDrawn

LEMMA PlaceDraw ==
    ASSUME IInv, FeedInv, PlaceInv, Draw PROVE PlaceInv'
<1>1. /\ pc = "village" /\ UNCHANGED <<recipe, pc, bases, tenant, village>> /\ Counted'
  BY DrawCounts
<1>2. PICK new :
             /\ IsFiniteSet(new) /\ rows' = rows \cup new
             /\ \A r \in new : \E table \in DrawnTables : Fresh(r, table)
             /\ subjects' \subseteq subjects \cup {r \in new : r.table = "individual"}
             /\ enrolments' \subseteq enrolments \cup {r \in new : r.table = "program_enrolment"}
  BY DrawAdds
<1>3. tenant \in Tenants /\ tenant \in Written /\ Written' = Written
  BY <1>1, Drawing DEF Written, Tenants
<1>4. \A r \in new : /\ r \in Row /\ r.org = SpecOf(tenant).org
                     /\ r.address = LeafOf(tenant, village)
  <2> SUFFICES ASSUME NEW r \in new, NEW table \in DrawnTables, Fresh(r, table)
               PROVE  /\ r \in Row /\ r.org = SpecOf(tenant).org
                      /\ r.address = LeafOf(tenant, village)
    BY <1>2
  <2>1. r \in RowsIn({table}, SpecOf(tenant).org) /\ r.address = LeafOf(tenant, village)
    BY DEF Fresh, This
  <2>2. r \in Row
    BY <1>3, <2>1, RowsInRow
  <2> QED
    BY <2>1, <2>2 DEF RowsIn
<1>5. rows' \subseteq Row'
  BY <1>1, <1>2, <1>4, SameTenant DEF PlaceInv
<1>6. ASSUME NEW table \in DrawnTables PROVE IsFiniteSet(Of(table)')
  <2>1. IsFiniteSet(Of(table)) /\ IsFiniteSet(new)
    BY <1>2 DEF PlaceInv
  <2>2. IsFiniteSet(Of(table) \cup new)
    BY <2>1, FS_Union
  <2>3. Of(table)' \in SUBSET (Of(table) \cup new)
    BY <1>2 DEF Of
  <2> QED
    BY <2>2, <2>3, FS_Subset
<1>7. (\A r \in rows : r.table \in DrawnTables => \E t \in Written : r.org = SpecOf(t).org)'
  <2> SUFFICES ASSUME NEW r \in rows', r.table \in DrawnTables
               PROVE  \E t \in Written : r.org = SpecOf(t).org
    BY <1>1, <1>3, SameTenant
  <2>1. CASE r \in rows
    BY <2>1 DEF PlaceInv
  <2>2. CASE r \in new
    BY <1>3, <1>4, <2>2
  <2> QED
    BY <1>2, <2>1, <2>2
<1>8. Held'
  <2>1. LeafOf(tenant, village)' = LeafOf(tenant, village) /\ SpecOf(tenant)' = SpecOf(tenant)
    BY <1>1, SameTenant DEF LeafOf, SpecOf
  <2>2. subjects' \subseteq {r \in rows' : r.table = "individual" /\ r.org = SpecOf(tenant).org
                                           /\ r.address = LeafOf(tenant, village)}
    BY <1>2, <1>4 DEF PlaceInv, Held, AtLeaf, Drawn
  <2>3. enrolments' \subseteq {r \in rows' : /\ r.table = "program_enrolment"
                                             /\ r.org = SpecOf(tenant).org
                                             /\ r.address = LeafOf(tenant, village)}
    BY <1>2, <1>4 DEF PlaceInv, Held, AtLeaf, Drawn
  <2> QED
    BY <1>1, <2>1, <2>2, <2>3 DEF Held, AtLeaf, Drawn
<1>9. (\A t \in Written : LevelsOf(t) # << >>)'
  BY <1>1, <1>3, SameTenant DEF PlaceInv
<1>10. (pc # "ids" => \A t \in Tenants : SpecOf(t).org \in DOMAIN bases)'
  BY <1>1, SameTenant DEF PlaceInv
<1>11. pc' \in {"ids", "tenant", "village", "done", "refused"}
  BY <1>1 DEF PlaceInv
<1> QED
  BY <1>1, <1>5, <1>6, <1>7, <1>8, <1>9, <1>10, <1>11 DEF PlaceInv

LEMMA PlaceStep == IInv /\ FeedInv /\ PlaceInv /\ [Next]_vars => PlaceInv'
<1> SUFFICES ASSUME IInv, FeedInv, PlaceInv, [Next]_vars PROVE PlaceInv'
  OBVIOUS
<1>0. Len(recipe.tenants) \in Nat
  BY DatasetAssumption DEF IInv
<1>1. CASE plan_ids
  <2>1. rows' = {} /\ Written' = {} /\ pc' = "ids" /\ left' = left /\ subjects' = subjects
        /\ enrolments' = enrolments /\ pc = "ids"
    BY <1>1 DEF plan_ids, FeedInv, Written
  <2>2. Counted' /\ Held'
    BY <2>1 DEF PlaceInv, Counted, Held
  <2>3. \A table \in DrawnTables : Of(table)' = {}
    BY <2>1 DEF Of
  <2> QED
    BY <2>1, <2>2, <2>3, FS_EmptySet DEF PlaceInv
<1>2. CASE Planned
  <2>1. rows' = {} /\ Written' = {} /\ pc' \in {"tenant", "refused"} /\ left' = left
        /\ subjects' = subjects /\ enrolments' = enrolments /\ pc = "ids" /\ recipe' = recipe
        /\ bases' = bases
    BY <1>0, <1>2 DEF Planned, FeedInv, Written, Tenants
  <2>2. Counted' /\ Held'
    BY <2>1 DEF PlaceInv, Counted, Held
  <2>3. \A t \in Tenants : SpecOf(t).org \in DOMAIN bases
    <3>1. tenant \in 1..(Len(recipe.tenants) + 1) /\ tenant \notin Tenants
          /\ DOMAIN bases = OrgsOf(tenant - 1)
      BY <1>2 DEF Planned, IInv, Walked
    <3>2. tenant - 1 = Len(recipe.tenants)
      BY <1>0, <3>1 DEF Tenants
    <3> QED
      BY <3>1, <3>2 DEF OrgsOf, Tenants
  <2>4. \A table \in DrawnTables : Of(table)' = {}
    BY <2>1 DEF Of
  <2> QED
    BY <2>1, <2>2, <2>3, <2>4, FS_EmptySet, SameTenant DEF PlaceInv
<1>3. CASE Structure
  <2>1. pc = "tenant" /\ UNCHANGED <<recipe, bases, tenant>> /\ subjects' = {} /\ enrolments' = {}
    BY <1>3 DEF Structure
  <2>2. CASE pc' = "village"
    BY <1>3, <2>2, PlaceStructure
  <2>3. CASE pc' # "village"
    <3>1. pc' = "refused" /\ rows' = rows /\ left' = left
      BY <1>3, <2>3 DEF Structure
    <3>2. Written' = Written
      BY <2>1, <3>1 DEF Written, Tenants
    <3>3. left' = Idle
      BY <2>1, <3>1 DEF PlaceInv, Held, Idle
    <3> QED
      BY <2>1, <3>1, <3>2, <3>3, NoRow
  <2> QED
    BY <2>2, <2>3
<1>4. CASE Draw
  BY <1>4, PlaceDraw
<1>5. CASE VillageDone
  <2>1. /\ pc = "village" /\ tenant \in Tenants /\ UNCHANGED <<recipe, bases, rows>>
        /\ subjects' = {} /\ enrolments' = {}
    BY <1>5 DEF VillageDone, FeedInv, Emptied
  <2>2. CASE /\ village + 1 < villages(This) /\ village' = village + 1
             /\ left' = <<Subjects, Share>> /\ UNCHANGED <<pc, tenant>>
    <3>1. /\ villages(SpecOf(tenant)) \in Nat \ {0} /\ ShareOf(tenant) \in Nat
        /\ SpecOf(tenant).beneficiaries \in Nat
      BY <2>1, TenantIs
    <3>2. village + 1 \in VillagesOf(tenant)
      BY <2>1, <2>2, <3>1 DEF VillagesOf, PlaceInv, Counted, This
    <3>3. Subjects' = Subjects /\ Share' = Share
      BY <2>1, <2>2, SameTenant DEF Subjects, Share, This
    <3>4. PICK b \in Nat, s \in Nat : b = Subjects /\ s = Share
      BY <3>1 DEF Subjects, Share, This, ShareOf
    <3>5. left' \in (0..b) \X (0..s) /\ left'[2] = s
      BY <2>2, <3>4
    <3>6. Counted'
      BY <2>1, <2>2, <3>2, <3>3, <3>4, <3>5, SameTenant DEF Counted
    <3>7. Held' /\ Written' = Written
      BY <2>1, <2>2 DEF Held, Written, Tenants
    <3> QED
      BY <2>1, <2>2, <3>6, <3>7, SameTenant DEF PlaceInv, Of
  <2>3. CASE left' = Idle /\ tenant' = tenant + 1 /\ pc' = "tenant"
    <3>1. Written' = Written
      BY <1>0, <2>1, <2>3 DEF Written, Tenants
    <3> QED
      BY <2>1, <2>3, <3>1, NoRow
  <2> QED
    BY <1>5, <2>2, <2>3 DEF VillageDone
<1>6. CASE feeder_csv
  <2>1. /\ UNCHANGED <<recipe, bases, rows, tenant, left, subjects, enrolments>>
        /\ pc \in {"tenant", "done"} /\ pc' \in {"refused", "done"}
    BY <1>6 DEF feeder_csv
  <2>2. Written' = Written /\ left = Idle /\ subjects = {} /\ enrolments = {}
    BY <2>1 DEF Written, Tenants, PlaceInv, Held
  <2> QED
    BY <2>1, <2>2, NoRow DEF Idle
<1>7. CASE \E ref \in Reimports, org \in DOMAIN refs : Reimport(org, ref)
  <2>1. /\ UNCHANGED <<recipe, bases, rows, tenant, left, subjects, enrolments>>
        /\ pc = "done" /\ pc' = pc
    BY <1>7 DEF Reimport
  <2>2. Written' = Written /\ left = Idle /\ subjects = {} /\ enrolments = {}
    BY <2>1 DEF Written, Tenants, PlaceInv, Held
  <2> QED
    BY <2>1, <2>2, NoRow DEF Idle
<1>8. CASE UNCHANGED vars
  <2>1. UNCHANGED <<recipe, bases, rows, tenant, village, pc, left, subjects, enrolments>>
    BY <1>8 DEF vars
  <2>2. Written' = Written /\ LeafOf(tenant, village)' = LeafOf(tenant, village)
        /\ Subjects' = Subjects /\ Share' = Share
    BY <2>1, SameTenant DEF Written, Tenants, LeafOf, Subjects, Share, This, SpecOf,
                              CountsOf, Base, LevelsOf
  <2>3. Counted' /\ Held'
    BY <2>1, <2>2, SameTenant DEF PlaceInv, Counted, Held, AtLeaf, Drawn, SpecOf, VillagesOf, Idle
  <2> QED
    BY <2>1, <2>2, <2>3, SameTenant DEF PlaceInv, Of
<1> QED
  BY <1>1, <1>2, <1>3, <1>4, <1>5, <1>6, <1>7, <1>8 DEF Next

\* generate.py keeps its types whatever the recipe: every row is a row of one of the
\* recipe's organisations, and what a village draws from are rows written at its own place.
THEOREM TypesAreKept == Spec => []TypeOK
<1>1. IInv /\ FeedInv /\ PlaceInv => TypeOK
  <2> SUFFICES ASSUME IInv, FeedInv, PlaceInv PROVE TypeOK
    OBVIOUS
  <2>1. cursor \in Nat /\ \A o \in DOMAIN bases : bases[o] \in Nat
    BY DEF IInv
  <2>2. subjects \cup enrolments \subseteq
          {r \in rows : /\ tenant \in Tenants /\ r.org = This.org /\ r.address = Leaf
                        /\ r.table \in {"individual", "program_enrolment"}}
    <3>1. CASE pc # "village"
      BY <3>1 DEF PlaceInv, Held
    <3>2. CASE pc = "village"
      <4>1. tenant \in Tenants /\ Leaf = LeafOf(tenant, village)
        BY <3>2, Drawing
      <4> QED
        BY <4>1 DEF PlaceInv, Held, AtLeaf, Drawn, This
    <3> QED
      BY <3>1, <3>2
  <2>3. IF pc = "village" THEN left \in (0..Subjects) \X (0..Share) ELSE left = Idle
    BY DEF PlaceInv, Counted, Held
  <2> QED
    BY <2>1, <2>2, <2>3 DEF TypeOK, PlaceInv
<1>2. Init => IInv /\ FeedInv /\ PlaceInv
  BY InitIInv, InitFeedInv, InitPlaceInv
<1>3. IInv /\ FeedInv /\ PlaceInv /\ [Next]_vars => (IInv /\ FeedInv /\ PlaceInv)'
  BY NextIInv, FeedStep, PlaceStep
<1> QED
  BY <1>1, <1>2, <1>3, PTL DEF Spec
-----------------------------------------------------------------------------
(* The share of every village.                                              *)

\* The ids of a drawn table count up from the tenant's base.
IdInv ==
    \A t \in Tenants, table \in DrawnTables :
        /\ \A r \in Drawn(table, t) :
             r.id \in (Base(t) + 1)..(Base(t) + Cardinality(Drawn(table, t)))
        /\ \A q, r \in Drawn(table, t) : q.id = r.id => q = r

\* Every child is at its parent's place, and no younger.
ParentTable(table) == IF table = "program_encounter" THEN "program_enrolment" ELSE "individual"
Children == Of("program_enrolment") \cup Of("encounter") \cup Of("program_encounter")
HasParent(r) == \E p \in Of(ParentTable(r.table)) :
                    p.org = r.org /\ p.id = r.on /\ p.address = r.address /\ p.at <= r.at
ParentInv == \A r \in Children : HasParent(r)

\* A village that is past holds its share, the one that is now holds what it does
\* not lack, and one to come holds nothing.
Past(t, k) == t < tenant \/ (t = tenant /\ pc = "village" /\ k < village)
Now(t, k) == t = tenant /\ pc = "village" /\ k = village
Subj(t, k) == AtLeaf("individual", t, k)
Enc(t, k) == AtLeaf("encounter", t, k) \cup AtLeaf("program_encounter", t, k)
Village(t, k) ==
    LET n == SpecOf(t).beneficiaries
    IN /\ Past(t, k) => /\ Cardinality(Subj(t, k)) = n
                        /\ n > 0 => Cardinality(Enc(t, k)) = ShareOf(t)
       /\ Now(t, k) => /\ Cardinality(Subj(t, k)) = n - left[1] /\ subjects = Subj(t, k)
                       /\ Cardinality(Enc(t, k)) = ShareOf(t) - left[2]
       /\ ~Past(t, k) /\ ~Now(t, k) => Subj(t, k) = {} /\ Enc(t, k) = {}
SubjectsAreAt(t) ==
    \A r \in Drawn("individual", t) : \E k \in VillagesOf(t) : r.address = LeafOf(t, k)
ShareInv ==
    \A t \in Written :
        SubjectsAreAt(t) /\ \A k \in VillagesOf(t) : Village(t, k)

RowInv == IInv /\ FeedInv /\ PlaceInv

\* A fresh row is none of those there are.
LEMMA FreshIsNew ==
    ASSUME RowInv, IdInv, pc = "village", NEW table \in DrawnTables, NEW r, Fresh(r, table)
    PROVE  r \notin rows /\ r.table = table /\ r.org = SpecOf(tenant).org
<1>1. tenant \in Tenants /\ Base(tenant) \in Nat /\ Cardinality(Drawn(table, tenant)) \in Nat
  BY Drawing DEF RowInv
<1>2. r.table = table /\ r.org = SpecOf(tenant).org
  BY DEF Fresh, RowsIn, This
<1>3. r.id = Base(tenant) + 1 + Cardinality(Drawn(table, tenant))
  BY DEF Fresh
<1>4. r \notin Drawn(table, tenant)
  <2> SUFFICES ASSUME r \in Drawn(table, tenant) PROVE FALSE
    OBVIOUS
  <2>1. r.id \in (Base(tenant) + 1)..(Base(tenant) + Cardinality(Drawn(table, tenant)))
    BY <1>1 DEF IdInv
  <2> QED
    BY <1>1, <1>3, <2>1
<1> QED
  BY <1>2, <1>4 DEF Drawn

\* What a draw adds to a tenant's tables, and where.
New(new, table) == {r \in new : r.table = table}
LEMMA AddsTo ==
    ASSUME RowInv, pc = "village", UNCHANGED <<recipe, bases>>, NEW new, rows' = rows \cup new,
           \A r \in new : \E table \in DrawnTables : Fresh(r, table),
           NEW table \in DrawnTables, NEW t \in Written
    PROVE  /\ t # tenant => Drawn(table, t)' = Drawn(table, t)
           /\ t = tenant => Drawn(table, t)' = Drawn(table, t) \cup New(new, table)
           /\ \A k \in VillagesOf(t) :
                /\ t # tenant \/ k # village => AtLeaf(table, t, k)' = AtLeaf(table, t, k)
                /\ t = tenant /\ k = village =>
                     AtLeaf(table, t, k)' = AtLeaf(table, t, k) \cup New(new, table)
<1>1. \A r \in new : r.org = SpecOf(tenant).org /\ r.address = LeafOf(tenant, village)
  BY DEF Fresh, RowsIn, This
<1>2. /\ tenant \in Tenants /\ t \in Tenants /\ village \in Nat /\ Base(t) \in Nat
      /\ LevelsOf(t) # << >>
  <2>1. t \in Tenants /\ LevelsOf(t) # << >> /\ pc # "ids"
    BY DEF Written, RowInv, PlaceInv
  <2> QED
    BY <2>1, Drawing, BasesAre DEF RowInv
<1>3. /\ SpecOf(t)' = SpecOf(t)
      /\ \A k : LeafOf(t, k)' = LeafOf(t, k)
  BY SameTenant
<1>4. ASSUME t # tenant
      PROVE  /\ Drawn(table, t)' = Drawn(table, t)
             /\ \A k : AtLeaf(table, t, k)' = AtLeaf(table, t, k)
  <2>1. SpecOf(t).org # SpecOf(tenant).org
    BY <1>2, <1>4, BasesAre DEF RowInv
  <2>2. Drawn(table, t)' = Drawn(table, t)
    BY <1>1, <1>3, <2>1 DEF Drawn
  <2> QED
    BY <1>3, <2>2 DEF AtLeaf
<1>5. ASSUME t = tenant
      PROVE  /\ Drawn(table, t)' = Drawn(table, t) \cup New(new, table)
             /\ \A k \in VillagesOf(t) :
                  /\ k # village => AtLeaf(table, t, k)' = AtLeaf(table, t, k)
                  /\ k = village =>
                       AtLeaf(table, t, k)' = AtLeaf(table, t, k) \cup New(new, table)
  <2>1. Drawn(table, t)' = Drawn(table, t) \cup New(new, table)
    BY <1>1, <1>3, <1>5 DEF Drawn, New
  <2>2. ASSUME NEW k \in VillagesOf(t), k # village
        PROVE  AtLeaf(table, t, k)' = AtLeaf(table, t, k)
    <3>1. villages(SpecOf(t)) \in Nat
      BY <1>2, TenantIs DEF RowInv
    <3>2. k \in Nat
      BY <3>1 DEF VillagesOf
    <3>3. LeafOf(t, k) # LeafOf(tenant, village)
      BY <1>2, <1>5, <2>2, <3>2, LeavesAre DEF RowInv
    <3>4. \A r \in New(new, table) : r.address # LeafOf(t, k)
      BY <1>1, <3>3 DEF New
    <3> QED
      BY <1>3, <2>1, <3>4 DEF AtLeaf
  <2>3. ASSUME NEW k \in VillagesOf(t), k = village
        PROVE  AtLeaf(table, t, k)' = AtLeaf(table, t, k) \cup New(new, table)
    <3>1. \A r \in New(new, table) : r.address = LeafOf(t, k)
      BY <1>1, <1>5, <2>3 DEF New
    <3> QED
      BY <1>3, <2>1, <3>1 DEF AtLeaf
  <2> QED
    BY <2>1, <2>2, <2>3
<1> QED
  BY <1>4, <1>5

\* The rows of a tenant's tables are finitely many.
LEMMA DrawnAreFinite ==
    ASSUME PlaceInv, NEW table \in DrawnTables, NEW t
    PROVE  /\ IsFiniteSet(Drawn(table, t)) /\ Cardinality(Drawn(table, t)) \in Nat
           /\ \A k : IsFiniteSet(AtLeaf(table, t, k)) /\ Cardinality(AtLeaf(table, t, k)) \in Nat
<1>1. IsFiniteSet(Of(table))
  BY DEF PlaceInv
<1>2. Drawn(table, t) \in SUBSET Of(table)
  BY DEF Drawn, Of
<1>3. IsFiniteSet(Drawn(table, t))
  BY <1>1, <1>2, FS_Subset
<1>4. \A k : AtLeaf(table, t, k) \in SUBSET Drawn(table, t)
  BY DEF AtLeaf
<1>5. \A k : IsFiniteSet(AtLeaf(table, t, k))
  BY <1>3, <1>4, FS_Subset
<1> QED
  BY <1>3, <1>5, FS_CardinalityType

\* A draw: at most one row a table, each on a parent that is there, and either a
\* subject or an encounter, one fewer of which the village lacks then.
SubjectDrawn(new) ==
    /\ left[1] > 0 /\ left' = <<left[1] - 1, left[2]>>
    /\ \E i : New(new, "individual") = {i} /\ subjects' = subjects \cup {i}
    /\ New(new, "encounter") = {} /\ New(new, "program_encounter") = {}
EncounterDrawn(new) ==
    /\ left[1] = 0 /\ left[2] > 0 /\ left' = <<0, left[2] - 1>> /\ subjects' = subjects
    /\ New(new, "individual") = {} /\ New(new, "program_enrolment") = {}
    /\ \E e : New(new, "encounter") \cup New(new, "program_encounter") = {e}
DrawnAs(new) ==
    /\ rows' = rows \cup new
    /\ \A r \in new : \E table \in DrawnTables : Fresh(r, table)
    /\ \A table \in DrawnTables :
         New(new, table) = {} \/ \E r : New(new, table) = {r} /\ Fresh(r, table)
    /\ \A r \in new : r.table # "individual" =>
         \E p \in rows' : /\ p.table = ParentTable(r.table) /\ p.org = r.org /\ p.id = r.on
                          /\ p.address = r.address /\ p.at <= r.at
    /\ SubjectDrawn(new) \/ EncounterDrawn(new)
LEMMA DrawIs ==
    ASSUME RowInv, Draw
    PROVE  \E new : DrawnAs(new)
<1>1. \A r, table : Fresh(r, table) => /\ r.table = table /\ r.org = This.org
                                       /\ r.address = LeafOf(tenant, village)
  BY DEF Fresh, RowsIn
<1>2. ASSUME NEW at \in Times, NEW later \in Times, NEW enrols \in BOOLEAN,
             Subject(at, enrols, later)
      PROVE  \E new : DrawnAs(new)
  <2>1. PICK i, es :
             /\ Fresh(i, "individual")
             /\ \A e \in es : Fresh(e, "program_enrolment") /\ e.on = i.id /\ i.at <= e.at
             /\ es = {} \/ \E e : es = {e}
             /\ rows' = rows \cup {i} \cup es
             /\ subjects' = subjects \cup {i} /\ enrolments' = enrolments \cup es
    BY <1>2, SubjectIs DEF RowInv
  <2> DEFINE new == {i} \cup es
  <2>2. rows' = rows \cup new /\ \A r \in new : \E table \in DrawnTables : Fresh(r, table)
    BY <2>1 DEF DrawnTables
  <2>3. i.table = "individual" /\ \A e \in es : e.table = "program_enrolment"
    BY <1>1, <2>1
  <2>4. /\ New(new, "individual") = {i} /\ New(new, "program_enrolment") = es
        /\ New(new, "encounter") = {} /\ New(new, "program_encounter") = {}
    BY <2>3 DEF New
  <2>5. \A table \in DrawnTables :
          New(new, table) = {} \/ \E r : New(new, table) = {r} /\ Fresh(r, table)
    <3> HIDE DEF new
    <3>1. es = {} \/ \E e : es = {e} /\ Fresh(e, "program_enrolment")
      BY <2>1
    <3> QED
      BY <2>1, <2>4, <3>1 DEF DrawnTables
  <2>6. ASSUME NEW r \in new, r.table # "individual"
        PROVE  \E p \in rows' : /\ p.table = ParentTable(r.table) /\ p.org = r.org /\ p.id = r.on
                                /\ p.address = r.address /\ p.at <= r.at
    <3>1. r \in es /\ r.table = "program_enrolment"
      BY <2>3, <2>6
    <3>2. i \in rows' /\ i.table = ParentTable(r.table) /\ i.org = r.org /\ i.address = r.address
          /\ i.id = r.on /\ i.at <= r.at
      BY <1>1, <2>1, <3>1 DEF ParentTable
    <3> QED
      BY <3>2
  <2>7. SubjectDrawn(new)
    <3> HIDE DEF new
    <3>1. left[1] > 0 /\ left' = <<left[1] - 1, left[2]>>
      BY <1>2 DEF Subject
    <3> QED
      BY <2>1, <2>4, <3>1 DEF SubjectDrawn
  <2>8. DrawnAs(new)
    <3> HIDE DEF new
    <3> QED
      BY <2>2, <2>5, <2>6, <2>7 DEF DrawnAs
  <2> HIDE DEF new
  <2> QED
    BY <2>8
<1>3. ASSUME NEW on \in subjects \cup enrolments, NEW at \in Times, Encounter(on, at)
      PROVE  \E new : DrawnAs(new)
  <2>1. PICK e : \E table \in Drawable :
             /\ Fresh(e, table) /\ rows' = rows \cup {e}
             /\ on \in IF table = "program_encounter" THEN enrolments ELSE subjects
             /\ e.on = on.id /\ on.at <= e.at
    BY <1>3, EncounterIs DEF RowInv
  <2>2. PICK table \in Drawable :
             /\ Fresh(e, table) /\ rows' = rows \cup {e}
             /\ on \in IF table = "program_encounter" THEN enrolments ELSE subjects
             /\ e.on = on.id /\ on.at <= e.at
    BY <2>1
  <2> DEFINE new == {e}
  <2>3. e.table = table /\ e.org = This.org /\ e.address = LeafOf(tenant, village)
    BY <1>1, <2>2
  <2>4. rows' = rows \cup new /\ \A r \in new : \E tab \in DrawnTables : Fresh(r, tab)
    BY <2>2 DEF DrawnTables, Drawable
  <2>5. \A tab \in DrawnTables : New(new, tab) = IF tab = table THEN {e} ELSE {}
    BY <2>3 DEF New
  <2>6. \A tab \in DrawnTables : New(new, tab) = {} \/ \E r : New(new, tab) = {r} /\ Fresh(r, tab)
    <3> HIDE DEF new
    <3> QED
      BY <2>2, <2>5
  <2>7. on \in rows /\ on.org = This.org /\ on.address = LeafOf(tenant, village)
        /\ on.table = ParentTable(table)
    <3>1. CASE table = "program_encounter"
      BY <2>2, <3>1 DEF RowInv, PlaceInv, Held, AtLeaf, Drawn, This, ParentTable
    <3>2. CASE table # "program_encounter"
      BY <2>2, <3>2 DEF RowInv, PlaceInv, Held, AtLeaf, Drawn, This, ParentTable
    <3> QED
      BY <3>1, <3>2
  <2>8. \A r \in new : r.table # "individual" =>
         \E p \in rows' : /\ p.table = ParentTable(r.table) /\ p.org = r.org /\ p.id = r.on
                          /\ p.address = r.address /\ p.at <= r.at
    BY <2>2, <2>3, <2>7
  <2>9. EncounterDrawn(new)
    <3>1. left[1] = 0 /\ left[2] > 0 /\ left' = <<0, left[2] - 1>> /\ subjects' = subjects
      BY <1>3 DEF Encounter
    <3>2. New(new, "individual") = {} /\ New(new, "program_enrolment") = {}
      BY <2>5 DEF Drawable, DrawnTables
    <3>3. New(new, "encounter") \cup New(new, "program_encounter") = {e}
      BY <2>5 DEF Drawable, DrawnTables
    <3> HIDE DEF new
    <3> QED
      BY <3>1, <3>2, <3>3 DEF EncounterDrawn
  <2>10. DrawnAs(new)
    <3> HIDE DEF new
    <3> QED
      BY <2>4, <2>6, <2>8, <2>9 DEF DrawnAs
  <2> HIDE DEF new
  <2> QED
    BY <2>10
<1> QED
  BY <1>2, <1>3 DEF Draw

\* A step that leaves the drawn rows leaves each tenant's and each village's.
LEMMA DrawnStay ==
    ASSUME UNCHANGED <<recipe, bases>>, NothingDrawn
    PROVE  \A t : \A table \in DrawnTables :
               /\ Drawn(table, t)' = Drawn(table, t)
               /\ \A k : AtLeaf(table, t, k)' = AtLeaf(table, t, k)
<1> SUFFICES ASSUME NEW t, NEW table \in DrawnTables
             PROVE  /\ Drawn(table, t)' = Drawn(table, t)
                    /\ \A k : AtLeaf(table, t, k)' = AtLeaf(table, t, k)
  OBVIOUS
<1>1. Drawn(table, t)' = Drawn(table, t)
  BY SameTenant DEF NothingDrawn, Of, Drawn
<1> QED
  BY <1>1, SameTenant DEF AtLeaf

\* Every step either draws, or writes none of the drawn tables, or still plans.
LEMMA WhatIsDrawn ==
    ASSUME RowInv, [Next]_vars
    PROVE  \/ Draw
           \/ pc = "ids" /\ rows' = {} /\ Written' = {}
           \/ pc # "ids" /\ UNCHANGED <<recipe, bases>> /\ NothingDrawn
<1>0. Len(recipe.tenants) \in Nat
  BY DatasetAssumption DEF RowInv, IInv
<1>1. CASE plan_ids
  BY <1>1 DEF plan_ids, RowInv, FeedInv, Written
<1>2. CASE Planned
  BY <1>0, <1>2 DEF Planned, RowInv, FeedInv, Written, Tenants
<1>3. CASE Structure
  <2>1. pc # "ids" /\ UNCHANGED <<recipe, bases>>
    BY <1>3 DEF Structure
  <2>2. CASE pc' = "village"
    <3>1. PICK new, groups :
             /\ new \subseteq RowsIn(Tables, SpecOf(tenant).org)
             /\ groups \subseteq RowsIn({"groups", "user_group"}, SpecOf(tenant).org)
             /\ rows' = rows \cup new \cup groups
      BY <1>3, <2>2, StructureRows DEF RowInv
    <3>2. \A r \in new \cup groups : r.table \notin DrawnTables
      BY <3>1 DEF RowsIn, Tables, DrawnTables
    <3> QED
      BY <2>1, <3>1, <3>2 DEF NothingDrawn, Of
  <2>3. CASE pc' # "village"
    BY <1>3, <2>1, <2>3 DEF Structure, NothingDrawn, Of
  <2> QED
    BY <2>2, <2>3
<1>4. CASE VillageDone
  BY <1>4 DEF VillageDone, NothingDrawn, Of
<1>5. CASE feeder_csv
  BY <1>5 DEF feeder_csv, NothingDrawn, Of
<1>6. CASE \E ref \in Reimports, org \in DOMAIN refs : Reimport(org, ref)
  BY <1>6 DEF Reimport, NothingDrawn, Of
<1>7. CASE UNCHANGED vars
  <2>1. pc = "ids" => rows' = {} /\ Written' = {}
    BY <1>7 DEF vars, RowInv, FeedInv, Written
  <2> QED
    BY <1>7, <2>1 DEF vars, NothingDrawn, Of
<1> QED
  BY <1>1, <1>2, <1>3, <1>4, <1>5, <1>6, <1>7 DEF Next

LEMMA IdStep == RowInv /\ IdInv /\ [Next]_vars => IdInv'
<1> SUFFICES ASSUME RowInv, IdInv, [Next]_vars PROVE IdInv'
  OBVIOUS
<1>1. CASE pc = "ids" /\ rows' = {}
  BY <1>1 DEF IdInv, Drawn
<1>2. CASE UNCHANGED <<recipe, bases>> /\ NothingDrawn
  BY <1>2, DrawnStay, SameTenant DEF IdInv
<1>3. CASE Draw
  <2>1. PICK new : DrawnAs(new)
    BY <1>3, DrawIs
  <2>2. pc = "village" /\ UNCHANGED <<recipe, bases>>
    BY <1>3, DrawCounts DEF RowInv
  <2>3. tenant \in Tenants /\ tenant \in Written /\ Base(tenant) \in Nat
    BY <2>2, Drawing DEF RowInv
  <2> SUFFICES ASSUME NEW t \in Tenants, NEW table \in DrawnTables
               PROVE  /\ \A r \in Drawn(table, t)' :
                           r.id \in (Base(t) + 1)..(Base(t) + Cardinality(Drawn(table, t)'))
                      /\ \A q, r \in Drawn(table, t)' : q.id = r.id => q = r
    BY <2>2, SameTenant DEF IdInv
  <2>4. CASE Drawn(table, t)' = Drawn(table, t)
    BY <2>4 DEF IdInv
  <2>5. CASE Drawn(table, t)' # Drawn(table, t)
    <3>1. t = tenant
      <4> SUFFICES ASSUME t # tenant PROVE FALSE
        OBVIOUS
      <4>1. SpecOf(t).org # SpecOf(tenant).org
        BY <2>2, <2>3, BasesAre DEF RowInv
      <4>2. \A r \in new : r.org = SpecOf(tenant).org
        BY <2>1 DEF DrawnAs, Fresh, RowsIn, This
      <4> QED
        BY <2>1, <2>2, <2>5, <4>1, <4>2, SameTenant DEF DrawnAs, Drawn
    <3>2. Drawn(table, t)' = Drawn(table, t) \cup New(new, table)
      BY <2>1, <2>2, <2>3, <3>1, AddsTo DEF DrawnAs
    <3>3. PICK r : New(new, table) = {r} /\ Fresh(r, table)
      BY <2>1, <2>5, <3>2 DEF DrawnAs
    <3>4. PICK n \in Nat : n = Cardinality(Drawn(table, t)) /\ IsFiniteSet(Drawn(table, t))
      BY DrawnAreFinite DEF RowInv
    <3>5. r \notin Drawn(table, t)
      BY <2>2, <3>3, FreshIsNew DEF Drawn
    <3>6. Drawn(table, t)' = Drawn(table, t) \cup {r} /\ Cardinality(Drawn(table, t)') = n + 1
      <4>1. Drawn(table, t)' = Drawn(table, t) \cup {r}
        BY <3>2, <3>3
      <4>2. Cardinality(Drawn(table, t) \cup {r}) = n + 1
        BY <3>4, <3>5, FS_AddElement
      <4> QED
        BY <4>1, <4>2
    <3>7. PICK b \in Nat : b = Base(t)
      BY <2>3, <3>1
    <3>8. r.id = b + 1 + n
      BY <3>1, <3>3, <3>4, <3>7 DEF Fresh
    <3>9. \A q \in Drawn(table, t) : q.id \in (b + 1)..(b + n)
      BY <3>4, <3>7 DEF IdInv
    <3>10. \A q \in Drawn(table, t) \cup {r} : q.id \in (b + 1)..(b + (n + 1))
      BY <3>8, <3>9
    <3>11. \A p, q \in Drawn(table, t) \cup {r} : p.id = q.id => p = q
      <4>1. \A q \in Drawn(table, t) : q.id # r.id
        BY <3>8, <3>9
      <4>2. \A p, q \in Drawn(table, t) : p.id = q.id => p = q
        BY DEF IdInv
      <4> QED
        BY <4>1, <4>2
    <3> QED
      BY <3>6, <3>7, <3>10, <3>11
  <2> QED
    BY <2>4, <2>5
<1> QED
  BY <1>1, <1>2, <1>3, WhatIsDrawn

LEMMA ParentStep == RowInv /\ ParentInv /\ [Next]_vars => ParentInv'
<1> SUFFICES ASSUME RowInv, ParentInv, [Next]_vars PROVE ParentInv'
  OBVIOUS
<1>1. CASE rows' = {}
  BY <1>1 DEF ParentInv, Children, Of
<1>2. CASE NothingDrawn
  <2>1. /\ Children' = Children
        /\ \A table \in DrawnTables : Of(table)' = Of(table)
    BY <1>2 DEF NothingDrawn, Children, DrawnTables
  <2>2. \A r : ParentTable(r.table) \in DrawnTables
    BY DEF ParentTable, DrawnTables
  <2>3. \A r : HasParent(r)' = HasParent(r)
    BY <2>1, <2>2 DEF HasParent
  <2> QED
    BY <2>1, <2>3 DEF ParentInv
<1>3. CASE Draw
  <2>1. PICK new : DrawnAs(new)
    BY <1>3, DrawIs
  <2>2. rows' = rows \cup new
    BY <2>1 DEF DrawnAs
  <2> SUFFICES ASSUME NEW r \in Children' PROVE HasParent(r)'
    BY DEF ParentInv
  <2>3. r \in rows' /\ r.table # "individual"
    BY DEF Children, Of
  <2>4. CASE r \in rows
    <3>1. HasParent(r)
      BY <2>4 DEF ParentInv, Children, Of
    <3> QED
      BY <2>2, <3>1 DEF HasParent, Of
  <2>5. CASE r \in new
    BY <2>1, <2>3, <2>5 DEF DrawnAs, HasParent, Of
  <2> QED
    BY <2>2, <2>3, <2>4, <2>5
<1> QED
  BY <1>1, <1>2, <1>3, WhatIsDrawn

LEMMA InitShareInv == Init => IdInv /\ ParentInv /\ ShareInv
<1> SUFFICES ASSUME Init PROVE IdInv /\ ParentInv /\ ShareInv
  OBVIOUS
<1>1. rows = {} /\ Written = {}
  BY DEF Init, Written
<1> QED
  BY <1>1 DEF IdInv, ParentInv, ShareInv, Drawn, Children, Of

\* Where a step leaves the drawn rows as they are, so do the villages of a tenant
\* that is behind.
LEMMA BehindStays ==
    ASSUME RowInv, ShareInv, UNCHANGED <<recipe, bases>>, NothingDrawn,
           NEW t \in Written, t < tenant, t < tenant'
    PROVE  \A k \in VillagesOf(t) : Village(t, k)'
<1> SUFFICES ASSUME NEW k \in VillagesOf(t) PROVE Village(t, k)'
  OBVIOUS
<1>1. Subj(t, k)' = Subj(t, k) /\ Enc(t, k)' = Enc(t, k)
  BY DrawnStay DEF Subj, Enc, DrawnTables
<1>2. Past(t, k) /\ Past(t, k)'
  BY DEF Past
<1>3. t \in Int /\ tenant' # t
  BY DatasetAssumption DEF Written, Tenants, RowInv, IInv
<1>4. ~Now(t, k)'
  BY <1>3 DEF Now
<1>5. SpecOf(t)' = SpecOf(t) /\ ShareOf(t)' = ShareOf(t)
  BY SameTenant
<1>6. /\ Cardinality(Subj(t, k)) = SpecOf(t).beneficiaries
      /\ SpecOf(t).beneficiaries > 0 => Cardinality(Enc(t, k)) = ShareOf(t)
  BY <1>2 DEF ShareInv, Village
<1> QED
  BY <1>1, <1>2, <1>4, <1>5, <1>6 DEF Village

\* Subjects are at villages, as long as no row is drawn.
LEMMA SubjectsStay ==
    ASSUME ShareInv, UNCHANGED <<recipe, bases>>, NothingDrawn,
           NEW t \in Written
    PROVE  SubjectsAreAt(t)'
<1>1. Drawn("individual", t)' = Drawn("individual", t)
  BY DrawnStay DEF DrawnTables
<1> QED
  BY <1>1, SameTenant DEF ShareInv, SubjectsAreAt

\* The tenant that is next holds nothing yet, and then begins with its first village.
LEMMA ShareStructure ==
    ASSUME RowInv, ShareInv, Structure, pc' = "village", NothingDrawn
    PROVE  ShareInv'
<1>0. Len(recipe.tenants) \in Nat
  BY DatasetAssumption DEF RowInv, IInv
<1>1. /\ pc = "tenant" /\ tenant \in Tenants /\ UNCHANGED <<recipe, bases, tenant>>
      /\ subjects' = {} /\ village' = 0 /\ left' = <<Subjects, Share>>
  BY DEF Structure
<1>2. Written' = Written \cup {tenant} /\ tenant \notin Written
      /\ \A t \in Written : t < tenant /\ t < tenant' /\ t \in Tenants
  BY <1>0, <1>1 DEF Written, Tenants
<1>3. ASSUME NEW t, t = tenant PROVE \A table \in DrawnTables : Drawn(table, t)' = {}
  <2>1. \A u \in Written : SpecOf(u).org # SpecOf(tenant).org
    BY <1>1, <1>2, BasesAre DEF RowInv
  <2>2. \A r \in rows : r.table \in DrawnTables => r.org # SpecOf(tenant).org
    BY <2>1 DEF RowInv, PlaceInv
  <2>3. \A table \in DrawnTables : Drawn(table, t) = {}
    BY <1>3, <2>2 DEF Drawn
  <2> QED
    BY <1>1, <2>3, DrawnStay
<1>4. ASSUME NEW t \in Tenants, t = tenant, NEW k \in VillagesOf(t) PROVE Village(t, k)'
  <2>1. Subj(t, k)' = {} /\ Enc(t, k)' = {}
    BY <1>3, <1>4 DEF Subj, Enc, AtLeaf, DrawnTables
  <2>2. ~Past(t, k)'
    <3>1. villages(SpecOf(t)) \in Nat
      BY TenantIs DEF RowInv
    <3>2. k \in Nat /\ t \in Nat
      BY <1>0, <1>1, <3>1 DEF VillagesOf, Tenants
    <3> QED
      BY <1>1, <1>4, <3>2 DEF Past
  <2>3. PICK b \in Nat, s \in Nat : b = SpecOf(t).beneficiaries /\ s = ShareOf(t)
    BY TenantIs DEF RowInv
  <2>4. left'[1] = b /\ left'[2] = s
    BY <1>1, <1>4, <2>3 DEF Subjects, Share, This, ShareOf
  <2>5. Cardinality(Subj(t, k)') = b - left'[1] /\ Cardinality(Enc(t, k)') = s - left'[2]
    BY <2>1, <2>3, <2>4, FS_EmptySet
  <2> QED
    BY <1>1, <2>1, <2>2, <2>3, <2>5, SameTenant DEF Village
<1>5. ASSUME NEW t \in Written' PROVE (\A k \in VillagesOf(t) : Village(t, k))'
  <2>1. CASE t = tenant
    BY <1>1, <1>4, <2>1, SameTenant
  <2>2. CASE t # tenant
    BY <1>1, <1>2, <2>2, BehindStays, SameTenant
  <2> QED
    BY <2>1, <2>2
<1>6. ASSUME NEW t \in Written'
      PROVE  SubjectsAreAt(t)'
  <2>1. CASE t = tenant
    BY <1>3, <2>1 DEF DrawnTables, SubjectsAreAt
  <2>2. CASE t # tenant
    BY <1>1, <1>2, <2>2, SubjectsStay
  <2> QED
    BY <2>1, <2>2
<1> QED
  BY <1>5, <1>6 DEF ShareInv

\* A draw takes the village a subject or an encounter further.
LEMMA ShareDraw ==
    ASSUME RowInv, IdInv, ShareInv, Draw PROVE ShareInv'
<1>1. PICK new : DrawnAs(new)
  BY DrawIs
<1>2. pc = "village" /\ UNCHANGED <<recipe, pc, bases, tenant, village>>
  BY DrawCounts DEF RowInv
<1>3. /\ Written' = Written /\ tenant \in Written /\ tenant \in Tenants
      /\ village \in VillagesOf(tenant)
  BY <1>2, Drawing DEF RowInv, Written, Tenants, PlaceInv, Counted
<1>4. ASSUME NEW t \in Written, NEW k \in VillagesOf(t)
      PROVE  /\ SpecOf(t)' = SpecOf(t) /\ ShareOf(t)' = ShareOf(t)
             /\ Past(t, k)' = Past(t, k) /\ Now(t, k)' = Now(t, k)
             /\ Now(t, k) <=> t = tenant /\ k = village
  BY <1>2, SameTenant DEF Past, Now
<1>5. ASSUME NEW t \in Written, NEW k \in VillagesOf(t), t # tenant \/ k # village
      PROVE  Village(t, k)'
  <2>1. Subj(t, k)' = Subj(t, k) /\ Enc(t, k)' = Enc(t, k)
    BY <1>1, <1>2, <1>5, AddsTo DEF Subj, Enc, DrawnAs, DrawnTables
  <2> QED
    BY <1>4, <1>5, <2>1 DEF ShareInv, Village
<1>6. ASSUME NEW t \in Written, t = tenant, NEW k \in VillagesOf(t), k = village
      PROVE  Village(t, k)'
  <2>1. /\ Subj(t, k)' = Subj(t, k) \cup New(new, "individual")
        /\ Enc(t, k)' = Enc(t, k)
             \cup (New(new, "encounter") \cup New(new, "program_encounter"))
    BY <1>1, <1>2, <1>6, AddsTo DEF Subj, Enc, DrawnAs, DrawnTables
  <2>2. Now(t, k) /\ ~Past(t, k) /\ Now(t, k)' /\ ~Past(t, k)'
    <3>1. t \in Int /\ k \in Int
      BY <1>2, <1>3, <1>6, Drawing, DatasetAssumption DEF RowInv, IInv, Tenants
    <3> QED
      BY <1>2, <1>6, <3>1 DEF Now, Past
  <2>3. PICK b \in Nat, s \in Nat : b = SpecOf(t).beneficiaries /\ s = ShareOf(t)
    BY <1>3, <1>6, TenantIs DEF RowInv
  <2>4. PICK m \in 0..b, n \in 0..s : left = <<m, n>>
    BY <1>2, <1>6, <2>3 DEF RowInv, PlaceInv, Counted, Subjects, Share, This, ShareOf
  <2>5. /\ Cardinality(Subj(t, k)) = b - m /\ subjects = Subj(t, k)
        /\ Cardinality(Enc(t, k)) = s - n
    BY <2>2, <2>3, <2>4 DEF ShareInv, Village
  <2>6. IsFiniteSet(Subj(t, k)) /\ IsFiniteSet(Enc(t, k))
    BY DrawnAreFinite, FS_Union DEF RowInv, Subj, Enc, DrawnTables
  <2>7. \A r \in new : r \notin rows
    BY <1>1, <1>2, FreshIsNew DEF DrawnAs
  <2>8. Subj(t, k) \subseteq rows /\ Enc(t, k) \subseteq rows
    BY DEF Subj, Enc, AtLeaf, Drawn
  <2>9. CASE SubjectDrawn(new)
    <3>1. PICK i : New(new, "individual") = {i} /\ subjects' = subjects \cup {i}
      BY <2>9 DEF SubjectDrawn
    <3>2. i \notin Subj(t, k)
      BY <2>7, <2>8, <3>1 DEF New
    <3>3. Cardinality(Subj(t, k) \cup {i}) = (b - m) + 1
      BY <2>5, <2>6, <3>2, FS_AddElement
    <3>4. Enc(t, k)' = Enc(t, k) /\ Subj(t, k)' = Subj(t, k) \cup {i}
      BY <2>1, <2>9, <3>1 DEF SubjectDrawn
    <3>5. left'[1] = m - 1 /\ left'[2] = n
      BY <2>4, <2>9 DEF SubjectDrawn
    <3>6. /\ Cardinality(Subj(t, k)') = b - left'[1] /\ subjects' = Subj(t, k)'
          /\ Cardinality(Enc(t, k)') = s - left'[2]
      BY <2>5, <3>1, <3>3, <3>4, <3>5
    <3> QED
      BY <1>4, <2>2, <2>3, <3>6 DEF Village
  <2>10. CASE EncounterDrawn(new)
    <3>1. PICK e : New(new, "encounter") \cup New(new, "program_encounter") = {e}
      BY <2>10 DEF EncounterDrawn
    <3>2. e \notin Enc(t, k)
      BY <2>7, <2>8, <3>1 DEF New
    <3>3. Cardinality(Enc(t, k) \cup {e}) = (s - n) + 1
      BY <2>5, <2>6, <3>2, FS_AddElement
    <3>4. Subj(t, k)' = Subj(t, k) /\ Enc(t, k)' = Enc(t, k) \cup {e}
      BY <2>1, <2>10, <3>1 DEF EncounterDrawn
    <3>5. left'[1] = m /\ left'[2] = n - 1 /\ subjects' = subjects
      BY <2>4, <2>10 DEF EncounterDrawn
    <3>6. /\ Cardinality(Subj(t, k)') = b - left'[1] /\ subjects' = Subj(t, k)'
          /\ Cardinality(Enc(t, k)') = s - left'[2]
      BY <2>5, <3>3, <3>4, <3>5
    <3> QED
      BY <1>4, <2>2, <2>3, <3>6 DEF Village
  <2> QED
    BY <1>1, <2>9, <2>10 DEF DrawnAs
<1>7. ASSUME NEW t \in Written
      PROVE  SubjectsAreAt(t)'
  <2>1. /\ t # tenant => Drawn("individual", t)' = Drawn("individual", t)
        /\ t = tenant =>
             Drawn("individual", t)' = Drawn("individual", t) \cup New(new, "individual")
    BY <1>1, <1>2, AddsTo DEF DrawnAs, DrawnTables
  <2>2. \A r \in new : r.address = LeafOf(tenant, village)
    BY <1>1 DEF DrawnAs, Fresh
  <2>3. \A r \in Drawn("individual", t)' : \E k \in VillagesOf(t) : r.address = LeafOf(t, k)
    BY <1>3, <2>1, <2>2 DEF ShareInv, New, SubjectsAreAt
  <2> QED
    BY <1>2, <2>3, SameTenant DEF SubjectsAreAt
<1>8. ASSUME NEW t \in Written PROVE (\A k \in VillagesOf(t) : Village(t, k))'
  <2>1. \A k \in VillagesOf(t) : Village(t, k)'
    BY <1>5, <1>6
  <2> QED
    BY <1>2, <2>1, SameTenant
<1> QED
  BY <1>3, <1>7, <1>8 DEF ShareInv

\* The village that is done has its share, and the next one holds nothing yet.
LEMMA ShareDone ==
    ASSUME RowInv, ShareInv, VillageDone PROVE ShareInv'
<1>0. Len(recipe.tenants) \in Nat
  BY DatasetAssumption DEF RowInv, IInv
<1>1. /\ pc = "village" /\ tenant \in Tenants /\ UNCHANGED <<recipe, bases, rows>>
      /\ left[1] = 0 /\ (left[2] = 0 \/ subjects = {}) /\ subjects' = {}
  BY DEF VillageDone, RowInv, FeedInv, Emptied
<1>2. NothingDrawn
  BY <1>1 DEF NothingDrawn, Of
<1>3. PICK u \in Tenants : u = tenant /\ u \in Written /\ u \in Int /\ This = SpecOf(u)
  BY <1>0, <1>1 DEF Written, Tenants, This
<1>4. PICK v \in Nat \ {0} : v = villages(SpecOf(u)) /\ VillagesOf(u) = 0..(v - 1)
                             /\ village \in 0..(v - 1)
  BY <1>1, <1>3, TenantIs DEF RowInv, VillagesOf, PlaceInv, Counted
<1>5. PICK b \in Nat, s \in Nat : b = SpecOf(u).beneficiaries /\ s = ShareOf(u)
  BY <1>1, <1>3, TenantIs DEF RowInv
<1>6. \A k \in VillagesOf(u) : Village(u, k)
  BY <1>3 DEF ShareInv
<1>7. /\ Cardinality(Subj(u, village)) = b
      /\ b > 0 => Cardinality(Enc(u, village)) = s
  <2>1. Now(u, village)
    BY <1>1, <1>3 DEF Now
  <2>2. /\ Cardinality(Subj(u, village)) = b - left[1] /\ subjects = Subj(u, village)
        /\ Cardinality(Enc(u, village)) = s - left[2]
    BY <1>3, <1>4, <1>5, <1>6, <2>1 DEF Village
  <2>3. b > 0 => left[2] = 0
    BY <1>1, <1>3, <2>2, FS_EmptySet
  <2> QED
    BY <1>1, <1>3, <2>2, <2>3
<1>8. /\ \A k : Subj(u, k)' = Subj(u, k) /\ Enc(u, k)' = Enc(u, k)
      /\ SpecOf(u)' = SpecOf(u) /\ ShareOf(u)' = ShareOf(u)
  BY <1>1, <1>2, DrawnStay, SameTenant DEF Subj, Enc, DrawnTables
<1>9. \A t \in Written : t \in Tenants /\ (t = tenant \/ t < tenant)
  BY <1>0, <1>1 DEF Written, Tenants
<1>10. ASSUME NEW k \in VillagesOf(u), k < village
       PROVE  /\ Cardinality(Subj(u, k)) = b
              /\ b > 0 => Cardinality(Enc(u, k)) = s
  <2>1. Past(u, k)
    BY <1>1, <1>3, <1>10 DEF Past
  <2> QED
    BY <1>3, <1>5, <1>6, <2>1 DEF Village
<1>11. CASE /\ village + 1 < villages(This) /\ village' = village + 1
            /\ left' = <<Subjects, Share>> /\ UNCHANGED <<pc, tenant>>
  <2>1. Written' = Written
    BY <1>1, <1>3, <1>11 DEF Written, Tenants
  <2>2. ASSUME NEW k \in VillagesOf(u) PROVE Village(u, k)'
    <3>1. k \in Int /\ village \in Int
      BY <1>3, <1>4
    <3>2. CASE k <= village
      <4>1. Past(u, k)' /\ ~Now(u, k)'
        BY <1>1, <1>3, <1>11, <3>1, <3>2 DEF Past, Now
      <4>2. /\ Cardinality(Subj(u, k)) = b
            /\ b > 0 => Cardinality(Enc(u, k)) = s
        BY <1>3, <1>7, <1>10, <3>1, <3>2
      <4> QED
        BY <1>3, <1>5, <1>8, <1>11, <4>1, <4>2 DEF Village
    <3>3. CASE village < k
      <4>1. ~Past(u, k) /\ ~Now(u, k) /\ ~Past(u, k)'
        BY <1>1, <1>3, <1>11, <3>1, <3>3 DEF Past, Now
      <4>2. Subj(u, k) = {} /\ Enc(u, k) = {}
        BY <1>3, <1>6, <4>1 DEF Village
      <4>3. left'[1] = b /\ left'[2] = s
        BY <1>3, <1>5, <1>11 DEF Subjects, Share, This, ShareOf
      <4>4. Cardinality(Subj(u, k)') = b - left'[1] /\ Cardinality(Enc(u, k)') = s - left'[2]
        BY <1>3, <1>5, <1>8, <4>2, <4>3, FS_EmptySet
      <4>5. Subj(u, k)' = {} /\ Enc(u, k)' = {}
        BY <1>3, <1>8, <4>2
      <4> QED
        BY <1>1, <1>3, <1>5, <1>8, <1>11, <4>1, <4>4, <4>5 DEF Village
    <3> QED
      BY <3>1, <3>2, <3>3
  <2>3. ASSUME NEW t \in Written PROVE \A k \in VillagesOf(t) : Village(t, k)'
    <3>1. CASE t = u
      BY <2>2, <3>1
    <3>2. CASE t # u
      BY <1>1, <1>2, <1>3, <1>9, <1>11, <3>2, BehindStays
    <3> QED
      BY <3>1, <3>2
  <2>4. \A t \in Written :
          /\ SubjectsAreAt(t)'
          /\ (\A k \in VillagesOf(t) : Village(t, k))'
    BY <1>1, <1>2, <2>3, SubjectsStay, SameTenant
  <2> QED
    BY <2>1, <2>4 DEF ShareInv
<1>12. CASE village + 1 >= villages(This) /\ tenant' = tenant + 1 /\ pc' = "tenant"
  <2>1. Written' = Written
    BY <1>0, <1>1, <1>3, <1>12 DEF Written, Tenants
  <2>2. ASSUME NEW k \in VillagesOf(u) PROVE Village(u, k)'
    <3>1. k \in Int /\ village \in Int /\ k <= village
      BY <1>3, <1>4, <1>12 DEF This
    <3>2. Past(u, k)' /\ ~Now(u, k)'
      BY <1>3, <1>12 DEF Past, Now
    <3>3. /\ Cardinality(Subj(u, k)) = b
          /\ b > 0 => Cardinality(Enc(u, k)) = s
      BY <1>3, <1>7, <1>10, <3>1
    <3> QED
      BY <1>3, <1>5, <1>8, <3>2, <3>3 DEF Village
  <2>3. ASSUME NEW t \in Written PROVE \A k \in VillagesOf(t) : Village(t, k)'
    <3>1. CASE t = u
      BY <2>2, <3>1
    <3>2. CASE t # u
      <4>1. t < tenant /\ t < tenant'
        BY <1>0, <1>3, <1>9, <1>12, <3>2 DEF Tenants
      <4> QED
        BY <1>1, <1>2, <4>1, BehindStays
    <3> QED
      BY <3>1, <3>2
  <2>4. \A t \in Written :
          /\ SubjectsAreAt(t)'
          /\ (\A k \in VillagesOf(t) : Village(t, k))'
    BY <1>1, <1>2, <2>3, SubjectsStay, SameTenant
  <2> QED
    BY <2>1, <2>4 DEF ShareInv
<1> QED
  BY <1>11, <1>12 DEF VillageDone

LEMMA ShareStep == RowInv /\ IdInv /\ ShareInv /\ [Next]_vars => ShareInv'
<1> SUFFICES ASSUME RowInv, IdInv, ShareInv, [Next]_vars PROVE ShareInv'
  OBVIOUS
<1>0. Len(recipe.tenants) \in Nat
  BY DatasetAssumption DEF RowInv, IInv
<1>1. CASE Draw
  BY <1>1, ShareDraw
<1>2. CASE Written' = {}
  BY <1>2 DEF ShareInv
<1>3. CASE VillageDone
  BY <1>3, ShareDone
<1>4. CASE /\ pc # "ids" /\ UNCHANGED <<recipe, bases>> /\ ~VillageDone
           /\ NothingDrawn
  <2>1. CASE Structure /\ pc' = "village"
    BY <1>4, <2>1, ShareStructure
  <2>2. CASE UNCHANGED vars
    <3>1. UNCHANGED <<pc, tenant, village, left, subjects>> /\ Written' = Written
      BY <1>4, <2>2 DEF vars, Written, Tenants
    <3>2. ASSUME NEW t \in Written, NEW k \in VillagesOf(t) PROVE Village(t, k)'
      <4>1. Subj(t, k)' = Subj(t, k) /\ Enc(t, k)' = Enc(t, k)
        BY <1>4, DrawnStay DEF Subj, Enc, DrawnTables
      <4>2. Past(t, k)' = Past(t, k) /\ Now(t, k)' = Now(t, k)
            /\ SpecOf(t)' = SpecOf(t) /\ ShareOf(t)' = ShareOf(t)
        BY <1>4, <3>1, SameTenant DEF Past, Now
      <4> QED
        BY <3>1, <4>1, <4>2 DEF ShareInv, Village
    <3>3. \A t \in Written :
            /\ SubjectsAreAt(t)'
            /\ (\A k \in VillagesOf(t) : Village(t, k))'
      BY <1>4, <3>2, SubjectsStay, SameTenant
    <3> QED
      BY <3>1, <3>3 DEF ShareInv
  <2>3. CASE pc # "village" /\ pc' # "village" /\ tenant' = tenant
    <3>1. pc' # "ids" \/ Written' = {}
      BY <2>3 DEF Written
    <3>2. CASE pc' # "ids"
      <4>1. Written' = Written /\ \A t \in Written : t < tenant /\ t < tenant'
        BY <1>4, <2>3, <3>2 DEF Written, Tenants
      <4>2. \A t \in Written :
              /\ SubjectsAreAt(t)'
              /\ (\A k \in VillagesOf(t) : Village(t, k))'
        BY <1>4, <4>1, BehindStays, SubjectsStay, SameTenant
      <4> QED
        BY <4>1, <4>2 DEF ShareInv
    <3> QED
      BY <1>2, <3>1, <3>2
  <2>4. \/ (Structure /\ pc' = "village")
        \/ UNCHANGED vars
        \/ (pc # "village" /\ pc' # "village" /\ tenant' = tenant)
        \/ Draw
        \/ Written' = {}
    <3>1. plan_ids \/ Planned => FALSE
      BY <1>4 DEF plan_ids, Planned
    <3>2. Structure => pc # "village" /\ tenant' = tenant
      BY DEF Structure
    <3>3. feeder_csv => pc # "village" /\ pc' # "village" /\ tenant' = tenant
      BY DEF feeder_csv
    <3>4. (\E ref \in Reimports, org \in DOMAIN refs : Reimport(org, ref))
             => pc # "village" /\ pc' # "village" /\ tenant' = tenant
      BY DEF Reimport
    <3> QED
      BY <1>4, <3>1, <3>2, <3>3, <3>4 DEF Next
  <2> QED
    BY <1>1, <1>2, <2>1, <2>2, <2>3, <2>4
<1> QED
  BY <1>1, <1>2, <1>3, <1>4, WhatIsDrawn

\* A drawn row of a tenant, and the spec that its organisation's rows were built to.
LEMMA SpecIs ==
    ASSUME RowInv, NEW r \in rows, r.table \in DrawnTables
    PROVE  \E t \in Written : /\ r.org = SpecOf(t).org /\ t \in Tenants
                              /\ SpecOf(t) = CHOOSE s \in recipe.specs : s.org = r.org
<1>1. PICK t \in Written : r.org = SpecOf(t).org /\ t \in Tenants
  BY DEF RowInv, PlaceInv, Written
<1>2. recipe \in Recipes
  BY DEF RowInv, IInv
<1>3. SpecOf(t) \in recipe.specs /\ \A s \in recipe.specs : \E u \in Tenants : s = SpecOf(u)
  <2>1. recipe.specs = {recipe.tenants[i] : i \in 1..Len(recipe.tenants)}
    BY <1>2, DatasetAssumption
  <2> QED
    BY <1>1, <2>1 DEF Tenants, SpecOf
<1>4. \A u \in Tenants : SpecOf(u).org = SpecOf(t).org => u = t
  BY <1>1, <1>2, DatasetAssumption DEF Tenants, SpecOf
<1>5. \A s \in recipe.specs : s.org = r.org => s = SpecOf(t)
  BY <1>1, <1>3, <1>4
<1>6. SpecOf(t) = CHOOSE s \in recipe.specs : s.org = r.org
  BY <1>1, <1>3, <1>5
<1> QED
  BY <1>1, <1>6

\* Whatever the rng draws, every child of transactional_rows hangs on a row of its own
\* organisation and village that is no younger, and every village that is finished holds
\* its subjects and its share of the encounters.
THEOREM SharesAreHeld == Spec => []VillagesHoldTheirShare
<1>1. RowInv /\ ParentInv /\ ShareInv => VillagesHoldTheirShare
  <2> SUFFICES ASSUME RowInv, ParentInv, ShareInv PROVE VillagesHoldTheirShare
    OBVIOUS
  <2>1. ASSUME NEW r \in Of("program_enrolment") \cup Of("encounter") \cup Of("program_encounter")
        PROVE  \E p \in Of(IF r.table = "program_encounter" THEN "program_enrolment"
                           ELSE "individual") :
                   p.org = r.org /\ p.id = r.on /\ p.address = r.address /\ p.at <= r.at
    BY DEF ParentInv, Children, HasParent, ParentTable
  <2>2. ASSUME NEW i \in Of("individual"), i \notin subjects, NEW spec,
               spec = CHOOSE t \in recipe.specs : t.org = i.org
        PROVE  LET at(tables) == {r \in rows : r.table \in tables /\ r.org = i.org
                                               /\ r.address = i.address}
               IN /\ Cardinality(at({"individual"})) = spec.beneficiaries
                  /\ Cardinality(at({"encounter", "program_encounter"}))
                       = encounters(spec) \div villages(spec)
    <3> DEFINE at(tables) == {r \in rows : r.table \in tables /\ r.org = i.org
                                           /\ r.address = i.address}
    <3>1. i \in rows /\ i.table = "individual"
      BY DEF Of
    <3>2. PICK t \in Written : i.org = SpecOf(t).org /\ t \in Tenants /\ SpecOf(t) = spec
      BY <2>2, <3>1, SpecIs DEF DrawnTables
    <3>3. i \in Drawn("individual", t)
      BY <3>1, <3>2 DEF Drawn
    <3>4. PICK k \in VillagesOf(t) : i.address = LeafOf(t, k)
      BY <3>3 DEF ShareInv, SubjectsAreAt
    <3>5. i \in Subj(t, k) /\ Village(t, k)
      BY <3>3, <3>4 DEF Subj, AtLeaf, ShareInv
    <3>6. Past(t, k)
      BY <2>2, <3>5 DEF Village
    <3>7. PICK n \in Nat : n = spec.beneficiaries
      BY <3>2, TenantIs DEF RowInv
    <3>8. Cardinality(Subj(t, k)) = n /\ (n > 0 => Cardinality(Enc(t, k)) = ShareOf(t))
      BY <3>2, <3>5, <3>6, <3>7 DEF Village
    <3>9. n > 0
      <4>1. IsFiniteSet(Subj(t, k))
        BY DrawnAreFinite DEF RowInv, Subj, DrawnTables
      <4>2. Cardinality(Subj(t, k)) # 0
        BY <3>5, <4>1, FS_EmptySet
      <4> QED
        BY <3>8, <4>2
    <3>10. at({"individual"}) = Subj(t, k)
      BY <3>2, <3>4 DEF Subj, AtLeaf, Drawn
    <3>11. at({"encounter", "program_encounter"}) = Enc(t, k)
      BY <3>2, <3>4 DEF Enc, AtLeaf, Drawn
    <3> QED
      BY <3>2, <3>7, <3>8, <3>9, <3>10, <3>11 DEF ShareOf
  <2> QED
    BY <2>1, <2>2 DEF VillagesHoldTheirShare
<1>2. Init => RowInv /\ IdInv /\ ParentInv /\ ShareInv
  BY InitIInv, InitFeedInv, InitPlaceInv, InitShareInv DEF RowInv
<1>3. RowInv /\ IdInv /\ ParentInv /\ ShareInv /\ [Next]_vars
         => (RowInv /\ IdInv /\ ParentInv /\ ShareInv)'
  <2>1. RowInv /\ [Next]_vars => RowInv'
    BY NextIInv, FeedStep, PlaceStep DEF RowInv
  <2> QED
    BY <2>1, IdStep, ParentStep, ShareStep
<1> QED
  BY <1>1, <1>2, <1>3, PTL DEF Spec
-----------------------------------------------------------------------------
(* Ids: what a tenant's structure takes of its band.                        *)

\* A product grows with either factor.
LEMMA Products ==
    ASSUME NEW m \in Nat, NEW n \in Nat, m <= n, NEW q \in Nat
    PROVE  m * q <= n * q /\ q * m <= q * n /\ m * q \in Nat
<1>1. PICK d \in Nat : n = m + d
  <2>1. n - m \in Nat /\ n = m + (n - m)
    OBVIOUS
  <2> QED
    BY <2>1
<1>2. n * q = m * q + d * q /\ m * q \in Nat /\ d * q \in Nat
  BY <1>1
<1> QED
  BY <1>2

\* Rounding goes up by a half at most.
LEMMA RoundedIs ==
    ASSUME NEW p \in Nat, NEW q \in Nat \ {0}
    PROVE  Rounded(p, q) \in Nat /\ 2 * (Rounded(p, q) * q) <= 2 * p + q
<1>1. PICK f \in Nat, r \in 0..(q - 1) : f = p \div q /\ r = p % q /\ p = f * q + r
  <2>1. p \div q \in Nat /\ p % q \in 0..(q - 1) /\ p = (p \div q) * q + (p % q)
    OBVIOUS
  <2> QED
    BY <2>1
<1>2. CASE 2 * r > q \/ (2 * r = q /\ f % 2 = 1)
  <2>1. Rounded(p, q) = f + 1
    BY <1>1, <1>2 DEF Rounded
  <2>2. (f + 1) * q = f * q + q /\ f * q \in Nat /\ q <= 2 * r
    BY <1>1, <1>2
  <2> QED
    BY <1>1, <2>1, <2>2
<1>3. CASE ~(2 * r > q \/ (2 * r = q /\ f % 2 = 1))
  <2>1. Rounded(p, q) = f
    BY <1>1, <1>3 DEF Rounded
  <2>2. f * q \in Nat
    OBVIOUS
  <2> QED
    BY <1>1, <2>1, <2>2
<1> QED
  BY <1>2, <1>3

\* A level over one that fans out has half its places, rounded up; over one that does
\* not thin out, no more than it.
LEMMA OverIs ==
    ASSUME NEW below \in Nat \ {0}, NEW level \in Level
    PROVE  /\ level.per[1] >= level.per[2] => OverLevel(below, level) <= below
           /\ level.per[1] >= 2 * level.per[2] => 2 * (OverLevel(below, level) - 1) <= below - 1
<1>1. PICK p \in Nat \ {0}, q \in Nat \ {0} : p = level.per[1] /\ q = level.per[2]
  BY DEF Level
<1>2. below * q \in Nat
  OBVIOUS
<1>3. PICK n \in Nat : n = Rounded(below * q, p) /\ 2 * (n * p) <= 2 * (below * q) + p
  BY <1>2, RoundedIs
<1>4. OverLevel(below, level) = Larger(1, n)
  BY <1>1, <1>3 DEF OverLevel
<1>5. ASSUME p >= q PROVE n <= below
  <2> SUFFICES ASSUME n >= below + 1 PROVE FALSE
    OBVIOUS
  <2>1. below * q <= below * p /\ (below + 1) * p <= n * p /\ n * p \in Nat
    BY <1>5, Products
  <2>2. (below + 1) * p = below * p + p /\ below * p \in Nat
    OBVIOUS
  <2> QED
    BY <1>2, <1>3, <2>1, <2>2
<1>6. ASSUME p >= 2 * q PROVE 2 * n <= below + 1
  <2> SUFFICES ASSUME 2 * n >= below + 2 PROVE FALSE
    OBVIOUS
  <2>1. below * (2 * q) <= below * p /\ (below + 2) * p <= (2 * n) * p /\ (2 * n) * p \in Nat
    BY <1>6, Products
  <2>2. (below + 2) * p = below * p + 2 * p /\ below * p \in Nat
    OBVIOUS
  <2>3. below * (2 * q) = 2 * (below * q) /\ (2 * n) * p = 2 * (n * p)
    OBVIOUS
  <2> QED
    BY <1>2, <1>3, <2>1, <2>2, <2>3
<1>7. Larger(1, n) = IF n = 0 THEN 1 ELSE n
  BY DEF Larger
<1> QED
  BY <1>1, <1>4, <1>5, <1>6, <1>7

\* A tree that fans out has no level with more places than villages, and in all no
\* more than three for each village but one, and one a level.
LEMMA TreeFits ==
    ASSUME NEW s, SizesAre(s), NEW levels \in Seq(Level), levels # << >>, FansOut(levels),
           NEW c, c = plan_levels(villages(s), levels)
    PROVE  /\ \A i \in 1..Len(c) : c[i] <= villages(s)
           /\ \A i \in 1..Len(c) : Before(c)[i] + c[i] <= 3 * (villages(s) - 1) + Len(c)
<1>0. PICK L \in Nat \ {0} : c \in Seq(Nat \ {0}) /\ PlannedFor(s, levels, c, L)
  <2>1. PICK d \in Seq(Nat \ {0}), L \in Nat \ {0} : PlannedFor(s, levels, d, L)
    BY CountsAre
  <2>2. d = c
    BY <2>1 DEF PlannedFor
  <2> QED
    BY <2>1, <2>2
<1>1. /\ c \in Seq(Nat \ {0}) /\ c # << >> /\ L = Len(c) /\ L = Len(levels)
      /\ c \in [1..L -> Nat \ {0}] /\ c[L] = villages(s)
      /\ \A i \in 1..(L - 1) : c[i] = OverLevel(c[i + 1], levels[i + 1])
  BY <1>0 DEF PlannedFor
<1>2. PICK b \in [1..L -> Nat] :
          /\ b = Before(c) /\ b[1] = 0
          /\ \A i \in 1..(L - 1) : b[i + 1] = b[i] + c[i]
          /\ \A i, j \in 1..L : i < j => b[i] + c[i] <= b[j]
  BY <1>1, BeforeIs
<1>3. PICK v \in 0..L : \A i \in 2..L :
          levels[i].per[1] >= (IF i = v THEN 1 ELSE 2) * levels[i].per[2]
  BY <1>1 DEF FansOut
<1>4. ASSUME NEW i \in 1..(L - 1)
      PROVE  c[i] <= c[i + 1] /\ (i + 1 # v => 2 * (c[i] - 1) <= c[i + 1] - 1)
  <2>1. i + 1 \in 2..L /\ i + 1 \in 1..L /\ c[i + 1] \in Nat \ {0}
    BY <1>1
  <2>2. PICK level \in Level : level = levels[i + 1]
    BY <1>1, <2>1, ElementOfSeq
  <2>3. PICK p \in Nat \ {0}, q \in Nat \ {0} : p = level.per[1] /\ q = level.per[2]
    BY DEF Level
  <2>4. p >= (IF i + 1 = v THEN 1 ELSE 2) * q
    BY <1>3, <2>1, <2>2, <2>3
  <2>5. p >= q /\ (i + 1 # v => p >= 2 * q)
    BY <2>4
  <2>6. PICK n \in Nat \ {0} : n = c[i + 1]
    BY <2>1
  <2>7. c[i] = OverLevel(n, level)
    BY <1>1, <2>2, <2>6
  <2>8. OverLevel(n, level) <= n /\ (i + 1 # v => 2 * (OverLevel(n, level) - 1) <= n - 1)
    BY <2>3, <2>5, OverIs
  <2> QED
    BY <2>6, <2>7, <2>8
<1> DEFINE Under(i, n, all) == all <= IF v >= 2 /\ i >= v THEN 3 * (n - 1) + i
                                                          ELSE 2 * (n - 1) + i
           Few(i) == Under(i, c[i], b[i] + c[i])
           A == {k \in Nat : k + 1 <= L => Few(k + 1)}
           B == {k \in Nat : k < L => c[L - k] <= c[L]}
<1>5. A = Nat
  <2>1. 0 \in A
    <3>1. PICK n \in Nat \ {0} : n = c[1]
      BY <1>1
    <3>2. Few(1)
      BY <1>2, <3>1
    <3> HIDE DEF Few
    <3>3. 0 + 1 = 1
      OBVIOUS
    <3> QED
      BY <3>2, <3>3
  <2>2. ASSUME NEW k \in A PROVE k + 1 \in A
    <3>0. k \in Nat /\ k + 1 \in Nat
      BY <2>2
    <3> SUFFICES ASSUME (k + 1) + 1 <= L PROVE Few((k + 1) + 1)
      <4> HIDE DEF Few
      <4> QED
        BY <3>0
    <3>1. PICK i \in 1..(L - 1) : i = k + 1
      BY <3>0
    <3>7. Few(i)
      <4> HIDE DEF Few
      <4> QED
        BY <2>2, <3>0, <3>1
    <3>2. PICK m \in Nat \ {0}, n \in Nat \ {0}, d \in Nat : m = c[i] /\ n = c[i + 1] /\ d = b[i]
      <4>1. i \in 1..L /\ i + 1 \in 1..L
        OBVIOUS
      <4> QED
        BY <1>1, <4>1
    <3>3. Under(i, m, d + m)
      <4> HIDE DEF Under
      <4> QED
        BY <3>2, <3>7
    <3>4. b[i + 1] = d + m
      BY <1>2, <3>1, <3>2
    <3>5. m <= n /\ (i + 1 # v => 2 * (m - 1) <= n - 1)
      BY <1>4, <3>1, <3>2
    <3>6. Under(i + 1, n, d + m + n)
      <4>1. CASE i + 1 = v
        BY <3>3, <3>5, <4>1
      <4>2. CASE i + 1 # v /\ v >= 2 /\ i >= v
        BY <3>3, <3>5, <4>2
      <4>3. CASE i + 1 # v /\ ~(v >= 2 /\ i >= v)
        BY <3>3, <3>5, <4>3
      <4> QED
        BY <4>1, <4>2, <4>3
    <3>8. Few(i + 1)
      <4>1. b[i + 1] + c[i + 1] = d + m + n /\ c[i + 1] = n
        BY <3>2, <3>4
      <4> HIDE DEF Under
      <4> QED
        BY <3>6, <4>1
    <3> HIDE DEF Few
    <3> QED
      BY <3>1, <3>8
  <2>3. A \subseteq Nat /\ 0 \in A /\ \A k \in A : k + 1 \in A
    BY <2>1, <2>2
  <2> HIDE DEF A
  <2> QED
    BY <2>3, NatSetInduction
<1>6. B = Nat
  <2>1. 0 \in B
    BY <1>1
  <2>2. ASSUME NEW k \in B PROVE k + 1 \in B
    <3>0. k \in Nat /\ k + 1 \in Nat
      BY <2>2
    <3> SUFFICES ASSUME k + 1 < L PROVE c[L - (k + 1)] <= c[L]
      BY <3>0
    <3>1. PICK i \in 1..(L - 1) : i = L - (k + 1) /\ i + 1 = L - k
      BY <3>0
    <3>2. c[i] <= c[i + 1] /\ c[i + 1] <= c[L]
      BY <1>4, <2>2, <3>0, <3>1
    <3>3. c[i] \in Nat /\ c[i + 1] \in Nat /\ c[L] \in Nat
      <4>1. i \in 1..L /\ i + 1 \in 1..L /\ L \in 1..L
        OBVIOUS
      <4> QED
        BY <1>1, <4>1
    <3> QED
      BY <3>1, <3>2, <3>3
  <2>3. B \subseteq Nat /\ 0 \in B /\ \A k \in B : k + 1 \in B
    BY <2>1, <2>2
  <2> HIDE DEF B
  <2> QED
    BY <2>3, NatSetInduction
<1>7. b[L] + c[L] <= 3 * (c[L] - 1) + L
  <2>1. L - 1 \in A /\ (L - 1) + 1 = L
    <3> HIDE DEF A
    <3>1. L - 1 \in Nat /\ (L - 1) + 1 = L
      OBVIOUS
    <3> QED
      BY <1>5, <3>1
  <2>2. PICK n \in Nat \ {0}, d \in Nat : n = c[L] /\ d = b[L]
    BY <1>1
  <2>3. Few(L)
    <3> HIDE DEF Few
    <3> QED
      BY <2>1
  <2>5. Under(L, n, d + n)
    <3> HIDE DEF Under
    <3> QED
      BY <2>2, <2>3
  <2>4. d + n <= 3 * (n - 1) + L
    BY <2>5
  <2> QED
    BY <2>2, <2>4
<1>8. ASSUME NEW i \in 1..L
      PROVE  c[i] <= c[L] /\ b[i] + c[i] <= 3 * (c[L] - 1) + L
  <2>1. L - i \in Nat /\ L - i < L /\ L - (L - i) = i
    OBVIOUS
  <2>2. L - i \in B
    <3> HIDE DEF B
    <3> QED
      BY <1>6, <2>1
  <2>3. c[i] <= c[L]
    BY <2>1, <2>2
  <2>4. b[i] + c[i] <= b[L] + c[L]
    <3>1. L \in 1..L
      OBVIOUS
    <3>2. PICK x \in Nat, y \in Nat : x = c[L] /\ y = b[L]
      <4>1. c \in [1..L -> Nat \ {0}]
        BY <1>1
      <4>2. c[L] \in Nat /\ b[L] \in Nat
        BY <3>1, <4>1
      <4> QED
        BY <4>2
    <3>3. i = L \/ b[i] + c[i] <= y
      BY <1>2, <3>1, <3>2
    <3>4. PICK z \in Nat : z = b[i] + c[i]
      BY <1>1, <1>2
    <3>5. CASE i = L
      BY <3>2, <3>4, <3>5
    <3>6. CASE z <= y
      BY <3>2, <3>4, <3>6
    <3> QED
      BY <3>3, <3>4, <3>5, <3>6
  <2>5. PICK p \in Nat, q \in Nat, r \in Int :
            p = b[i] + c[i] /\ q = b[L] + c[L] /\ r = 3 * (c[L] - 1) + L
    <3>1. L \in 1..L /\ c \in [1..L -> Nat \ {0}]
      BY <1>1
    <3>2. PICK x \in Nat, y \in Nat, u \in Nat, z \in Nat :
              x = b[i] /\ y = c[i] /\ u = b[L] /\ z = c[L]
      BY <3>1
    <3>3. x + y \in Nat /\ u + z \in Nat /\ 3 * (z - 1) + L \in Int
      OBVIOUS
    <3> QED
      BY <3>2, <3>3
  <2>6. p <= r
    BY <1>7, <2>4, <2>5
  <2> QED
    BY <2>3, <2>5, <2>6
<1> QED
  BY <1>1, <1>2, <1>8

\* What a band has room for: the largest table of subjects and encounters, four ids for
\* each village, and every user.
LEMMA BandFits ==
    ASSUME ID_BAND_SAFETY >= 2, NEW s, SizesAre(s), s.per_village < ID_BAND_MIN
    PROVE  /\ band_width(s) \in Nat \ {0} /\ ID_BAND_MIN <= band_width(s)
           /\ 4 * villages(s) <= band_width(s)
           /\ beneficiaries(s) <= band_width(s) /\ encounters(s) <= band_width(s)
           /\ villages(s) * s.per_village + villages(s) <= band_width(s)
<1>1. PICK b \in Nat, e \in Nat, v \in Nat \ {0}, f \in Nat :
          b = beneficiaries(s) /\ e = encounters(s) /\ v = villages(s) /\ f = s.field_workers
  <2>1. villages(s) \in Nat \ {0}
    BY VillagesAre
  <2>2. beneficiaries(s) \in Nat
    BY <2>1 DEF beneficiaries, SizesAre
  <2>3. s.field_workers * s.rate \in Nat
    BY DEF SizesAre
  <2>4. encounters(s) \in Nat
    BY <2>3 DEF encounters, SizesAre, None
  <2> QED
    BY <2>1, <2>2, <2>4 DEF SizesAre
<1>2. PICK m \in Nat, safety \in Nat : m = ID_BAND_MIN /\ safety = ID_BAND_SAFETY /\ safety >= 2
  BY DatasetAssumption
<1>3. PICK x \in Nat : /\ x = Larger(Larger(b, e), Larger(v * 2, f * 2))
                       /\ b <= x /\ e <= x /\ 2 * v <= x /\ 2 * f <= x
  BY DEF Larger
<1>4. safety * x \in Nat /\ 2 * x <= safety * x
  BY <1>2, Products
<1>5. PICK w \in Nat : w = band_width(s) /\ m <= w /\ 2 * x <= w
  <2>1. band_width(s) = Larger(m, safety * x)
    BY <1>1, <1>2, <1>3 DEF band_width
  <2> QED
    BY <1>4, <2>1 DEF Larger
<1>6. PICK per \in Nat \ {0} : per = s.per_village /\ per < m
  BY <1>2 DEF SizesAre
<1>7. PICK n \in Nat : n = Rounded(f, per) /\ 2 * (n * per) <= 2 * f + per
  BY RoundedIs
<1>8. v = Larger(1, n)
  BY <1>1, <1>6, <1>7 DEF villages
<1>9. v * per + v <= w
  <2>1. CASE v = 1
    BY <1>5, <1>6, <2>1
  <2>2. CASE v # 1
    <3>1. n = v /\ 2 <= v
      BY <1>8, <2>2 DEF Larger
    <3>2. 2 * per <= v * per /\ v * 1 <= v * per /\ v * per \in Nat
      BY <3>1, Products
    <3> QED
      BY <1>3, <1>5, <1>7, <3>1, <3>2
  <2> QED
    BY <2>1, <2>2
<1> QED
  BY <1>1, <1>2, <1>3, <1>5, <1>6, <1>9

\* Rows in a band, of which no two of one table share an id.
Apart(some, base, width) ==
    /\ \A r \in some : r.id \in (base + 1)..(base + width)
    /\ \A q, r \in some : q.table = r.table /\ q.id = r.id => q = r

\* The locations of a tree.
LEMMA BuildIsApart ==
    ASSUME ID_BAND_SAFETY >= 2, NEW s, SizesAre(s), s.per_village < ID_BAND_MIN,
           NEW levels \in Seq(Level), levels # << >>, FansOut(levels), NEW base \in Nat
    PROVE  Apart(build(s, levels, base + 1), base, band_width(s))
<1>0. PICK c \in Seq(Nat \ {0}), L \in Nat \ {0} : PlannedFor(s, levels, c, L)
  BY CountsAre
<1>1. /\ c = plan_levels(villages(s), levels) /\ c # << >> /\ L = Len(c) /\ L = Len(levels)
      /\ c \in [1..L -> Nat \ {0}]
  BY <1>0 DEF PlannedFor
<1>2. PICK w \in Nat, v \in Nat \ {0} : w = band_width(s) /\ v = villages(s)
  BY BandFits, VillagesAre
<1>3. \A i \in 1..L : Before(c)[i] + c[i] <= 3 * (v - 1) + L
  BY <1>1, <1>2, TreeFits
<1>4. 3 * (v - 1) + L <= w
  <2>1. PICK m \in Nat : m = ID_BAND_MIN /\ m <= w /\ 4 * v <= w /\ 4 * (L - 3) <= m
    BY <1>1, <1>2, BandFits, DatasetAssumption DEF FansOut
  <2> QED
    BY <2>1
<1>5. \A i \in 1..L : Before(c)[i] \in Nat /\ c[i] \in Nat
  BY <1>1, BeforeIs
<1>6. \A i, j \in 1..L : \A n \in 0..(c[i] - 1), m \in 0..(c[j] - 1) :
          Place(c, base + 1, i, n) = Place(c, base + 1, j, m) => i = j /\ n = m
  <2>1. PICK first \in Nat : first = base + 1
    OBVIOUS
  <2>2. \A i, j \in 1..Len(c) : \A n \in 0..(c[i] - 1), m \in 0..(c[j] - 1) :
          Place(c, first, i, n) = Place(c, first, j, m) => i = j /\ n = m
    <3>1. c # << >>
      BY <1>1
    <3> QED
      BY <3>1, PlacesAre, Zenon
  <2>3. L = Len(c)
    BY <1>1
  <2> QED
    BY <2>1, <2>2, <2>3
<1> DEFINE At(i, n) == R("address_level", s.org, Place(c, base + 1, i, n),
                         IF i = 1 THEN None ELSE Place(c, base + 1, i - 1, n % c[i - 1]), i, 0)
<1>7. build(s, levels, base + 1) = UNION {{At(i, n) : n \in 0..(c[i] - 1)} : i \in 1..L}
  BY <1>1 DEF build
<1>8. \A i, n : At(i, n).id = Place(c, base + 1, i, n)
  BY DEF R
<1>9. ASSUME NEW r \in build(s, levels, base + 1)
      PROVE  \E i \in 1..L : \E n \in 0..(c[i] - 1) : r = At(i, n)
  <2> HIDE DEF At
  <2> QED
    BY <1>7
<1>10. ASSUME NEW r \in build(s, levels, base + 1)
       PROVE  r.id \in (base + 1)..(base + w)
  <2>1. PICK i \in 1..L : \E n \in 0..(c[i] - 1) : r = At(i, n)
    BY <1>9
  <2>2. PICK n \in 0..(c[i] - 1) : r = At(i, n)
    BY <2>1
  <2>3. PICK b \in Nat, d \in Nat : b = Before(c)[i] /\ d = c[i] /\ b + d <= w
    <3>1. PICK b \in Nat, d \in Nat : b = Before(c)[i] /\ d = c[i]
      BY <1>5
    <3>2. b + d <= 3 * (v - 1) + L
      BY <1>3, <3>1
    <3>3. b + d <= w
      BY <1>4, <3>2
    <3> QED
      BY <3>1, <3>3
  <2>4. r.id = base + 1 + b + n
    BY <1>8, <2>2, <2>3 DEF Place
  <2>5. PICK k \in Nat : k = n /\ k <= d - 1
    BY <2>3
  <2>6. base + 1 + b + k \in (base + 1)..(base + w)
    <3>1. b + d <= w /\ k <= d - 1
      BY <2>3, <2>5
    <3> QED
      BY <3>1
  <2> QED
    BY <2>4, <2>5, <2>6
<1>11. ASSUME NEW q \in build(s, levels, base + 1), NEW r \in build(s, levels, base + 1),
              q.id = r.id
       PROVE  q = r
  <2>1. PICK i \in 1..L, j \in 1..L :
            /\ \E n \in 0..(c[i] - 1) : q = At(i, n)
            /\ \E m \in 0..(c[j] - 1) : r = At(j, m)
    <3> HIDE DEF At
    <3> QED
      BY <1>9
  <2>2. PICK n \in 0..(c[i] - 1) : q = At(i, n)
    BY <2>1
  <2>3. PICK m \in 0..(c[j] - 1) : r = At(j, m)
    BY <2>1
  <2>4. Place(c, base + 1, i, n) = Place(c, base + 1, j, m)
    <3> HIDE DEF At
    <3> QED
      BY <1>8, <1>11, <2>2, <2>3
  <2>5. i = j /\ n = m
    BY <1>6, <2>4
  <2> QED
    BY <2>2, <2>3, <2>5
<1> QED
  BY <1>2, <1>10, <1>11 DEF Apart

\* Numbers in rows of one length are apart.
LEMMA InRows ==
    ASSUME NEW per \in Nat \ {0}, NEW k \in Nat, NEW l \in Nat, NEW w \in 0..(per - 1),
           NEW x \in 0..(per - 1), k * per + w = l * per + x
    PROVE  k = l /\ w = x
<1>1. k * per \in Nat /\ l * per \in Nat
  OBVIOUS
<1>2. ~(k < l)
  <2> SUFFICES ASSUME k + 1 <= l PROVE FALSE
    OBVIOUS
  <2>1. (k + 1) * per <= l * per /\ (k + 1) * per = k * per + per
    BY Products
  <2> QED
    BY <1>1, <2>1
<1>3. ~(l < k)
  <2> SUFFICES ASSUME l + 1 <= k PROVE FALSE
    OBVIOUS
  <2>1. (l + 1) * per <= k * per /\ (l + 1) * per = l * per + per
    BY Products
  <2> QED
    BY <1>1, <2>1
<1> QED
  BY <1>1, <1>2, <1>3

\* The first ids after a base are in the band there.
LEMMA IdInBand ==
    ASSUME NEW base \in Nat, NEW width \in Nat, NEW k \in Nat, k + 1 <= width
    PROVE  (base + 1) + k \in (base + 1)..(base + width)
OBVIOUS

\* Catchments, and the users of them.
LEMMA PeopleAreApart ==
    ASSUME ID_BAND_SAFETY >= 2, NEW s, SizesAre(s), s.per_village < ID_BAND_MIN,
           NEW levels \in Seq(Level), SupervisorsAt(s, levels) # {}, FansOut(levels),
           NEW base \in Nat
    PROVE  Apart(CatchmentsAndUsers(s, levels, base + 1), base, band_width(s))
<1> DEFINE first == base + 1
           people == CatchmentsAndUsers(s, levels, first)
<1>12. PICK c \in Seq(Nat \ {0}), L \in Nat \ {0}, n \in Nat \ {0}, per \in Nat \ {0} :
        \E l \in 1..L : PeopleBy(s, levels, first, c, L, n, per, l)
  BY PeopleIs
<1>13. PICK i \in 1..L : PeopleBy(s, levels, first, c, L, n, per, i)
  BY <1>12
<1>1. /\ c = plan_levels(villages(s), levels) /\ levels # << >> /\ L = Len(c)
      /\ c \in [1..L -> Nat \ {0}] /\ n = villages(s) /\ per = s.per_village
  BY <1>13 DEF PeopleBy, PlannedFor
<1>2. \A r \in people : Person(r, s, c, first, i, n, per)
  BY <1>13 DEF PeopleBy
<1>3. PICK w \in Nat : w = band_width(s) /\ 4 * n <= w /\ n * per + n <= w
  BY <1>1, BandFits
<1>4. PICK d \in Nat \ {0} : d = c[i] /\ d <= n
  <2>1. c[i] \in Nat \ {0} /\ c[i] <= n
    BY <1>1, TreeFits
  <2> QED
    BY <2>1
<1>5. n * per \in Nat /\ \A k \in Nat : k * per \in Nat
  OBVIOUS
<1> DEFINE OfLeaf(r, k) == r = R("catchment", s.org, first + k, Place(c, first, Len(c), k), None, 0)
           Worker(r, k, x) == r = R("users", s.org, first + k * per + x, first + k, None, 0)
           Centre(r, k) == r = R("catchment", s.org, first + n + k, Place(c, first, i, k), None, 0)
           Over(r, k) == r = R("users", s.org, first + n * per + k, first + n + k, None, 1)
<1>6. ASSUME NEW r \in people
      PROVE  \/ \E k \in 0..(n - 1) : OfLeaf(r, k)
             \/ \E k \in 0..(n - 1) : \E x \in 0..(per - 1) : Worker(r, k, x)
             \/ \E k \in 0..(d - 1) : Centre(r, k)
             \/ \E k \in 0..(d - 1) : Over(r, k)
  BY <1>2, <1>4 DEF Person
<1>7. /\ \A r, k : OfLeaf(r, k) => r.table = "catchment" /\ r.id = first + k
      /\ \A r, k, x : Worker(r, k, x) => r.table = "users" /\ r.id = first + k * per + x
      /\ \A r, k : Centre(r, k) => r.table = "catchment" /\ r.id = first + n + k
      /\ \A r, k : Over(r, k) => r.table = "users" /\ r.id = first + n * per + k
  BY DEF R
<1>8. \A q, r : /\ \A k : OfLeaf(q, k) /\ OfLeaf(r, k) => q = r
                /\ \A k, x : Worker(q, k, x) /\ Worker(r, k, x) => q = r
                /\ \A k : Centre(q, k) /\ Centre(r, k) => q = r
                /\ \A k : Over(q, k) /\ Over(r, k) => q = r
  OBVIOUS
<1> HIDE DEF OfLeaf, Worker, Centre, Over
<1>9. \A k \in 0..(n - 1), x \in 0..(per - 1) : k * per + x \in 0..(n * per - 1)
  <2> SUFFICES ASSUME NEW k \in 0..(n - 1), NEW x \in 0..(per - 1)
               PROVE  k * per + x \in 0..(n * per - 1)
    OBVIOUS
  <2>1. k + 1 \in Nat /\ k + 1 <= n
    OBVIOUS
  <2>2. (k + 1) * per <= n * per /\ (k + 1) * per = k * per + per /\ k * per \in Nat
    BY <2>1, Products
  <2>3. PICK a \in Nat, m \in Nat : a = k * per /\ m = n * per /\ a + per <= m
    BY <1>5, <2>2
  <2>4. a + per <= m
    BY <2>3
  <2>5. a + x \in 0..(m - 1)
    BY <2>4
  <2> QED
    BY <2>3, <2>5
<1>10. ASSUME NEW r \in people PROVE r.id \in (base + 1)..(base + w)
  <2>1. ASSUME NEW k \in 0..(n - 1), OfLeaf(r, k) PROVE r.id \in (base + 1)..(base + w)
    <3>1. k \in Nat /\ k + 1 <= n
      OBVIOUS
    <3>2. k + 1 <= w
      BY <1>3, <3>1
    <3> QED
      BY <1>7, <2>1, <3>1, <3>2, IdInBand
  <2>2. ASSUME NEW k \in 0..(n - 1), NEW x \in 0..(per - 1), Worker(r, k, x)
        PROVE  r.id \in (base + 1)..(base + w)
    <3>1. PICK y \in 0..(n * per - 1) : y = k * per + x
      BY <1>9
    <3>2. r.id = first + y
      <4>1. k * per \in Nat /\ x \in Nat
        BY <1>5
      <4> QED
        BY <1>7, <2>2, <3>1, <4>1
    <3>3. PICK m \in Nat : m = n * per /\ m + n <= w
      BY <1>3, <1>5
    <3>4. y \in Nat /\ y + 1 <= m
      BY <3>1, <3>3
    <3>5. m + n <= w
      BY <3>3
    <3>6. y + 1 <= w
      BY <3>4, <3>5
    <3> QED
      BY <3>2, <3>4, <3>6, IdInBand
  <2>3. ASSUME NEW k \in 0..(d - 1), Centre(r, k) PROVE r.id \in (base + 1)..(base + w)
    <3>1. k \in Nat /\ k + 1 <= n
      BY <1>4
    <3>2. PICK y \in Nat : y = n + k /\ y + 1 <= w
      <4>1. 4 * n <= w
        BY <1>3
      <4> QED
        BY <3>1, <4>1
    <3>3. r.id = first + y
      BY <1>7, <2>3, <3>1, <3>2
    <3> QED
      BY <3>2, <3>3, IdInBand
  <2>4. ASSUME NEW k \in 0..(d - 1), Over(r, k) PROVE r.id \in (base + 1)..(base + w)
    <3>1. k \in Nat /\ k + 1 <= n
      BY <1>4
    <3>2. PICK m \in Nat : m = n * per /\ m + n <= w
      BY <1>3, <1>5
    <3>3. m + n <= w
      BY <3>2
    <3>4. PICK y \in Nat : y = m + k /\ y + 1 <= w
      BY <3>1, <3>3
    <3>5. r.id = first + m + k
      BY <1>7, <2>4, <3>2
    <3>6. r.id = first + y
      BY <3>1, <3>4, <3>5
    <3> QED
      BY <3>4, <3>6, IdInBand
  <2> QED
    BY <1>6, <2>1, <2>2, <2>3, <2>4
<1>11. ASSUME NEW q \in people, NEW r \in people, q.table = r.table, q.id = r.id
       PROVE  q = r
  <2>1. CASE q.table = "catchment"
    <3>1. \A u \in people : u.table = "catchment" =>
            \/ \E k \in 0..(n - 1) : OfLeaf(u, k)
            \/ \E k \in 0..(d - 1) : Centre(u, k)
      BY <1>6, <1>7
    <3>2. ASSUME NEW k \in 0..(n - 1), NEW l \in 0..(d - 1), first + k = first + n + l
          PROVE  FALSE
      BY <3>2
    <3>3. \A k, l \in 0..(n - 1) : first + k = first + l => k = l
      OBVIOUS
    <3>4. \A k, l \in 0..(d - 1) : first + n + k = first + n + l => k = l
      OBVIOUS
    <3> HIDE DEF first
    <3>5. ASSUME NEW k \in 0..(n - 1), OfLeaf(q, k) PROVE q = r
      <4>1. \A l \in 0..(d - 1) : ~Centre(r, l)
        BY <1>7, <1>11, <3>2, <3>5
      <4>2. PICK l \in 0..(n - 1) : OfLeaf(r, l)
        BY <1>11, <2>1, <3>1, <4>1
      <4>3. first + k = first + l
        BY <1>7, <1>11, <3>5, <4>2
      <4>4. k = l
        BY <3>3, <4>3
      <4> QED
        BY <1>8, <3>5, <4>2, <4>4
    <3>6. ASSUME NEW k \in 0..(d - 1), Centre(q, k) PROVE q = r
      <4>1. \A l \in 0..(n - 1) : ~OfLeaf(r, l)
        BY <1>7, <1>11, <3>2, <3>6
      <4>2. PICK l \in 0..(d - 1) : Centre(r, l)
        BY <1>11, <2>1, <3>1, <4>1
      <4>3. first + n + k = first + n + l
        BY <1>7, <1>11, <3>6, <4>2
      <4>4. k = l
        BY <3>4, <4>3
      <4> QED
        BY <1>8, <3>6, <4>2, <4>4
    <3> QED
      BY <2>1, <3>1, <3>5, <3>6
  <2>2. CASE q.table = "users"
    <3>1. \A u \in people : u.table = "users" =>
            \/ \E k \in 0..(n - 1) : \E x \in 0..(per - 1) : Worker(u, k, x)
            \/ \E k \in 0..(d - 1) : Over(u, k)
      BY <1>6, <1>7
    <3>2. ASSUME NEW k \in 0..(n - 1), NEW x \in 0..(per - 1), NEW l \in 0..(d - 1),
                 first + k * per + x = first + n * per + l
          PROVE  FALSE
      <4>1. PICK y \in 0..(n * per - 1) : y = k * per + x
        BY <1>9
      <4>2. first + y = first + n * per + l
        <5>1. k * per \in Nat /\ x \in Nat
          BY <1>5
        <5> QED
          BY <3>2, <4>1, <5>1
      <4> QED
        BY <1>5, <4>2
    <3>3. ASSUME NEW k \in 0..(n - 1), NEW x \in 0..(per - 1), NEW l \in 0..(n - 1),
                 NEW y \in 0..(per - 1), first + k * per + x = first + l * per + y
          PROVE  k = l /\ x = y
      <4>1. k \in Nat /\ l \in Nat /\ k * per \in Nat /\ l * per \in Nat
        BY <1>5
      <4>2. k * per + x = l * per + y
        BY <3>3, <4>1
      <4> QED
        BY <4>1, <4>2, InRows
    <3>4. \A k, l \in 0..(d - 1) : first + n * per + k = first + n * per + l => k = l
      BY <1>5
    <3> HIDE DEF first
    <3>5. ASSUME NEW k \in 0..(n - 1), NEW x \in 0..(per - 1), Worker(q, k, x) PROVE q = r
      <4>1. ASSUME NEW l \in 0..(d - 1), Over(r, l) PROVE FALSE
        <5>1. first + k * per + x = first + n * per + l
          BY <1>7, <1>11, <3>5, <4>1
        <5> QED
          BY <3>2, <5>1
      <4>2. PICK l \in 0..(n - 1) : \E y \in 0..(per - 1) : Worker(r, l, y)
        BY <1>11, <2>2, <3>1, <4>1
      <4>3. PICK y \in 0..(per - 1) : Worker(r, l, y)
        BY <4>2
      <4>4. first + k * per + x = first + l * per + y
        BY <1>7, <1>11, <3>5, <4>3
      <4>5. k = l /\ x = y
        BY <3>3, <4>4
      <4> QED
        BY <1>8, <3>5, <4>3, <4>5
    <3>6. ASSUME NEW k \in 0..(d - 1), Over(q, k) PROVE q = r
      <4>1. \A l \in 0..(n - 1) : \A x \in 0..(per - 1) : ~Worker(r, l, x)
        BY <1>7, <1>11, <3>2, <3>6
      <4>2. PICK l \in 0..(d - 1) : Over(r, l)
        BY <1>11, <2>2, <3>1, <4>1
      <4>3. first + n * per + k = first + n * per + l
        BY <1>7, <1>11, <3>6, <4>2
      <4>4. k = l
        BY <3>4, <4>3
      <4> QED
        BY <1>8, <3>6, <4>2, <4>4
    <3> QED
      BY <2>2, <3>1, <3>5, <3>6
  <2> QED
    BY <1>6, <1>7, <2>1, <2>2
<1> QED
  BY <1>3, <1>10, <1>11 DEF Apart

\* What Structure writes for a tenant.
StructureOf(t) ==
    LET new == build_tenant(SpecOf(t), recipe.refs[SpecOf(t).org], Base(t))
    IN new \cup user_group_rows(SpecOf(t).org, {r \in new : r.table = "users"}, Base(t))

LEMMA StructuresOrg ==
    ASSUME IInv, NEW t \in Tenants, Base(t) \in Nat
    PROVE  \A r \in StructureOf(t) : r.org = SpecOf(t).org /\ r.table \notin DrawnTables
<1>1. PICK new : new = build_tenant(SpecOf(t), recipe.refs[SpecOf(t).org], Base(t))
  OBVIOUS
<1>2. PICK users : users = {r \in new : r.table = "users"}
  OBVIOUS
<1>3. new \subseteq RowsIn(Tables, SpecOf(t).org)
  BY <1>1, TenantIs, TenantsRows
<1>4. users \subseteq RowsIn(Tables, SpecOf(t).org)
  BY <1>2, <1>3
<1>5. user_group_rows(SpecOf(t).org, users, Base(t))
        \subseteq RowsIn({"groups", "user_group"}, SpecOf(t).org)
  BY <1>3, <1>4, GroupsRows
<1> QED
  BY <1>1, <1>2, <1>3, <1>5 DEF StructureOf, RowsIn, Tables, DrawnTables

LEMMA StructureIsApart ==
    ASSUME IInv, BandsHaveRoom, NEW t \in Tenants, Base(t) \in Nat
    PROVE  /\ Apart(StructureOf(t), Base(t), band_width(SpecOf(t)))
           /\ \A r \in StructureOf(t) : r.org = SpecOf(t).org /\ r.table \notin DrawnTables
<1>1. PICK s : s = SpecOf(t)
  OBVIOUS
<1>2. PICK ref : ref = recipe.refs[s.org]
  OBVIOUS
<1>3. PICK base \in Nat : base = Base(t)
  OBVIOUS
<1>4. SizesAre(s) /\ IsForest(ref)
  BY <1>1, <1>2, TenantIs
<1>5. PICK levels \in Seq(Level) : levels = establishment(s, ref)
  BY <1>4, EstablishmentIs
<1>6. ID_BAND_SAFETY >= 2 /\ s.per_village < ID_BAND_MIN /\ FansOut(levels)
  BY <1>1, <1>2, <1>5 DEF BandsHaveRoom, IInv, Tenants, SpecOf
<1>7. PICK w \in Nat \ {0} : w = band_width(s)
  BY <1>4, <1>6, BandFits
<1>8. PICK new : new = build_tenant(s, ref, base)
  OBVIOUS
<1>9. PICK users : users = {r \in new : r.table = "users"}
  OBVIOUS
<1>10. PICK groups : groups = user_group_rows(s.org, users, base)
  OBVIOUS
<1>11. StructureOf(t) = new \cup groups
  BY <1>1, <1>2, <1>3, <1>8, <1>9, <1>10 DEF StructureOf
<1>12. /\ new \subseteq RowsIn(Tables, s.org)
       /\ groups \subseteq RowsIn({"groups", "user_group"}, s.org)
  <2>1. new \subseteq RowsIn(Tables, s.org)
    BY <1>4, <1>8, TenantsRows
  <2>2. users \subseteq RowsIn(Tables, s.org)
    BY <1>9, <2>1
  <2> QED
    BY <1>10, <2>1, <2>2, GroupsRows
<1>13. Apart(new, base, w)
  <2>1. CASE levels = << >> \/ SupervisorsAt(s, levels) = {}
    BY <1>5, <1>8, <2>1 DEF build_tenant, Apart
  <2>2. CASE levels # << >> /\ SupervisorsAt(s, levels) # {}
    <3>1. PICK tree, people : /\ tree = build(s, levels, base + 1)
                              /\ people = CatchmentsAndUsers(s, levels, base + 1)
      OBVIOUS
    <3>2. new = tree \cup people
      BY <1>5, <1>8, <2>2, <3>1 DEF build_tenant
    <3>3. Apart(tree, base, w) /\ Apart(people, base, w)
      BY <1>4, <1>6, <1>7, <2>2, <3>1, BuildIsApart, PeopleAreApart
    <3>4. base + 1 \in Nat
      OBVIOUS
    <3>5. /\ tree \subseteq RowsIn({"address_level"}, s.org)
          /\ people \subseteq RowsIn({"catchment", "users"}, s.org)
      BY <1>4, <2>2, <3>1, <3>4, BuildIs, PeopleAre
    <3>6. \A q \in tree, r \in people : q.table # r.table
      BY <3>5 DEF RowsIn
    <3> QED
      BY <3>2, <3>3, <3>6 DEF Apart
  <2> QED
    BY <2>1, <2>2
<1>14. Apart(groups, base, w)
  <2>1. PICK g : g = R("groups", s.org, base + 1, None, None, 0)
    OBVIOUS
  <2> DEFINE Of1(u) == R("user_group", s.org, u.id, u.id, group_id_for(base), 0)
  <2>2. groups = {g} \cup {Of1(u) : u \in users}
    BY <1>10, <2>1 DEF user_group_rows, group_id_for
  <2>3. g.id = base + 1 /\ g.table = "groups"
    BY <2>1 DEF R
  <2>4. \A u : Of1(u).id = u.id /\ Of1(u).table = "user_group"
    BY DEF R
  <2>5. \A u, v : u.id = v.id => Of1(u) = Of1(v)
    OBVIOUS
  <2> HIDE DEF Of1
  <2>6. \A r \in groups : r.id \in (base + 1)..(base + w)
    <3>1. base + 1 \in (base + 1)..(base + w)
      OBVIOUS
    <3>2. \A u \in users : u.id \in (base + 1)..(base + w)
      BY <1>9, <1>13 DEF Apart
    <3> QED
      BY <2>2, <2>3, <2>4, <3>1, <3>2
  <2>7. \A q, r \in groups : q.table = r.table /\ q.id = r.id => q = r
    BY <2>2, <2>3, <2>4, <2>5
  <2> QED
    BY <2>6, <2>7 DEF Apart
<1>15. \A q \in new, r \in groups : q.table # r.table
  BY <1>12 DEF RowsIn, Tables
<1>16. Apart(new \cup groups, base, w)
  BY <1>13, <1>14, <1>15 DEF Apart
<1>17. \A r \in new \cup groups : r.org = s.org /\ r.table \notin DrawnTables
  BY <1>12 DEF RowsIn, Tables, DrawnTables
<1> QED
  BY <1>1, <1>3, <1>7, <1>11, <1>16, <1>17

\* A row that was not drawn is of some tenant's structure.
TreeInv == \A r \in rows : r.table \in DrawnTables \/ \E t \in Written : r \in StructureOf(t)

\* Once ids are planned, no tenant's rows are unwritten.
LEMMA WrittenGrow ==
    ASSUME RowInv, pc # "ids", [Next]_vars
    PROVE  /\ UNCHANGED <<recipe, bases>> /\ Written \subseteq Written' /\ rows \subseteq rows'
           /\ rows' = rows \/ Draw \/ (Structure /\ pc' = "village")
           /\ \/ Written' = Written
              \/ Structure /\ pc' = "village" /\ Written' = Written \cup {tenant}
<1>0. Len(recipe.tenants) \in Nat
  BY DatasetAssumption DEF RowInv, IInv
<1>1. tenant \in Nat
  BY <1>0 DEF RowInv, FeedInv
<1>2. CASE Draw
  BY <1>2, DrawCounts, DrawAdds DEF Written, Tenants, RowInv
<1>3. CASE VillageDone
  BY <1>0, <1>1, <1>3 DEF VillageDone, Written, Tenants
<1>4. CASE Structure
  <2>1. CASE pc' = "village"
    BY <1>0, <1>4, <2>1 DEF Structure, Written, Tenants
  <2>2. CASE pc' # "village"
    BY <1>4, <2>2 DEF Structure, Written, Tenants
  <2> QED
    BY <2>1, <2>2
<1>5. CASE feeder_csv
  BY <1>5 DEF feeder_csv, Written, Tenants
<1>6. CASE \E ref \in Reimports, org \in DOMAIN refs : Reimport(org, ref)
  BY <1>6 DEF Reimport, Written, Tenants
<1>7. CASE UNCHANGED vars
  BY <1>7 DEF vars, Written, Tenants
<1>8. ~plan_ids /\ ~Planned
  BY DEF plan_ids, Planned
<1> QED
  BY <1>2, <1>3, <1>4, <1>5, <1>6, <1>7, <1>8 DEF Next

LEMMA TreeStep == RowInv /\ TreeInv /\ [Next]_vars => TreeInv'
<1> SUFFICES ASSUME RowInv, TreeInv, [Next]_vars PROVE TreeInv'
  OBVIOUS
<1>0. Len(recipe.tenants) \in Nat
  BY DatasetAssumption DEF RowInv, IInv
<1>1. CASE pc = "ids"
  <2>1. rows' = {}
    BY <1>1, WhatIsDrawn, DrawCounts DEF RowInv
  <2> QED
    BY <2>1 DEF TreeInv
<1>2. CASE pc # "ids"
  <2>1. UNCHANGED <<recipe, bases>> /\ Written \subseteq Written'
    BY <1>2, WrittenGrow
  <2>2. \A t : StructureOf(t)' = StructureOf(t)
    BY <2>1, SameTenant DEF StructureOf
  <2>3. ASSUME NEW r \in rows'
        PROVE  r.table \in DrawnTables \/ \E t \in Written' : r \in StructureOf(t)
    <3>1. CASE r \in rows
      BY <2>1, <3>1 DEF TreeInv
    <3>2. CASE Draw /\ r \notin rows
      <4>1. PICK new : rows' = rows \cup new
                       /\ \A q \in new : \E table \in DrawnTables : Fresh(q, table)
        BY <3>2, DrawAdds DEF RowInv
      <4>2. r \in new
        BY <3>2, <4>1
      <4>3. PICK table \in DrawnTables : Fresh(r, table)
        BY <4>1, <4>2
      <4> QED
        BY <4>3 DEF Fresh, RowsIn
    <3>3. CASE Structure /\ pc' = "village" /\ r \notin rows
      <4>1. r \in StructureOf(tenant)
        BY <3>3, StructureRows DEF StructureOf, RowInv
      <4>2. tenant \in Written'
        BY <1>0, <2>1, <3>3 DEF Structure, Written, Tenants
      <4> QED
        BY <4>1, <4>2
    <3> QED
      BY <1>2, <3>1, <3>2, <3>3, WrittenGrow
  <2> QED
    BY <2>2, <2>3 DEF TreeInv
<1> QED
  BY <1>1, <1>2

\* No table outgrows what the villages so far may hold: one subject at most, and with it
\* one enrolment, or one encounter, for each that was lacking.
PerVillage(table, t) ==
    IF table \in {"individual", "program_enrolment"} THEN SpecOf(t).beneficiaries ELSE ShareOf(t)
Lacked(table) == IF table \in {"individual", "program_enrolment"} THEN left[1] ELSE left[2]
Reached(table, t) ==
    IF t = tenant THEN village * PerVillage(table, t) + (PerVillage(table, t) - Lacked(table))
    ELSE villages(SpecOf(t)) * PerVillage(table, t)
TotalInv ==
    \A t \in Written : \A table \in DrawnTables : Cardinality(Drawn(table, t)) <= Reached(table, t)

\* A tenant's numbers.
LEMMA PerVillageIs ==
    ASSUME RowInv, NEW t \in Tenants, NEW table \in DrawnTables
    PROVE  PerVillage(table, t) \in Nat /\ villages(SpecOf(t)) \in Nat \ {0}
BY TenantIs DEF RowInv, PerVillage

\* At a village, what is lacking is at most its share.
LEMMA LackedIs ==
    ASSUME RowInv, pc = "village", NEW table \in DrawnTables
    PROVE  /\ tenant \in Tenants /\ village \in 0..(villages(SpecOf(tenant)) - 1)
           /\ Lacked(table) \in 0..PerVillage(table, tenant)
<1>1. tenant \in Tenants
  BY DEF RowInv, FeedInv
<1>2. PICK b \in Nat, s \in Nat : b = SpecOf(tenant).beneficiaries /\ s = ShareOf(tenant)
  BY <1>1, TenantIs DEF RowInv
<1>3. left \in (0..b) \X (0..s)
  BY <1>2 DEF RowInv, PlaceInv, Counted, Subjects, Share, This, ShareOf
<1> QED
  BY <1>1, <1>2, <1>3 DEF RowInv, PlaceInv, Counted, VillagesOf, Lacked, PerVillage

LEMMA TotalDraw ==
    ASSUME RowInv, IdInv, TotalInv, Draw PROVE TotalInv'
<1>1. PICK new : DrawnAs(new)
  BY DrawIs
<1>2. pc = "village" /\ UNCHANGED <<recipe, pc, bases, tenant, village>>
  BY DrawCounts DEF RowInv
<1>3. Written' = Written /\ tenant \in Tenants
  BY <1>2, LackedIs DEF Written, Tenants, DrawnTables
<1> SUFFICES ASSUME NEW t \in Written, NEW table \in DrawnTables
             PROVE  Cardinality(Drawn(table, t)') <= Reached(table, t)'
  BY <1>3 DEF TotalInv
<1>4. PerVillage(table, t)' = PerVillage(table, t) /\ villages(SpecOf(t)') = villages(SpecOf(t))
  BY <1>2, SameTenant DEF PerVillage
<1>5. /\ t # tenant => Drawn(table, t)' = Drawn(table, t)
      /\ t = tenant => Drawn(table, t)' = Drawn(table, t) \cup New(new, table)
  BY <1>1, <1>2, AddsTo DEF DrawnAs
<1>6. CASE t # tenant
  BY <1>2, <1>4, <1>5, <1>6 DEF TotalInv, Reached
<1>7. CASE t = tenant
  <2>1. PICK k \in Nat, p \in Nat, m \in Nat :
            k = village /\ p = PerVillage(table, t) /\ m = Lacked(table) /\ m <= p
    BY <1>2, <1>3, <1>7, LackedIs, PerVillageIs
  <2>2. PICK n \in Nat : n = Cardinality(Drawn(table, t)) /\ IsFiniteSet(Drawn(table, t))
    BY DrawnAreFinite DEF RowInv
  <2>3. k * p \in Nat /\ n <= k * p + (p - m)
    BY <1>7, <2>1, <2>2 DEF TotalInv, Reached
  <2>4. CASE New(new, table) = {} /\ Lacked(table)' \in {m, m - 1}
    <3>1. PICK l \in Int : l = Lacked(table)' /\ l <= m
      BY <2>1, <2>4
    <3>2. Reached(table, t)' = k * p + (p - l)
      BY <1>2, <1>4, <1>7, <2>1, <3>1 DEF Reached
    <3>3. Drawn(table, t)' = Drawn(table, t)
      BY <1>5, <1>7, <2>4
    <3> QED
      BY <2>1, <2>2, <2>3, <3>1, <3>2, <3>3
  <2>5. CASE Lacked(table)' = m - 1 /\ \E r : New(new, table) = {r} /\ Fresh(r, table)
    <3>1. PICK r : New(new, table) = {r} /\ Fresh(r, table)
      BY <2>5
    <3>2. r \notin Drawn(table, t)
      BY <1>2, <3>1, FreshIsNew DEF Drawn
    <3>3. Cardinality(Drawn(table, t) \cup {r}) = n + 1
      BY <2>2, <3>2, FS_AddElement
    <3>4. Cardinality(Drawn(table, t)') = n + 1
      <4>1. Drawn(table, t)' = Drawn(table, t) \cup {r}
        BY <1>5, <1>7, <3>1
      <4> QED
        BY <3>3, <4>1
    <3>5. Reached(table, t)' = k * p + (p - (m - 1))
      BY <1>2, <1>4, <1>7, <2>1, <2>5 DEF Reached
    <3> QED
      BY <2>1, <2>3, <3>4, <3>5
  <2>6. /\ New(new, table) = {} \/ \E r : New(new, table) = {r} /\ Fresh(r, table)
        /\ \/ Lacked(table)' = m - 1
           \/ Lacked(table)' = m /\ New(new, table) = {}
    <3>1. New(new, table) = {} \/ \E r : New(new, table) = {r} /\ Fresh(r, table)
      BY <1>1 DEF DrawnAs
    <3>2. CASE SubjectDrawn(new)
      BY <2>1, <3>1, <3>2 DEF SubjectDrawn, Lacked, DrawnTables
    <3>3. CASE EncounterDrawn(new)
      <4>1. CASE table \in {"individual", "program_enrolment"}
        BY <2>1, <3>3, <4>1 DEF EncounterDrawn, Lacked
      <4>2. CASE table \notin {"individual", "program_enrolment"}
        BY <2>1, <3>1, <3>3, <4>2 DEF EncounterDrawn, Lacked
      <4> QED
        BY <3>1, <4>1, <4>2
    <3> QED
      BY <1>1, <3>1, <3>2, <3>3 DEF DrawnAs
  <2> QED
    BY <2>4, <2>5, <2>6
<1> QED
  BY <1>6, <1>7

\* The tenant that begins has no row drawn.
LEMMA TotalStructure ==
    ASSUME RowInv, TotalInv, Structure, pc' = "village", NothingDrawn PROVE TotalInv'
<1>0. Len(recipe.tenants) \in Nat
  BY DatasetAssumption DEF RowInv, IInv
<1>1. /\ pc = "tenant" /\ tenant \in Tenants /\ UNCHANGED <<recipe, bases, tenant>>
      /\ village' = 0 /\ left' = <<Subjects, Share>>
  BY DEF Structure
<1>2. Written' = Written \cup {tenant} /\ tenant \notin Written
  BY <1>0, <1>1 DEF Written, Tenants
<1> SUFFICES ASSUME NEW t \in Written', NEW table \in DrawnTables
             PROVE  Cardinality(Drawn(table, t)') <= Reached(table, t)'
  BY DEF TotalInv
<1>3. Drawn(table, t)' = Drawn(table, t)
  BY <1>1, DrawnStay
<1>4. PerVillage(table, t)' = PerVillage(table, t) /\ villages(SpecOf(t)') = villages(SpecOf(t))
  BY <1>1, SameTenant DEF PerVillage
<1>5. CASE t # tenant
  BY <1>1, <1>2, <1>3, <1>4, <1>5 DEF TotalInv, Reached
<1>6. CASE t = tenant
  <2>1. \A u \in Written : SpecOf(u).org # SpecOf(tenant).org
    BY <1>1, <1>2, BasesAre DEF RowInv, Written
  <2>2. \A r \in rows : r.table \in DrawnTables => r.org # SpecOf(tenant).org
    BY <2>1 DEF RowInv, PlaceInv
  <2>3. Drawn(table, t)' = {}
    BY <1>3, <1>6, <2>2 DEF Drawn
  <2>4. PICK p \in Nat : p = PerVillage(table, t)
    BY <1>1, <1>6, PerVillageIs
  <2>5. Lacked(table)' = p
    BY <1>1, <1>6, <2>4 DEF Lacked, PerVillage, Subjects, Share, This, ShareOf
  <2>6. Reached(table, t)' = 0 * p + (p - p)
    BY <1>1, <1>4, <1>6, <2>4, <2>5 DEF Reached
  <2> QED
    BY <2>3, <2>4, <2>6, FS_EmptySet
<1> QED
  BY <1>5, <1>6

\* At the end of a village all it may hold is counted, whether or not it holds it.
LEMMA TotalDone ==
    ASSUME RowInv, TotalInv, VillageDone PROVE TotalInv'
<1>0. Len(recipe.tenants) \in Nat
  BY DatasetAssumption DEF RowInv, IInv
<1>1. pc = "village" /\ tenant \in Tenants /\ UNCHANGED <<recipe, bases, rows>>
  BY DEF VillageDone, RowInv, FeedInv
<1>2. NothingDrawn
  BY <1>1 DEF NothingDrawn, Of
<1>3. Written' = Written
  BY <1>0, <1>1 DEF VillageDone, Written, Tenants
<1> SUFFICES ASSUME NEW t \in Written, NEW table \in DrawnTables
             PROVE  Cardinality(Drawn(table, t)') <= Reached(table, t)'
  BY <1>3 DEF TotalInv
<1>4. Drawn(table, t)' = Drawn(table, t)
  BY <1>1, <1>2, DrawnStay
<1>5. PerVillage(table, t)' = PerVillage(table, t) /\ villages(SpecOf(t)') = villages(SpecOf(t))
  BY <1>1, SameTenant DEF PerVillage
<1>6. t \in Tenants /\ tenant \in Int /\ (t = tenant \/ t < tenant)
  BY <1>0, <1>1 DEF Written, Tenants
<1>7. tenant' = tenant \/ tenant' = tenant + 1
  BY DEF VillageDone
<1>8. CASE t # tenant
  <2>1. t # tenant'
    BY <1>6, <1>7, <1>8 DEF Tenants
  <2> QED
    BY <1>4, <1>5, <1>8, <2>1 DEF TotalInv, Reached
<1>9. CASE t = tenant
  <2>1. PICK k \in Nat, p \in Nat, m \in Nat, v \in Nat \ {0} :
            /\ k = village /\ p = PerVillage(table, t) /\ m = Lacked(table) /\ m <= p
            /\ v = villages(SpecOf(t)) /\ k <= v - 1
    BY <1>1, <1>9, LackedIs, PerVillageIs
  <2>2. PICK n \in Nat : n = Cardinality(Drawn(table, t))
    BY DrawnAreFinite DEF RowInv
  <2>3. k * p \in Nat /\ n <= k * p + (p - m) /\ (k + 1) * p = k * p + p
    BY <1>9, <2>1, <2>2 DEF TotalInv, Reached
  <2>4. CASE village' = village + 1 /\ left' = <<Subjects, Share>> /\ tenant' = tenant
    <3>1. Lacked(table)' = p
      BY <1>1, <1>9, <2>1, <2>4 DEF Lacked, PerVillage, Subjects, Share, This, ShareOf
    <3>2. Reached(table, t)' = (k + 1) * p + (p - p)
      BY <1>5, <1>9, <2>1, <2>4, <3>1 DEF Reached
    <3> QED
      BY <1>4, <2>1, <2>2, <2>3, <3>2
  <2>5. CASE village + 1 >= villages(This) /\ tenant' = tenant + 1
    <3>1. k + 1 = v
      BY <1>9, <2>1, <2>5 DEF This
    <3>2. t # tenant'
      BY <1>6, <1>9, <2>5
    <3>3. Reached(table, t)' = (k + 1) * p
      BY <1>5, <2>1, <3>1, <3>2 DEF Reached
    <3> QED
      BY <1>4, <2>1, <2>2, <2>3, <3>3
  <2> QED
    BY <2>4, <2>5 DEF VillageDone
<1> QED
  BY <1>8, <1>9

LEMMA TotalStep == RowInv /\ IdInv /\ TotalInv /\ [Next]_vars => TotalInv'
<1> SUFFICES ASSUME RowInv, IdInv, TotalInv, [Next]_vars PROVE TotalInv'
  OBVIOUS
<1>0. Len(recipe.tenants) \in Nat
  BY DatasetAssumption DEF RowInv, IInv
<1>1. CASE Draw
  BY <1>1, TotalDraw
<1>2. CASE Written' = {}
  BY <1>2 DEF TotalInv
<1>3. CASE VillageDone
  BY <1>3, TotalDone
<1>4. CASE pc # "ids" /\ UNCHANGED <<recipe, bases>> /\ NothingDrawn
  <2>1. ASSUME UNCHANGED <<tenant, village, left>>, Written' = Written
        PROVE  TotalInv'
    <3> SUFFICES ASSUME NEW t \in Written, NEW table \in DrawnTables
                 PROVE  Cardinality(Drawn(table, t)') <= Reached(table, t)'
      BY <2>1 DEF TotalInv
    <3>1. Drawn(table, t)' = Drawn(table, t)
      BY <1>4, DrawnStay
    <3>2. PerVillage(table, t)' = PerVillage(table, t)
          /\ villages(SpecOf(t)') = villages(SpecOf(t)) /\ Lacked(table)' = Lacked(table)
      BY <1>4, <2>1, SameTenant DEF PerVillage, Lacked
    <3> QED
      BY <2>1, <3>1, <3>2 DEF TotalInv, Reached
  <2>2. ASSUME pc # "village", pc' # "village", pc' # "ids", tenant' = tenant
        PROVE  TotalInv'
    <3>1. Written' = Written /\ \A t \in Written : t # tenant /\ t # tenant'
      BY <1>0, <1>4, <2>2 DEF Written, Tenants
    <3> SUFFICES ASSUME NEW t \in Written, NEW table \in DrawnTables
                 PROVE  Cardinality(Drawn(table, t)') <= Reached(table, t)'
      BY <3>1 DEF TotalInv
    <3>2. Drawn(table, t)' = Drawn(table, t)
      BY <1>4, DrawnStay
    <3>3. PerVillage(table, t)' = PerVillage(table, t)
          /\ villages(SpecOf(t)') = villages(SpecOf(t))
      BY <1>4, SameTenant DEF PerVillage
    <3> QED
      BY <3>1, <3>2, <3>3 DEF TotalInv, Reached
  <2>3. CASE UNCHANGED vars
    <3>1. UNCHANGED <<tenant, village, left>> /\ Written' = Written
      BY <1>4, <2>3 DEF vars, Written, Tenants
    <3> QED
      BY <2>1, <3>1
  <2>4. CASE Structure /\ pc' = "village"
    BY <1>4, <2>4, TotalStructure
  <2>5. CASE Structure /\ pc' # "village"
    <3>1. pc' = "refused" /\ pc = "tenant" /\ tenant' = tenant
      BY <2>5 DEF Structure
    <3> QED
      BY <2>2, <3>1
  <2>6. CASE feeder_csv
    <3>1. pc' \in {"refused", "done"} /\ pc # "village" /\ tenant' = tenant
      BY <2>6 DEF feeder_csv
    <3> QED
      BY <2>2, <3>1
  <2>7. CASE \E ref \in Reimports, org \in DOMAIN refs : Reimport(org, ref)
    <3>1. pc' = "done" /\ pc = "done" /\ tenant' = tenant
      BY <2>7 DEF Reimport
    <3> QED
      BY <2>2, <3>1
  <2>8. ~plan_ids /\ ~Planned
    BY <1>4 DEF plan_ids, Planned
  <2> QED
    BY <1>1, <1>3, <2>3, <2>4, <2>5, <2>6, <2>7, <2>8 DEF Next
<1> QED
  BY <1>1, <1>2, <1>4, WhatIsDrawn

\* What a tenant is drawn fits its band.
LEMMA DrawnFit ==
    ASSUME RowInv, TotalInv, BandsHaveRoom, NEW t \in Written, NEW table \in DrawnTables
    PROVE  Cardinality(Drawn(table, t)) <= band_width(SpecOf(t))
<1>1. t \in Tenants /\ (t = tenant => pc = "village")
  <2>1. Len(recipe.tenants) \in Nat
    BY DatasetAssumption DEF RowInv, IInv
  <2> QED
    BY <2>1 DEF Written, Tenants
<1>2. PICK s : s = SpecOf(t)
  OBVIOUS
<1>3. SizesAre(s) /\ s.per_village < ID_BAND_MIN /\ ID_BAND_SAFETY >= 2
  BY <1>1, <1>2, TenantIs DEF BandsHaveRoom, RowInv, IInv, Tenants, SpecOf
<1>4. PICK v \in Nat \ {0}, p \in Nat, w \in Nat :
          /\ v = villages(s) /\ p = PerVillage(table, t) /\ w = band_width(s)
          /\ beneficiaries(s) <= w /\ encounters(s) <= w
  BY <1>1, <1>2, <1>3, PerVillageIs, BandFits
<1>5. v * p \in Nat /\ v * p <= w
  <2>1. CASE table \in {"individual", "program_enrolment"}
    <3>1. p = s.beneficiaries
      BY <1>2, <1>4, <2>1 DEF PerVillage
    <3>2. beneficiaries(s) = v * p
      BY <1>4, <3>1 DEF beneficiaries
    <3> QED
      BY <1>4, <3>2
  <2>2. CASE table \notin {"individual", "program_enrolment"}
    <3>1. PICK e \in Nat : e = encounters(s)
      <4>1. s.field_workers * s.rate \in Nat
        BY <1>3 DEF SizesAre
      <4> QED
        BY <1>3, <4>1 DEF SizesAre, encounters, None
    <3>2. p = e \div v
      BY <1>2, <1>4, <2>2, <3>1 DEF PerVillage, ShareOf
    <3>3. e = v * (e \div v) + (e % v) /\ e % v \in Nat /\ v * (e \div v) \in Nat
      OBVIOUS
    <3> QED
      BY <1>4, <3>1, <3>2, <3>3
  <2> QED
    BY <2>1, <2>2
<1>6. PICK n \in Nat : n = Cardinality(Drawn(table, t)) /\ n <= Reached(table, t)
  BY DrawnAreFinite DEF RowInv, TotalInv
<1>7. CASE t # tenant
  BY <1>2, <1>4, <1>5, <1>6, <1>7 DEF Reached
<1>8. CASE t = tenant
  <2>1. PICK k \in Nat, m \in Nat : k = village /\ m = Lacked(table) /\ k + 1 <= v
    BY <1>1, <1>2, <1>4, <1>8, LackedIs, PerVillageIs
  <2>2. (k + 1) * p <= v * p /\ (k + 1) * p = k * p + p /\ k * p \in Nat
    BY <2>1, Products
  <2>3. n <= k * p + (p - m)
    BY <1>4, <1>6, <1>8, <2>1 DEF Reached
  <2> QED
    BY <1>2, <1>4, <1>5, <1>6, <2>1, <2>2, <2>3
<1> QED
  BY <1>7, <1>8

\* A row is in the band of the one tenant whose it is, where it has its id to itself.
RowOf(r, t) == r.org = SpecOf(t).org
LEMMA InBand ==
    ASSUME RowInv, IdInv, TreeInv, TotalInv, BandsHaveRoom, NEW r \in rows
    PROVE  \E t \in Tenants : /\ RowOf(r, t) /\ Base(t) \in Nat /\ band_width(SpecOf(t)) \in Nat
                              /\ r.id \in (Base(t) + 1)..(Base(t) + band_width(SpecOf(t)))
                              /\ r.table \notin DrawnTables => r \in StructureOf(t)
<1>1. pc # "ids" /\ \A t \in Written : t \in Tenants
  BY DEF RowInv, FeedInv, Written
<1>2. \A t \in Tenants : Base(t) \in Nat /\ band_width(SpecOf(t)) \in Nat
  BY <1>1, BasesAre, WidthIsPositive DEF RowInv, IInv, SpecOf, Tenants
<1>3. CASE r.table \in DrawnTables
  <2>1. PICK t \in Written : RowOf(r, t)
    BY <1>3 DEF RowInv, PlaceInv, RowOf
  <2>2. r \in Drawn(r.table, t)
    BY <2>1 DEF Drawn, RowOf
  <2>3. PICK b \in Nat, n \in Nat, w \in Nat :
            /\ b = Base(t) /\ n = Cardinality(Drawn(r.table, t)) /\ w = band_width(SpecOf(t))
            /\ n <= w
    BY <1>1, <1>2, <1>3, DrawnAreFinite, DrawnFit DEF RowInv
  <2>4. r.id \in (b + 1)..(b + n)
    BY <1>1, <1>3, <2>2, <2>3 DEF IdInv
  <2>5. r.id \in (b + 1)..(b + w)
    BY <2>3, <2>4
  <2> QED
    BY <1>1, <1>2, <1>3, <2>1, <2>3, <2>5
<1>4. CASE r.table \notin DrawnTables
  <2>1. PICK t \in Written : r \in StructureOf(t)
    BY <1>4 DEF TreeInv
  <2>2. Apart(StructureOf(t), Base(t), band_width(SpecOf(t))) /\ RowOf(r, t)
    BY <1>1, <1>2, <2>1, StructureIsApart DEF RowInv, RowOf
  <2> QED
    BY <1>1, <1>2, <2>1, <2>2 DEF Apart
<1> QED
  BY <1>3, <1>4

LEMMA ApartImplies ==
    RowInv /\ IdInv /\ TreeInv /\ TotalInv /\ BandsHaveRoom => IdsNeverCollide
<1> SUFFICES ASSUME RowInv, IdInv, TreeInv, TotalInv, BandsHaveRoom PROVE IdsNeverCollide
  OBVIOUS
<1>1. BandsAreDisjoint
  BY IInvImpliesBands DEF RowInv
<1>2. ASSUME NEW r \in rows
      PROVE  \E t \in Tenants :
               SpecOf(t).org = r.org /\ r.id - bases[r.org] \in 1..band_width(SpecOf(t))
  <2>1. PICK t \in Tenants :
          /\ RowOf(r, t) /\ Base(t) \in Nat /\ band_width(SpecOf(t)) \in Nat
          /\ r.id \in (Base(t) + 1)..(Base(t) + band_width(SpecOf(t)))
    BY <1>2, InBand
  <2>2. PICK b \in Nat, w \in Nat, i \in Nat :
          b = Base(t) /\ w = band_width(SpecOf(t)) /\ i = r.id /\ i \in (b + 1)..(b + w)
    BY <2>1
  <2>3. i - b \in 1..w
    BY <2>2
  <2> QED
    BY <2>1, <2>2, <2>3 DEF RowOf, Base
<1>3. ASSUME NEW q \in rows, NEW r \in rows, q.table = r.table, q.id = r.id
      PROVE  q = r
  <2>1. PICK t \in Tenants :
          /\ RowOf(q, t) /\ Base(t) \in Nat /\ band_width(SpecOf(t)) \in Nat
          /\ q.id \in (Base(t) + 1)..(Base(t) + band_width(SpecOf(t)))
          /\ q.table \notin DrawnTables => q \in StructureOf(t)
    BY InBand
  <2>2. PICK u \in Tenants :
          /\ RowOf(r, u) /\ Base(u) \in Nat /\ band_width(SpecOf(u)) \in Nat
          /\ r.id \in (Base(u) + 1)..(Base(u) + band_width(SpecOf(u)))
          /\ r.table \notin DrawnTables => r \in StructureOf(u)
    BY InBand
  <2>3. pc # "ids"
    BY DEF RowInv, FeedInv
  <2>4. t = u
    <3> SUFFICES ASSUME t # u PROVE FALSE
      OBVIOUS
    <3>1. SpecOf(t).org \in DOMAIN bases /\ SpecOf(u).org \in DOMAIN bases
      BY <2>3 DEF RowInv, PlaceInv
    <3>2. t \in Int /\ u \in Int
      BY DatasetAssumption DEF RowInv, IInv, Tenants
    <3>3. PICK b \in Nat, c \in Nat, w \in Nat, x \in Nat :
              /\ b = Base(t) /\ w = band_width(SpecOf(t))
              /\ c = Base(u) /\ x = band_width(SpecOf(u))
      BY <2>1, <2>2
    <3>4. b + w <= c \/ c + x <= b
      BY <3>1, <3>2, <3>3, <1>1 DEF BandsAreDisjoint, Base
    <3>5. q.id \in (b + 1)..(b + w) /\ q.id \in (c + 1)..(c + x)
      BY <1>3, <2>1, <2>2, <3>3
    <3> QED
      BY <3>3, <3>4, <3>5
  <2>5. CASE r.table \in DrawnTables
    <3>1. q \in Drawn(r.table, t) /\ r \in Drawn(r.table, t)
      BY <1>3, <2>1, <2>2, <2>4 DEF Drawn, RowOf
    <3> QED
      BY <1>3, <2>5, <3>1 DEF IdInv
  <2>6. CASE r.table \notin DrawnTables
    <3>1. q \in StructureOf(t) /\ r \in StructureOf(t)
      BY <1>3, <2>1, <2>2, <2>4, <2>6
    <3>2. Apart(StructureOf(t), Base(t), band_width(SpecOf(t)))
      BY <2>1, StructureIsApart DEF RowInv
    <3> QED
      BY <1>3, <3>1, <3>2 DEF Apart
  <2> QED
    BY <2>5, <2>6
<1> QED
  BY <1>1, <1>2, <1>3 DEF IdsNeverCollide

\* Whatever the deployment holds and however the rng draws, if its bands have room then
\* every row that write_dataset writes has an id of its organisation's band, and no two
\* rows of a table, of one organisation or of two, have the same.
THEOREM IdsStayApart == ASSUME BandsHaveRoom PROVE Spec => []IdsNeverCollide
<1>1. RowInv /\ IdInv /\ TreeInv /\ TotalInv => IdsNeverCollide
  BY ApartImplies
<1>2. Init => RowInv /\ IdInv /\ TreeInv /\ TotalInv
  <2>1. Init => RowInv /\ IdInv
    BY InitIInv, InitFeedInv, InitPlaceInv, InitShareInv DEF RowInv
  <2>2. Init => TreeInv /\ TotalInv
    BY DEF Init, TreeInv, TotalInv, Written
  <2> QED
    BY <2>1, <2>2
<1>3. RowInv /\ IdInv /\ TreeInv /\ TotalInv /\ [Next]_vars
         => (RowInv /\ IdInv /\ TreeInv /\ TotalInv)'
  <2>1. RowInv /\ [Next]_vars => RowInv'
    BY NextIInv, FeedStep, PlaceStep DEF RowInv
  <2> QED
    BY <2>1, IdStep, TreeStep, TotalStep
<1> QED
  BY <1>1, <1>2, <1>3, PTL DEF Spec
-----------------------------------------------------------------------------
(* Who syncs a subject: the walk up from its village, and who is met on it. *)

IdsOf(tree) == {l.id : l \in tree}
OnOf(tree, id) == LocationOf(tree, id).on

\* In a tree of which no location hangs on one that is not there, the walk up from each is
\* itself and then the walk up from what it hangs on.
LEMMA UpwardsIs ==
    ASSUME NEW tree, \A i \in IdsOf(tree) : OnOf(tree, i) \in IdsOf(tree) \cup {None}
    PROVE  \A i \in IdsOf(tree) :
             Upwards(tree, i) = {i} \cup IF OnOf(tree, i) = None THEN {}
                                         ELSE Upwards(tree, OnOf(tree, i))
<1> DEFINE ids == IdsOf(tree)
           on(i) == OnOf(tree, i)
           Walk(g) == [i \in ids |-> {i} \cup IF on(i) = None THEN {} ELSE g[on(i)]]
           Closed(S) == \A i \in S : on(i) # None => on(i) \in S
           Over(i) == {x \in ids : \A S \in SUBSET ids : i \in S /\ Closed(S) => x \in S}
           g == [i \in ids |-> Over(i)]
           up == CHOOSE h : h = Walk(h)
<1>1. ASSUME NEW i \in ids PROVE Over(i) = {i} \cup IF on(i) = None THEN {} ELSE Over(on(i))
  <2>1. i \in Over(i)
    OBVIOUS
  <2>2. CASE on(i) = None
    <3>1. Closed({i}) /\ {i} \in SUBSET ids
      BY <2>2
    <3>2. Over(i) \subseteq {i}
      <4> HIDE DEF Closed
      <4> QED
        BY <3>1
    <3> HIDE DEF Over
    <3> QED
      BY <2>1, <2>2, <3>2
  <2>3. CASE on(i) # None
    <3>1. on(i) \in ids
      BY <2>3
    <3>2. Over(on(i)) \subseteq Over(i)
      <4> SUFFICES ASSUME NEW x \in Over(on(i)), NEW S \in SUBSET ids, i \in S, Closed(S)
                   PROVE  x \in S
        OBVIOUS
      <4>1. on(i) \in S
        BY <2>3
      <4> QED
        BY <4>1
    <3>3. Closed({i} \cup Over(on(i)))
      <4> SUFFICES ASSUME NEW x \in Over(on(i)), on(x) # None PROVE on(x) \in Over(on(i))
        BY <2>1, <3>1
      <4>1. on(x) \in ids
        OBVIOUS
      <4> QED
        BY <4>1
    <3>4. Over(i) \subseteq {i} \cup Over(on(i))
      <4>1. {i} \cup Over(on(i)) \in SUBSET ids
        OBVIOUS
      <4> HIDE DEF Closed
      <4> QED
        BY <3>3, <4>1
    <3> HIDE DEF Over
    <3> QED
      BY <2>1, <2>3, <3>2, <3>4
  <2> QED
    BY <2>2, <2>3
<1>2. g = Walk(g)
  <2> HIDE DEF Over
  <2> QED
    BY <1>1
<1>3. up = Walk(up)
  <2> HIDE DEF Walk, g
  <2> QED
    BY <1>2
<1>4. \A i : Upwards(tree, i) = up[i]
  BY DEF Upwards, IdsOf, OnOf
<1>5. \A i \in ids : up[i] = {i} \cup IF on(i) = None THEN {} ELSE up[on(i)]
  <2> HIDE DEF up, on
  <2> QED
    BY <1>3
<1> QED
  BY <1>4, <1>5

\* The location at a place, and what is met on the walk up from it: one place a level.
Spots(c, i) == 0..(c[i] - 1)
Location(s, c, first, i, n) ==
    R("address_level", s.org, Place(c, first, i, n),
      IF i = 1 THEN None ELSE Place(c, first, i - 1, n % c[i - 1]), i, 0)
TreeOf(s, c, first) ==
    UNION {{Location(s, c, first, i, n) : n \in Spots(c, i)} : i \in 1..Len(c)}
Branch(tree, c, first, i, n) ==
    \E f \in [1..i -> Nat] :
      /\ f[i] = n /\ \A j \in 1..i : f[j] \in Spots(c, j)
      /\ Upwards(tree, Place(c, first, i, n)) = {Place(c, first, j, f[j]) : j \in 1..i}
LEMMA BranchIs ==
    ASSUME NEW s, NEW c \in Seq(Nat \ {0}), c # << >>, NEW first \in Nat, NEW tree,
           tree = TreeOf(s, c, first)
    PROVE  \A i \in 1..Len(c) : \A n \in Spots(c, i) :
             /\ LocationOf(tree, Place(c, first, i, n)) = Location(s, c, first, i, n)
             /\ \A l \in tree : l.id = Place(c, first, i, n) => l = Location(s, c, first, i, n)
             /\ Location(s, c, first, i, n) \in tree
             /\ Branch(tree, c, first, i, n)
<1>0. PICK L \in Nat \ {0} : L = Len(c) /\ c \in [1..L -> Nat \ {0}]
  BY EmptySeq, LenProperties
<1>1. /\ L = Len(c) /\ c \in [1..L -> Nat \ {0}]
      /\ \A i \in 1..L : \A n : n \in Spots(c, i) => n \in Nat
  BY <1>0 DEF Spots
<1>2. tree = UNION {{Location(s, c, first, i, n) : n \in Spots(c, i)} : i \in 1..L}
  BY <1>1 DEF TreeOf
<1>3. \A i, n : /\ Location(s, c, first, i, n).id = Place(c, first, i, n)
                /\ Location(s, c, first, i, n).on =
                     IF i = 1 THEN None ELSE Place(c, first, i - 1, n % c[i - 1])
  BY DEF Location, R
<1>4. \A r \in tree : \E i \in 1..L : \E n \in Spots(c, i) : r = Location(s, c, first, i, n)
  BY <1>2
<1>5. ASSUME NEW i \in 1..L, NEW n \in Spots(c, i) PROVE Location(s, c, first, i, n) \in tree
  <2> DEFINE Row1(l) == {Location(s, c, first, l, m) : m \in Spots(c, l)}
  <2>1. Location(s, c, first, i, n) \in Row1(i)
    OBVIOUS
  <2>2. tree = UNION {Row1(l) : l \in 1..L}
    BY <1>2
  <2> HIDE DEF Row1
  <2> QED
    BY <2>1, <2>2
<1>6. /\ \A i, j \in 1..L : \A n \in Spots(c, i), m \in Spots(c, j) :
           Place(c, first, i, n) = Place(c, first, j, m) => i = j /\ n = m
      /\ \A i \in 1..L, n \in Nat : Place(c, first, i, n) \in Nat
  <2>1. \A i \in 1..L, n \in Nat : Place(c, first, i, n) \in Nat
    BY <1>1, PlacesAre
  <2>2. \A i, j \in 1..L : \A n \in Spots(c, i), m \in Spots(c, j) :
          Place(c, first, i, n) = Place(c, first, j, m) => i = j /\ n = m
    BY <1>1, PlacesAre DEF Spots
  <2> QED
    BY <2>1, <2>2
<1>7. ASSUME NEW i \in 1..L, NEW n \in Spots(c, i)
      PROVE  /\ LocationOf(tree, Place(c, first, i, n)) = Location(s, c, first, i, n)
             /\ \A l \in tree : l.id = Place(c, first, i, n) => l = Location(s, c, first, i, n)
  <2>1. ASSUME NEW l \in tree, l.id = Place(c, first, i, n)
        PROVE  l = Location(s, c, first, i, n)
    <3>1. PICK j \in 1..L : \E m \in Spots(c, j) : l = Location(s, c, first, j, m)
      BY <1>4
    <3>2. PICK m \in Spots(c, j) : l = Location(s, c, first, j, m)
      BY <3>1
    <3>3. Place(c, first, j, m) = Place(c, first, i, n)
      BY <1>3, <2>1, <3>2
    <3>4. j = i /\ m = n
      BY <1>6, <3>3
    <3> QED
      BY <3>2, <3>4
  <2>2. LocationOf(tree, Place(c, first, i, n)) = Location(s, c, first, i, n)
    BY <1>3, <1>5, <2>1 DEF LocationOf
  <2> QED
    BY <2>1, <2>2
<1>8. ASSUME NEW i \in 1..L, i # 1, NEW n \in Spots(c, i)
      PROVE  i - 1 \in 1..L /\ n % c[i - 1] \in Spots(c, i - 1)
  <2>1. i - 1 \in 1..L
    BY <1>8
  <2>2. PICK d \in Nat \ {0} : d = c[i - 1]
    BY <1>1, <2>1
  <2>3. n \in Nat
    BY <1>1
  <2>4. n % d \in 0..(d - 1)
    BY <2>3
  <2> QED
    BY <2>1, <2>2, <2>4 DEF Spots
<1>9. IdsOf(tree) = {x \in Nat : \E i \in 1..L : \E n \in Spots(c, i) : x = Place(c, first, i, n)}
  <2>1. \A i \in 1..L : \A n \in Spots(c, i) : n \in Nat
    BY <1>1
  <2>2. ASSUME NEW x \in IdsOf(tree)
        PROVE  x \in Nat /\ \E i \in 1..L : \E n \in Spots(c, i) : x = Place(c, first, i, n)
    <3>1. PICK l \in tree : x = l.id
      BY DEF IdsOf
    <3>2. PICK i \in 1..L : \E n \in Spots(c, i) : l = Location(s, c, first, i, n)
      BY <1>4
    <3>3. PICK n \in Spots(c, i) : l = Location(s, c, first, i, n)
      BY <3>2
    <3>4. x = Place(c, first, i, n)
      BY <1>3, <3>1, <3>3
    <3> QED
      BY <1>6, <2>1, <3>4
  <2>3. ASSUME NEW i \in 1..L, NEW n \in Spots(c, i)
        PROVE  Place(c, first, i, n) \in IdsOf(tree)
    BY <1>3, <1>5 DEF IdsOf
  <2> QED
    BY <2>2, <2>3
<1>10. \A x \in IdsOf(tree) : OnOf(tree, x) \in IdsOf(tree) \cup {None}
  <2> SUFFICES ASSUME NEW x \in IdsOf(tree), OnOf(tree, x) # None
               PROVE  OnOf(tree, x) \in IdsOf(tree)
    OBVIOUS
  <2>1. PICK i \in 1..L : \E n \in Spots(c, i) : x = Place(c, first, i, n)
    BY <1>9
  <2>2. PICK n \in Spots(c, i) : x = Place(c, first, i, n)
    BY <2>1
  <2>7. OnOf(tree, x) = Location(s, c, first, i, n).on
    BY <1>7, <2>2 DEF OnOf
  <2>3. i # 1 /\ OnOf(tree, x) = Place(c, first, i - 1, n % c[i - 1])
    BY <1>3, <2>7
  <2>4. i - 1 \in 1..L /\ n % c[i - 1] \in Spots(c, i - 1)
    BY <1>8, <2>3
  <2>5. n % c[i - 1] \in Nat
    BY <1>1, <2>4
  <2>6. OnOf(tree, x) \in Nat
    BY <1>6, <2>3, <2>4, <2>5
  <2> QED
    BY <1>9, <2>3, <2>4, <2>6
<1>11. \A x \in IdsOf(tree) :
          Upwards(tree, x) = {x} \cup IF OnOf(tree, x) = None THEN {}
                                      ELSE Upwards(tree, OnOf(tree, x))
  BY <1>10, UpwardsIs
<1>12. ASSUME NEW i \in 1..L, NEW n \in Spots(c, i)
       PROVE  Upwards(tree, Place(c, first, i, n)) = {Place(c, first, i, n)} \cup
                IF i = 1 THEN {} ELSE Upwards(tree, Place(c, first, i - 1, n % c[i - 1]))
  <2>1. Place(c, first, i, n) \in IdsOf(tree)
    BY <1>3, <1>5 DEF IdsOf
  <2>2. OnOf(tree, Place(c, first, i, n))
          = IF i = 1 THEN None ELSE Place(c, first, i - 1, n % c[i - 1])
    BY <1>3, <1>7 DEF OnOf
  <2>3. i # 1 => Place(c, first, i - 1, n % c[i - 1]) # None
    <3> SUFFICES ASSUME i # 1 PROVE Place(c, first, i - 1, n % c[i - 1]) \in Nat
      BY DEF None
    <3>1. i - 1 \in 1..L /\ n % c[i - 1] \in Spots(c, i - 1)
      BY <1>8
    <3>2. n % c[i - 1] \in Nat
      BY <1>1, <3>1
    <3> QED
      BY <1>6, <3>1, <3>2
  <2> QED
    BY <1>11, <2>1, <2>2, <2>3
<1> DEFINE A == {m \in Nat : m + 1 <= L =>
                    \A n \in Spots(c, m + 1) : Branch(tree, c, first, m + 1, n)}
<1>13. A = Nat
  <2>1. 0 \in A
    <3> SUFFICES ASSUME NEW n \in Spots(c, 1) PROVE Branch(tree, c, first, 1, n)
      OBVIOUS
    <3>1. n \in Nat
      BY <1>1
    <3> DEFINE f == [j \in 1..1 |-> n]
    <3>2. f \in [1..1 -> Nat] /\ f[1] = n /\ \A j \in 1..1 : f[j] \in Spots(c, j)
      BY <3>1
    <3>3. Upwards(tree, Place(c, first, 1, n)) = {Place(c, first, 1, n)}
      BY <1>12
    <3>4. {Place(c, first, j, f[j]) : j \in 1..1} = {Place(c, first, 1, n)}
      BY <3>2
    <3> HIDE DEF f
    <3> QED
      BY <3>2, <3>3, <3>4 DEF Branch
  <2>2. ASSUME NEW m \in A PROVE m + 1 \in A
    <3>0. m \in Nat /\ m + 1 \in Nat
      BY <2>2
    <3> SUFFICES ASSUME (m + 1) + 1 <= L, NEW n \in Spots(c, (m + 1) + 1)
                 PROVE  Branch(tree, c, first, (m + 1) + 1, n)
      BY <3>0
    <3>1. PICK i \in 1..(L - 1) : i = m + 1
      BY <3>0
    <3>2. i + 1 \in 1..L /\ i + 1 # 1 /\ n \in Spots(c, i + 1) /\ (i + 1) - 1 = i
      BY <3>1
    <3>3. PICK o \in Spots(c, i) : o = n % c[i]
      BY <1>8, <3>2
    <3>11. Branch(tree, c, first, i, o)
      BY <2>2, <3>0, <3>1
    <3>4. PICK f \in [1..i -> Nat] :
            /\ f[i] = o /\ \A j \in 1..i : f[j] \in Spots(c, j)
            /\ Upwards(tree, Place(c, first, i, o)) = {Place(c, first, j, f[j]) : j \in 1..i}
      BY <3>11 DEF Branch
    <3> DEFINE h == [j \in 1..(i + 1) |-> IF j = i + 1 THEN n ELSE f[j]]
    <3>5. n \in Nat
      BY <1>1, <3>2
    <3>6. /\ h \in [1..(i + 1) -> Nat] /\ h[i + 1] = n /\ \A j \in 1..i : h[j] = f[j]
          /\ \A j \in 1..(i + 1) : j # i + 1 => j \in 1..i
      BY <3>5
    <3> HIDE DEF h
    <3>7. \A j \in 1..(i + 1) : h[j] \in Spots(c, j)
      BY <3>2, <3>4, <3>6
    <3>8. Upwards(tree, Place(c, first, i + 1, n))
            = {Place(c, first, i + 1, n)} \cup {Place(c, first, j, f[j]) : j \in 1..i}
      <4>1. PICK q \in 1..L : q = i + 1 /\ q # 1 /\ q - 1 = i /\ n \in Spots(c, q)
        BY <3>2
      <4>2. Upwards(tree, Place(c, first, q, n))
              = {Place(c, first, q, n)} \cup Upwards(tree, Place(c, first, q - 1, n % c[q - 1]))
        BY <1>12, <4>1
      <4> QED
        BY <3>3, <3>4, <4>1, <4>2
    <3>9. {Place(c, first, j, h[j]) : j \in 1..(i + 1)}
            = {Place(c, first, i + 1, n)} \cup {Place(c, first, j, f[j]) : j \in 1..i}
      <4>1. i + 1 \in 1..(i + 1) /\ \A j \in 1..i : j \in 1..(i + 1)
        OBVIOUS
      <4> QED
        BY <3>6, <4>1
    <3>10. Branch(tree, c, first, i + 1, n)
      BY <3>6, <3>7, <3>8, <3>9 DEF Branch
    <3> QED
      BY <3>1, <3>10
  <2>3. A \subseteq Nat /\ 0 \in A /\ \A m \in A : m + 1 \in A
    BY <2>1, <2>2
  <2> HIDE DEF A
  <2> QED
    BY <2>3, NatSetInduction
<1>14. ASSUME NEW i \in 1..L, NEW n \in Spots(c, i) PROVE Branch(tree, c, first, i, n)
  <2>1. i - 1 \in Nat /\ (i - 1) + 1 = i
    OBVIOUS
  <2>2. i - 1 \in A
    <3> HIDE DEF A
    <3> QED
      BY <1>13, <2>1
  <2> QED
    BY <2>1, <2>2
<1> QED
  BY <1>1, <1>5, <1>7, <1>14

\* Where a walk up leads through, and who syncs what lies on it.
Walk(c, first, f) == {Place(c, first, j, f[j]) : j \in 1..Len(c)}
Reaching(people, above) ==
    {x.id : x \in {y \in people : y.table = "catchment" /\ y.on \in above}}
Syncing(people, above) ==
    {u \in people : u.table = "users" /\ u.on \in Reaching(people, above)}
Staffed(people, above, per) ==
    /\ Cardinality({u \in Syncing(people, above) : u.at = 0}) = per
    /\ Cardinality({u \in Syncing(people, above) : u.at = 1}) = 1

\* A place a level, and the catchments and users of a tree.
IsWalk(c, f) == f \in [1..Len(c) -> Nat] /\ \A j \in 1..Len(c) : f[j] \in Spots(c, j)
Peopled(people, s, c, first, i, per) ==
    \A r : r \in people <=> Person(r, s, c, first, i, c[Len(c)], per)

\* On a walk up from a village lie its own catchment and one supervisor's; who syncs them are
\* the village's field workers and that supervisor.
LEMMA SyncersAre ==
    ASSUME NEW s, NEW c \in Seq(Nat \ {0}), c # << >>, NEW per \in Nat \ {0},
           NEW first \in Nat, NEW i \in 1..Len(c), NEW f, IsWalk(c, f),
           NEW people, Peopled(people, s, c, first, i, per)
    PROVE  Staffed(people, Walk(c, first, f), per)
<1>1. PICK L \in Nat \ {0}, n \in Nat \ {0} :
          /\ L = Len(c) /\ n = c[L] /\ Spots(c, L) = 0..(n - 1) /\ f \in [1..L -> Nat]
          /\ c \in [1..L -> Nat \ {0}] /\ i \in 1..L
  <2>1. Len(c) \in Nat \ {0} /\ c \in [1..Len(c) -> Nat \ {0}]
    BY EmptySeq, LenProperties
  <2>2. c[Len(c)] \in Nat \ {0}
    BY <2>1
  <2> QED
    BY <2>1, <2>2 DEF IsWalk, Spots
<1> DEFINE above == Walk(c, first, f)
           reached == Reaching(people, above)
           syncing == Syncing(people, above)
           k == f[L]
           d == f[i]
           Local(j) == R("catchment", s.org, first + j, Place(c, first, L, j), None, 0)
           Worker(j, x) == R("users", s.org, first + j * per + x, first + j, None, 0)
           Centre(j) == R("catchment", s.org, first + n + j, Place(c, first, i, j), None, 0)
           Over(j) == R("users", s.org, first + n * per + j, first + n + j, None, 1)
           Is(r) == \/ \E j \in Spots(c, L) :
                         r = Local(j) \/ \E x \in 0..(per - 1) : r = Worker(j, x)
                    \/ \E j \in Spots(c, i) : r = Centre(j) \/ r = Over(j)
<1>0. /\ above = {Place(c, first, j, f[j]) : j \in 1..L}
      /\ reached = {x.id : x \in {y \in people : y.table = "catchment" /\ y.on \in above}}
      /\ syncing = {u \in people : u.table = "users" /\ u.on \in reached}
  BY <1>1 DEF Walk, Reaching, Syncing
<1> HIDE DEF above, reached, syncing
<1>13. \A j \in 1..L : f[j] \in Spots(c, j)
  BY <1>1 DEF IsWalk
<1>2. k \in 0..(n - 1) /\ k \in Spots(c, L) /\ d \in Spots(c, i)
      /\ \A j \in Spots(c, i) : j \in Nat
  BY <1>1, <1>13 DEF Spots
<1>3. \A r : r \in people <=> Is(r)
  <2>1. Spots(c, L) = 0..(n - 1) /\ Spots(c, i) = 0..(c[i] - 1) /\ n = c[Len(c)] /\ L = Len(c)
    BY <1>1 DEF Spots
  <2>2. \A r : Person(r, s, c, first, i, n, per) <=> Is(r)
    BY <2>1, Zenon DEF Person
  <2> QED
    BY <2>1, <2>2, Zenon DEF Peopled
<1>4. /\ \A j : Local(j).table = "catchment" /\ Centre(j).table = "catchment"
      /\ \A j, x : Worker(j, x).table = "users" /\ Over(j).table = "users"
      /\ \A j : Local(j).id = first + j /\ Centre(j).id = first + n + j
      /\ \A j : Local(j).on = Place(c, first, L, j) /\ Centre(j).on = Place(c, first, i, j)
      /\ \A j, x : Worker(j, x).on = first + j /\ Worker(j, x).at = 0
      /\ \A j : Over(j).on = first + n + j /\ Over(j).at = 1
  BY DEF R
<1>12. \A j, x : Worker(j, x).id = first + j * per + x
  BY DEF R
<1>5. /\ \A j \in Spots(c, L) : Local(j) \in people
      /\ \A j \in Spots(c, L) : \A x \in 0..(per - 1) : Worker(j, x) \in people
      /\ \A j \in Spots(c, i) : Centre(j) \in people /\ Over(j) \in people
  <2> HIDE DEF Local, Worker, Centre, Over
  <2> QED
    BY <1>3
<1>6. ASSUME NEW l \in 1..L, NEW j \in Spots(c, l), Place(c, first, l, j) \in above
      PROVE  j = f[l]
  <2>1. PICK m \in 1..L : Place(c, first, l, j) = Place(c, first, m, f[m])
    BY <1>0, <1>6
  <2>2. j \in 0..(c[l] - 1) /\ f[m] \in 0..(c[m] - 1)
    BY <1>6, <1>13 DEF Spots
  <2>4. \A a, b \in 1..L : \A x \in 0..(c[a] - 1), y \in 0..(c[b] - 1) :
          Place(c, first, a, x) = Place(c, first, b, y) => a = b /\ x = y
    BY <1>1, PlacesAre
  <2>3. l = m /\ j = f[m]
    BY <2>1, <2>2, <2>4
  <2> QED
    BY <2>3
<1>7. /\ \A j \in Spots(c, L) : Place(c, first, L, j) \in above <=> j = k
      /\ \A j \in Spots(c, i) : Place(c, first, i, j) \in above <=> j = d
  <2>1. Place(c, first, L, k) \in above /\ Place(c, first, i, d) \in above
    <3>1. L \in 1..L /\ i \in 1..L
      BY <1>1
    <3> QED
      BY <1>0, <3>1
  <2>2. \A l \in 1..L : \A j \in Spots(c, l) : Place(c, first, l, j) \in above => j = f[l]
    BY <1>6
  <2>3. L \in 1..L /\ i \in 1..L
    BY <1>1
  <2>4. \A j \in Spots(c, L) : Place(c, first, L, j) \in above => j = f[L]
    BY <2>2, <2>3
  <2> QED
    BY <2>1, <2>2, <2>3, <2>4
<1> HIDE DEF k, d, Local, Worker, Centre, Over
<1>8. reached = {first + k, first + n + d}
  <2>1. ASSUME NEW y \in people, y.table = "catchment", y.on \in above
        PROVE  y.id \in {first + k, first + n + d}
    <3>1. (\E j \in Spots(c, L) : y = Local(j)) \/ (\E j \in Spots(c, i) : y = Centre(j))
      BY <1>3, <1>4, <2>1
    <3>2. ASSUME NEW j \in Spots(c, L), y = Local(j) PROVE y.id = first + k
      BY <1>4, <1>7, <2>1, <3>2
    <3>3. ASSUME NEW j \in Spots(c, i), y = Centre(j) PROVE y.id = first + n + d
      BY <1>4, <1>7, <2>1, <3>3
    <3> QED
      BY <3>1, <3>2, <3>3
  <2>2. /\ Local(k) \in people /\ Local(k).table = "catchment" /\ Local(k).on \in above
        /\ Centre(d) \in people /\ Centre(d).table = "catchment" /\ Centre(d).on \in above
    BY <1>2, <1>4, <1>5, <1>7
  <2>3. Local(k).id \in reached /\ Centre(d).id \in reached
    BY <1>0, <2>2
  <2>4. first + k \in reached /\ first + n + d \in reached
    BY <1>4, <2>3
  <2> QED
    BY <1>0, <2>1, <2>4
<1>9. /\ \A j \in Spots(c, L) : first + j \in reached <=> j = k
      /\ \A j \in Spots(c, i) : first + n + j \in reached <=> j = d
  <2>1. /\ \A j \in Spots(c, L) : j \in 0..(n - 1)
        /\ \A j \in Spots(c, i) : j \in Nat
        /\ k \in 0..(n - 1) /\ d \in Nat
    BY <1>1, <1>2
  <2>2. /\ \A j \in 0..(n - 1) : (first + j = first + k <=> j = k) /\ first + j # first + n + d
        /\ \A j \in Nat : (first + n + j = first + n + d <=> j = d) /\ first + n + j # first + k
    <3>1. PICK a \in 0..(n - 1), b \in Nat : a = k /\ b = d
      BY <2>1
    <3>2. ASSUME NEW j \in 0..(n - 1)
          PROVE  (first + j = first + a <=> j = a) /\ first + j # first + n + b
      OBVIOUS
    <3>3. ASSUME NEW j \in Nat
          PROVE  (first + n + j = first + n + b <=> j = b) /\ first + n + j # first + a
      OBVIOUS
    <3> QED
      BY <3>1, <3>2, <3>3
  <2>3. \A x : x \in reached <=> x = first + k \/ x = first + n + d
    BY <1>8
  <2> QED
    BY <2>1, <2>2, <2>3
<1>10. Cardinality({u \in syncing : u.at = 0}) = per
  <2> DEFINE W == {u \in syncing : u.at = 0}
             g == [x \in 0..(per - 1) |-> Worker(k, x)]
  <2>1. ASSUME NEW x \in 0..(per - 1) PROVE Worker(k, x) \in W
    <3>1. Worker(k, x) \in people
      BY <1>2, <1>5
    <3>2. first + k \in reached
      BY <1>2, <1>9
    <3> QED
      BY <1>0, <1>4, <3>1, <3>2
  <2>2. ASSUME NEW u \in W PROVE \E x \in 0..(per - 1) : u = Worker(k, x)
    <3>1. u \in people /\ u.table = "users" /\ u.on \in reached /\ u.at = 0
      BY <1>0
    <3>4. \A j : u # Local(j) /\ u # Centre(j) /\ u # Over(j)
      BY <1>4, <3>1
    <3>2. PICK j \in Spots(c, L) : \E x \in 0..(per - 1) : u = Worker(j, x)
      BY <1>3, <3>1, <3>4
    <3>3. j = k
      BY <1>4, <1>9, <3>1, <3>2
    <3> QED
      BY <3>2, <3>3
  <2>3. \A x, y \in 0..(per - 1) : Worker(k, x) = Worker(k, y) => x = y
    <3> SUFFICES ASSUME NEW x \in 0..(per - 1), NEW y \in 0..(per - 1),
                        Worker(k, x) = Worker(k, y)
                 PROVE  x = y
      OBVIOUS
    <3>3. Worker(k, x).id = first + k * per + x /\ Worker(k, y).id = first + k * per + y
      BY <1>12
    <3>1. first + k * per + x = first + k * per + y
      BY <3>3
    <3>2. k * per \in Nat
      BY <1>2
    <3> QED
      BY <3>1, <3>2
  <2> HIDE DEF W
  <2>4. g \in [0..(per - 1) -> W] /\ \A x \in 0..(per - 1) : g[x] = Worker(k, x)
    BY <2>1
  <2> HIDE DEF g
  <2>5. Cardinality(W) = per
    <3>1. per \in Nat /\ \A x, y \in 0..(per - 1) : g[x] = g[y] => x = y
      BY <2>3, <2>4
    <3>2. \A u \in W : \E x \in 0..(per - 1) : u = g[x]
      BY <2>2, <2>4
    <3>3. g \in Bijection(0..(per - 1), W)
      BY <2>4, <3>1, <3>2 DEF Bijection, Injection, IsInjective, Surjection
    <3>4. IsFiniteSet(0..(per - 1)) /\ Cardinality(0..(per - 1)) = per
      <4>1. PICK b \in Int : b = per - 1 /\ ~(0 > b) /\ b - 0 + 1 = per
        OBVIOUS
      <4>2. 0 \in Int
        OBVIOUS
      <4>3. IsFiniteSet(0..b) /\ Cardinality(0..b) = IF 0 > b THEN 0 ELSE b - 0 + 1
        BY <4>2, FS_Interval
      <4> QED
        BY <4>1, <4>3
    <3> QED
      BY <3>3, <3>4, FS_Bijection DEF ExistsBijection
  <2> QED
    BY <2>5 DEF W
<1>11. Cardinality({u \in syncing : u.at = 1}) = 1
  <2>1. Over(d) \in syncing /\ Over(d).at = 1
    BY <1>0, <1>2, <1>4, <1>5, <1>9
  <2>2. ASSUME NEW u \in syncing, u.at = 1 PROVE u = Over(d)
    <3>1. u \in people /\ u.table = "users" /\ u.on \in reached
      BY <1>0
    <3>4. \A j : u # Local(j) /\ u # Centre(j) /\ \A x : u # Worker(j, x)
      BY <1>4, <2>2, <3>1
    <3>2. PICK j \in Spots(c, i) : u = Over(j)
      BY <1>3, <3>1, <3>4
    <3>3. j = d
      BY <1>4, <1>9, <3>1, <3>2
    <3> QED
      BY <3>2, <3>3
  <2>3. {u \in syncing : u.at = 1} = {Over(d)}
    BY <2>1, <2>2
  <2> QED
    BY <2>3, FS_Singleton
<1> QED
  BY <1>10, <1>11 DEF Staffed, above, syncing

\* Cut where subjects may be registered, a line ends where they may.
LEMMA CutEnds ==
    ASSUME NEW X, NEW line \in Seq(X), NEW permitted, permitted # {},
           cut(line, permitted) # << >>
    PROVE  cut(line, permitted)[Len(cut(line, permitted))] \in permitted
<1> DEFINE places == {i \in 1..Len(line) : line[i] \in permitted}
<1>1. Len(line) \in Nat
  BY LenProperties
<1>2. places # {}
  BY DEF cut
<1>3. places \in SUBSET Nat /\ \A i \in places : i <= Len(line)
  BY <1>1
<1>4. \E i \in places : \A j \in places : j <= i
  <2> HIDE DEF places
  <2> QED
    BY <1>1, <1>2, <1>3, LargestElement
<1>5. PICK m \in places : cut(line, permitted) = SubSeq(line, 1, m)
  <2>1. cut(line, permitted) = SubSeq(line, 1, CHOOSE i \in places : \A j \in places : j <= i)
    BY <1>2 DEF cut
  <2> HIDE DEF places
  <2> QED
    BY <1>4, <2>1
<1>6. m \in 1..Len(line) /\ line[m] \in permitted
  OBVIOUS
<1>7. Len(SubSeq(line, 1, m)) = m /\ SubSeq(line, 1, m)[m] = line[m]
  <2>1. /\ Len(SubSeq(line, 1, m)) = IF 1 <= m THEN m - 1 + 1 ELSE 0
        /\ \A i \in 1..(m - 1 + 1) : SubSeq(line, 1, m)[i] = line[1 + i - 1]
    BY <1>1, <1>6, SubSeqProperties
  <2> QED
    BY <1>1, <1>6, <2>1
<1> QED
  BY <1>5, <1>6, <1>7

\* So the villages are of a type that the subjects may be registered at.
LEMMA EndsPermitted ==
    ASSUME NEW s, SizesAre(s), NEW ref, IsForest(ref),
           ref.types = {} => registration_type_ids(ref) = {},
           establishment(s, ref) # << >>
    PROVE  \/ registration_type_ids(ref) = {}
           \/ establishment(s, ref)[Len(establishment(s, ref))].name \in registration_type_ids(ref)
<1> DEFINE permitted == registration_type_ids(ref)
<1> SUFFICES ASSUME permitted # {}
             PROVE  establishment(s, ref)[Len(establishment(s, ref))].name \in permitted
  OBVIOUS
<1>1. PICK levels \in Seq(Level) : levels = from_target_types(ref)
  BY TargetTypesAre
<1>2. establishment(s, ref) = with_supervisor_span(s, levels)
  BY <1>1 DEF establishment
<1>3. /\ Len(establishment(s, ref)) = Len(levels) /\ levels # << >>
      /\ \A i \in 1..Len(levels) : establishment(s, ref)[i].name = levels[i].name
  <2>1. CASE s.span = None
    BY <1>2, <2>1 DEF with_supervisor_span
  <2>2. CASE s.span # None /\ s.span < s.per_village
    BY <1>2, <2>2 DEF with_supervisor_span
  <2>3. CASE s.span # None /\ ~(s.span < s.per_village)
    <3>1. PICK n \in Nat : n = Len(levels) /\ levels \in [1..n -> Level]
      BY LenProperties
    <3> DEFINE spanned == [i \in 1..n |-> IF levels[i].name = "Village"
                                          THEN [levels[i] EXCEPT !.per = <<s.span, s.per_village>>]
                                          ELSE levels[i]]
    <3>2. establishment(s, ref) = spanned
      BY <1>2, <2>3, <3>1 DEF with_supervisor_span
    <3>3. \A i \in 1..n : spanned[i].name = levels[i].name
      BY <3>1 DEF Level
    <3>4. establishment(s, ref) \in Seq(Level)
      BY EstablishmentIs
    <3>5. PICK est \in Seq(Level) : est = establishment(s, ref)
      BY <3>4
    <3>6. DOMAIN est = 1..n
      BY <3>2, <3>5
    <3>7. Len(est) \in Nat /\ DOMAIN est = 1..Len(est)
      BY LenProperties
    <3>8. Len(est) = n /\ est # << >>
      BY <3>6, <3>7, <3>5
    <3>9. levels # << >>
      <4>1. n # 0
        BY <3>7, <3>8, EmptySeq
      <4> QED
        BY <3>1, <4>1, EmptySeq
    <3> HIDE DEF spanned
    <3> QED
      BY <3>1, <3>2, <3>3, <3>5, <3>8, <3>9
  <2> QED
    BY <2>1, <2>2, <2>3
<1>4. Lines(ref) # {}
  BY <1>1, <1>3 DEF from_target_types
<1>5. PICK line \in Seq(ref.types) :
          line = CHOOSE l \in Lines(ref) : \A r \in Lines(ref) : Len(r) <= Len(l)
  <2>1. \E l \in Lines(ref) : \A r \in Lines(ref) : Len(r) <= Len(l)
    BY <1>4, LinesAre, LongestOf
  <2> QED
    BY <2>1, LinesAre
<1>6. PICK chain \in Seq(ref.types) : chain = cut(line, permitted)
  BY CutIs
<1>7. PICK n \in Nat : n = Len(chain)
  BY LenProperties
<1>8. levels = [i \in 1..n |-> [name |-> chain[i],
                                per |-> ESTABLISHMENT[Smaller(i, Len(ESTABLISHMENT))].per]]
  BY <1>1, <1>4, <1>5, <1>6, <1>7 DEF from_target_types
<1>9. Len(levels) = n /\ n # 0
  <2>1. DOMAIN levels = 1..n
    BY <1>8
  <2>2. Len(levels) \in Nat \ {0} /\ DOMAIN levels = 1..Len(levels)
    BY <1>3, EmptySeq, LenProperties
  <2> QED
    BY <2>1, <2>2
<1>10. chain # << >>
  BY <1>7, <1>9, EmptySeq
<1>11. chain[n] \in permitted
  BY <1>5, <1>6, <1>7, <1>10, CutEnds
<1> QED
  BY <1>3, <1>8, <1>9, <1>11

\* What is written of a tenant is the whole of its structure, and there is some.
BuiltFor(t) == build_tenant(SpecOf(t), recipe.refs[SpecOf(t).org], Base(t))
WholeInv == \A t \in Written : StructureOf(t) \subseteq rows /\ BuiltFor(t) # {}

LEMMA WholeStep == RowInv /\ WholeInv /\ [Next]_vars => WholeInv'
<1> SUFFICES ASSUME RowInv, WholeInv, [Next]_vars PROVE WholeInv'
  OBVIOUS
<1>1. CASE pc = "ids"
  <2>1. Written' = {}
    BY <1>1, WhatIsDrawn, DrawCounts DEF RowInv
  <2> QED
    BY <2>1 DEF WholeInv
<1>2. CASE pc # "ids"
  <2>1. UNCHANGED <<recipe, bases>> /\ rows \subseteq rows'
    BY <1>2, WrittenGrow
  <2>2. \A t : StructureOf(t)' = StructureOf(t) /\ BuiltFor(t)' = BuiltFor(t)
    BY <2>1, SameTenant DEF StructureOf, BuiltFor
  <2>3. CASE Written' = Written
    BY <2>1, <2>2, <2>3 DEF WholeInv
  <2>4. CASE Structure /\ pc' = "village" /\ Written' = Written \cup {tenant}
    <3>1. BuiltFor(tenant) # {} /\ StructureOf(tenant) \subseteq rows'
      BY <2>4, StructureRows DEF RowInv, BuiltFor, StructureOf
    <3> QED
      BY <2>1, <2>2, <2>4, <3>1 DEF WholeInv
  <2> QED
    BY <1>2, <2>3, <2>4, WrittenGrow
<1> QED
  BY <1>1, <1>2

\* So an organisation's rows, what is drawn aside, are its tenant's structure.
LEMMA OnlyStructure ==
    ASSUME RowInv, TreeInv, WholeInv, NEW t \in Written, NEW table, table \notin DrawnTables
    PROVE  {r \in Of(table) : r.org = SpecOf(t).org} = {r \in StructureOf(t) : r.table = table}
<1>1. pc # "ids" /\ \A u \in Written : u \in Tenants
  BY DEF Written
<1>2. /\ \A u \in Tenants : Base(u) \in Nat
      /\ \A u, v \in Tenants : SpecOf(u).org = SpecOf(v).org => u = v
  BY <1>1, BasesAre DEF RowInv
<1>3. \A u \in Written : \A r \in StructureOf(u) : r.org = SpecOf(u).org
  BY <1>1, <1>2, StructuresOrg DEF RowInv
<1>4. ASSUME NEW r \in rows, r.table = table, r.org = SpecOf(t).org PROVE r \in StructureOf(t)
  <2>1. PICK u \in Written : r \in StructureOf(u)
    BY <1>4 DEF TreeInv
  <2>2. u = t
    BY <1>1, <1>2, <1>3, <1>4, <2>1
  <2> QED
    BY <2>1, <2>2
<1>5. ASSUME NEW r \in StructureOf(t) PROVE r \in rows /\ r.org = SpecOf(t).org
  BY <1>3 DEF WholeInv
<1> QED
  BY <1>4, <1>5 DEF Of

\* A tenant's structure, table by table.
LEMMA StructureIs ==
    ASSUME IInv, NEW t \in Tenants, Base(t) \in Nat, BuiltFor(t) # {}
    PROVE  LET of(table) == {r \in StructureOf(t) : r.table = table}
               people == CatchmentsAndUsers(SpecOf(t), LevelsOf(t), Base(t) + 1)
           IN /\ LevelsOf(t) # << >> /\ SupervisorsAt(SpecOf(t), LevelsOf(t)) # {}
              /\ of("address_level") = build(SpecOf(t), LevelsOf(t), Base(t) + 1)
              /\ of("catchment") = {r \in people : r.table = "catchment"}
              /\ of("users") = {r \in people : r.table = "users"}
              /\ \A u \in of("users") : \E m \in of("user_group"), g \in of("groups") :
                                           m.on = u.id /\ m.address = g.id
<1>1. PICK s, levels, first, org :
          /\ s = SpecOf(t) /\ levels = LevelsOf(t) /\ first = Base(t) + 1 /\ org = SpecOf(t).org
  OBVIOUS
<1>2. SizesAre(s) /\ levels \in Seq(Level) /\ first \in Nat
  BY <1>1, TenantIs
<1>3. BuiltFor(t) = IF levels = << >> \/ SupervisorsAt(s, levels) = {} THEN {}
                    ELSE build(s, levels, first) \cup CatchmentsAndUsers(s, levels, first)
  BY <1>1 DEF BuiltFor, build_tenant, LevelsOf
<1>4. levels # << >> /\ SupervisorsAt(s, levels) # {}
  BY <1>3
<1>5. PICK tree : tree = build(s, levels, first)
  OBVIOUS
<1>6. PICK people : people = CatchmentsAndUsers(s, levels, first)
  OBVIOUS
<1>7. BuiltFor(t) = tree \cup people
  BY <1>3, <1>4, <1>5, <1>6
<1>8. /\ tree \subseteq RowsIn({"address_level"}, org)
      /\ people \subseteq RowsIn({"catchment", "users"}, org)
  BY <1>1, <1>2, <1>4, <1>5, <1>6, BuildIs, PeopleAre
<1>9. PICK users : users = {r \in BuiltFor(t) : r.table = "users"}
  OBVIOUS
<1>10. PICK groups : groups = user_group_rows(org, users, Base(t))
  OBVIOUS
<1>11. /\ \A r \in tree : r.table = "address_level"
       /\ \A r \in people : r.table \in {"catchment", "users"}
       /\ users = {r \in people : r.table = "users"}
  BY <1>7, <1>8, <1>9 DEF RowsIn
<1>12. groups \subseteq RowsIn({"groups", "user_group"}, org)
  <2>1. users \subseteq RowsIn(Tables, org)
    BY <1>8, <1>11 DEF RowsIn, Tables
  <2> QED
    BY <1>10, <2>1, GroupsRows
<1>13. \A r \in groups : r.table \in {"groups", "user_group"}
  BY <1>12 DEF RowsIn
<1>14. StructureOf(t) = tree \cup people \cup groups
  BY <1>1, <1>7, <1>9, <1>10 DEF StructureOf, BuiltFor
<1>15. ASSUME NEW u \in users
       PROVE  \E m \in groups, g \in groups :
                m.table = "user_group" /\ g.table = "groups" /\ m.on = u.id /\ m.address = g.id
  <2> DEFINE G == group_id_for(Base(t))
             g == R("groups", org, G, None, None, 0)
             m == R("user_group", org, u.id, u.id, G, 0)
  <2>1. g \in groups /\ m \in groups
    BY <1>10 DEF user_group_rows
  <2>2. /\ g.table = "groups" /\ g.id = G
        /\ m.table = "user_group" /\ m.on = u.id /\ m.address = G
    BY DEF R
  <2> HIDE DEF g, m
  <2> QED
    BY <2>1, <2>2
<1> DEFINE of(table) == {r \in StructureOf(t) : r.table = table}
<1>16. of("address_level") = tree
  BY <1>11, <1>13, <1>14
<1>17. of("catchment") = {r \in people : r.table = "catchment"} /\ of("users") = users
  BY <1>11, <1>13, <1>14
<1>18. \A u \in users : \E m \in of("user_group"), g \in of("groups") :
                           m.on = u.id /\ m.address = g.id
  <2> SUFFICES ASSUME NEW u \in users
               PROVE  \E m \in of("user_group"), g \in of("groups") :
                         m.on = u.id /\ m.address = g.id
    OBVIOUS
  <2>1. PICK m \in groups, g \in groups :
          m.table = "user_group" /\ g.table = "groups" /\ m.on = u.id /\ m.address = g.id
    BY <1>15
  <2>2. m \in of("user_group") /\ g \in of("groups")
    BY <1>14, <2>1
  <2> QED
    BY <2>1, <2>2
<1> HIDE DEF of
<1>19. /\ LevelsOf(t) # << >> /\ SupervisorsAt(SpecOf(t), LevelsOf(t)) # {}
       /\ tree = build(SpecOf(t), LevelsOf(t), Base(t) + 1)
       /\ people = CatchmentsAndUsers(SpecOf(t), LevelsOf(t), Base(t) + 1)
  BY <1>1, <1>4, <1>5, <1>6
<1> QED
  BY <1>11, <1>16, <1>17, <1>18, <1>19 DEF of

\* Where a subject is, and the spec and refs that its organisation's rows were built to.
LEMMA SubjectAt ==
    ASSUME RowInv, ShareInv, NEW p \in Placed
    PROVE  \E t \in Written : \E k \in VillagesOf(t) :
             /\ t \in Tenants /\ Base(t) \in Nat /\ p[1] = SpecOf(t).org /\ p[2] = LeafOf(t, k)
             /\ SpecOf(t) = CHOOSE s \in recipe.specs : s.org = p[1]
             /\ used[p[1]] = recipe.refs[p[1]]
             /\ \A u \in Tenants : SpecOf(u).org = p[1] => u = t
<1>1. PICK i \in Of("individual") : p = <<i.org, i.address>>
  BY DEF Placed
<1>2. i \in rows /\ i.table = "individual" /\ p[1] = i.org /\ p[2] = i.address
  BY <1>1 DEF Of
<1>3. PICK t \in Written : /\ i.org = SpecOf(t).org /\ t \in Tenants
                           /\ SpecOf(t) = CHOOSE s \in recipe.specs : s.org = i.org
  BY <1>2, SpecIs DEF DrawnTables
<1>4. i \in Drawn("individual", t)
  BY <1>2, <1>3 DEF Drawn
<1>5. PICK k \in VillagesOf(t) : i.address = LeafOf(t, k)
  BY <1>4 DEF ShareInv, SubjectsAreAt
<1>6. pc # "ids"
  BY DEF Written
<1>7. Base(t) \in Nat /\ \A u \in Tenants : SpecOf(u).org = SpecOf(t).org => u = t
  BY <1>3, <1>6, BasesAre DEF RowInv
<1>8. used[i.org] = recipe.refs[i.org]
  BY <1>3 DEF RowInv, FeedInv
<1> QED
  BY <1>2, <1>3, <1>5, <1>7, <1>8

\* A village is one place of the tree, at its last level, and is synced by its field
\* workers and one supervisor.
SyncedAt(s, tree, people, place, last) ==
    /\ \E l \in tree : /\ l.id = place /\ l.address = last
                       /\ \A m \in tree : m.id = place => m = l
    /\ Staffed(people, Upwards(tree, place), s.per_village)
LEMMA VillageIsSynced ==
    ASSUME NEW s, SizesAre(s), NEW levels \in Seq(Level), SupervisorsAt(s, levels) # {},
           NEW first \in Nat, NEW c, c = plan_levels(villages(s), levels),
           NEW k \in 0..(villages(s) - 1)
    PROVE  SyncedAt(s, build(s, levels, first), CatchmentsAndUsers(s, levels, first),
                    Place(c, first, Len(c), k), Len(levels))
<1> DEFINE tree == build(s, levels, first)
           people == CatchmentsAndUsers(s, levels, first)
           place == Place(c, first, Len(c), k)
<1>1. PICK d \in Seq(Nat \ {0}), L \in Nat \ {0}, n \in Nat \ {0}, per \in Nat \ {0} :
         \E i \in 1..L : PeopleBy(s, levels, first, d, L, n, per, i)
  BY PeopleIs
<1>12. PICK i \in 1..L : PeopleBy(s, levels, first, d, L, n, per, i) /\ d = c
  BY <1>1 DEF PeopleBy, PlannedFor
<1>11. /\ c \in Seq(Nat \ {0}) /\ c # << >> /\ L = Len(c) /\ L = Len(levels) /\ levels # << >>
       /\ n = c[L] /\ n = villages(s) /\ per = s.per_village
       /\ \A r : r \in people <=> Person(r, s, c, first, i, n, per)
  BY <1>12 DEF PeopleBy, PlannedFor
<1>2. c \in Seq(Nat \ {0}) /\ c # << >> /\ i \in 1..Len(c) /\ Peopled(people, s, c, first, i, per)
  BY <1>11 DEF Peopled
<1>3. L = Len(levels)
  BY <1>11
<1>4. tree = TreeOf(s, c, first)
  BY <1>11 DEF build, TreeOf, Location, Spots
<1> HIDE DEF tree, people
<1>5. k \in Spots(c, L) /\ place = Place(c, first, L, k) /\ L \in 1..Len(c)
  BY <1>11 DEF Spots
<1>6. /\ \A l \in tree : l.id = place => l = Location(s, c, first, L, k)
      /\ Location(s, c, first, L, k) \in tree /\ Branch(tree, c, first, L, k)
  BY <1>2, <1>4, <1>5, BranchIs
<1>7. Location(s, c, first, L, k).address = L /\ Location(s, c, first, L, k).id = place
  BY <1>5 DEF Location, R
<1>8. PICK f : IsWalk(c, f) /\ Upwards(tree, place) = Walk(c, first, f)
  <2>1. PICK f \in [1..L -> Nat] :
          /\ \A j \in 1..L : f[j] \in Spots(c, j)
          /\ Upwards(tree, Place(c, first, L, k)) = {Place(c, first, j, f[j]) : j \in 1..L}
    BY <1>6 DEF Branch
  <2>2. IsWalk(c, f)
    BY <1>11, <2>1 DEF IsWalk
  <2>3. Upwards(tree, place) = Walk(c, first, f)
    BY <1>11, <2>1 DEF Walk
  <2> QED
    BY <2>2, <2>3
<1>9. Staffed(people, Walk(c, first, f), per)
  BY <1>2, <1>8, SyncersAre
<1> HIDE DEF place
<1>10. SyncedAt(s, tree, people, place, Len(levels))
  BY <1>11, <1>3, <1>6, <1>7, <1>8, <1>9 DEF SyncedAt
<1> QED
  BY <1>10 DEF tree, people, place

LEMMA SyncedImplies ==
    RowInv /\ ShareInv /\ TreeInv /\ WholeInv => EverySubjectIsSynced
<1> SUFFICES ASSUME RowInv, ShareInv, TreeInv, WholeInv, NEW p \in Placed, NEW spec,
                    spec = CHOOSE t \in recipe.specs : t.org = p[1]
             PROVE  LET of(table) == {r \in Of(table) : r.org = p[1]}
                        above == Upwards(of("address_level"), p[2])
                        reached == {c.id : c \in {x \in of("catchment") : x.on \in above}}
                        syncing == {u \in of("users") : u.on \in reached}
                    IN /\ WideAsTheFirst(used[p[1]]) =>
                            May(p[1], p[2], _widest_subject_type(used[p[1]]).permitted)
                       /\ Cardinality({u \in syncing : u.at = 0}) = spec.per_village
                       /\ Cardinality({u \in syncing : u.at = 1}) = 1
                       /\ \A u \in syncing : \E m \in of("user_group"), g \in of("groups") :
                                                m.on = u.id /\ m.address = g.id
  BY DEF EverySubjectIsSynced
<1> DEFINE of(table) == {r \in Of(table) : r.org = p[1]}
           above == Upwards(of("address_level"), p[2])
           reached == {y.id : y \in {x \in of("catchment") : x.on \in above}}
           syncing == {u \in of("users") : u.on \in reached}
<1> SUFFICES /\ WideAsTheFirst(used[p[1]]) =>
                  May(p[1], p[2], _widest_subject_type(used[p[1]]).permitted)
             /\ Cardinality({u \in syncing : u.at = 0}) = spec.per_village
             /\ Cardinality({u \in syncing : u.at = 1}) = 1
             /\ \A u \in syncing : \E m \in of("user_group"), g \in of("groups") :
                                      m.on = u.id /\ m.address = g.id
  OBVIOUS
<1>1. PICK t \in Written : \E k \in VillagesOf(t) :
          /\ t \in Tenants /\ Base(t) \in Nat /\ p[1] = SpecOf(t).org /\ p[2] = LeafOf(t, k)
          /\ SpecOf(t) = spec /\ used[p[1]] = recipe.refs[p[1]]
  BY SubjectAt
<1>2. PICK k \in VillagesOf(t) :
          /\ t \in Tenants /\ Base(t) \in Nat /\ p[1] = SpecOf(t).org /\ p[2] = LeafOf(t, k)
          /\ SpecOf(t) = spec /\ used[p[1]] = recipe.refs[p[1]]
  BY <1>1
<1>3. PICK levels \in Seq(Level) : levels = LevelsOf(t)
  BY <1>2, TenantIs DEF RowInv
<1>4. PICK first \in Nat : first = Base(t) + 1
  BY <1>2
<1>5. SizesAre(spec)
  BY <1>2, TenantIs DEF RowInv
<1>6. PICK tree, people : /\ tree = build(spec, levels, first)
                          /\ people = CatchmentsAndUsers(spec, levels, first)
  OBVIOUS
<1>7. levels # << >> /\ SupervisorsAt(spec, levels) # {}
  <2>1. IInv /\ BuiltFor(t) # {}
    BY DEF RowInv, WholeInv
  <2> QED
    BY <1>2, <1>3, <2>1, StructureIs
<1>8. /\ of("address_level") = tree
      /\ of("catchment") = {r \in people : r.table = "catchment"}
      /\ of("users") = {r \in people : r.table = "users"}
      /\ \A u \in of("users") : \E m \in of("user_group"), g \in of("groups") :
                                   m.on = u.id /\ m.address = g.id
  <2> DEFINE structure(table) == {r \in StructureOf(t) : r.table = table}
  <2>1. ASSUME NEW table, table \notin DrawnTables PROVE of(table) = structure(table)
    <3>1. {r \in Of(table) : r.org = SpecOf(t).org} = {r \in StructureOf(t) : r.table = table}
      BY <2>1, OnlyStructure
    <3> QED
      BY <1>2, <3>1
  <2>2. IInv /\ BuiltFor(t) # {}
    BY DEF RowInv, WholeInv
  <2>3. /\ structure("address_level") = build(SpecOf(t), LevelsOf(t), Base(t) + 1)
        /\ structure("catchment") = {r \in CatchmentsAndUsers(SpecOf(t), LevelsOf(t), Base(t) + 1) :
                                       r.table = "catchment"}
        /\ structure("users") = {r \in CatchmentsAndUsers(SpecOf(t), LevelsOf(t), Base(t) + 1) :
                                   r.table = "users"}
        /\ \A u \in structure("users") :
             \E m \in structure("user_group"), g \in structure("groups") :
                m.on = u.id /\ m.address = g.id
    BY <1>2, <2>2, StructureIs
  <2>4. /\ CatchmentsAndUsers(SpecOf(t), LevelsOf(t), Base(t) + 1) = people
        /\ build(SpecOf(t), LevelsOf(t), Base(t) + 1) = tree
    BY <1>2, <1>3, <1>4, <1>6
  <2> HIDE DEF of, structure
  <2>5. /\ of("address_level") = structure("address_level")
        /\ of("catchment") = structure("catchment") /\ of("users") = structure("users")
        /\ of("user_group") = structure("user_group") /\ of("groups") = structure("groups")
    BY <2>1 DEF DrawnTables
  <2> QED
    BY <2>3, <2>4, <2>5
<1>9. syncing = Syncing(people, Upwards(tree, p[2]))
  <2>1. above = Upwards(tree, p[2])
    BY <1>8
  <2> HIDE DEF above
  <2>2. {x \in of("catchment") : x.on \in above}
          = {y \in people : y.table = "catchment" /\ y.on \in above}
    <3> HIDE DEF of
    <3> QED
      BY <1>8
  <2>3. reached = Reaching(people, above)
    <3> HIDE DEF of
    <3> QED
      BY <2>2 DEF Reaching
  <2> HIDE DEF reached
  <2>4. syncing = {u \in people : u.table = "users" /\ u.on \in reached}
    <3> HIDE DEF of
    <3> QED
      BY <1>8
  <2> QED
    BY <2>1, <2>3, <2>4 DEF Syncing
<1>12. \A u \in syncing : u \in of("users")
  OBVIOUS
<1> HIDE DEF of, syncing
<1>13. /\ \E l \in tree : /\ l.id = p[2] /\ l.address = Len(levels)
                           /\ \A m \in tree : m.id = p[2] => m = l
       /\ Cardinality({u \in syncing : u.at = 0}) = spec.per_village
       /\ Cardinality({u \in syncing : u.at = 1}) = 1
  <2>1. PICK c : c = plan_levels(villages(spec), levels)
    OBVIOUS
  <2>2. k \in 0..(villages(spec) - 1) /\ p[2] = Place(c, first, Len(c), k)
    BY <1>2, <1>3, <1>4, <2>1 DEF VillagesOf, LeafOf, CountsOf
  <2>3. SyncedAt(spec, build(spec, levels, first), CatchmentsAndUsers(spec, levels, first),
                 Place(c, first, Len(c), k), Len(levels))
    BY <1>5, <1>7, <2>1, <2>2, VillageIsSynced
  <2>4. SyncedAt(spec, tree, people, p[2], Len(levels))
    BY <1>6, <2>2, <2>3
  <2> QED
    BY <1>9, <2>4 DEF SyncedAt, Staffed
<1>14. May(p[1], p[2], registration_type_ids(used[p[1]]))
  <2>1. PICK l \in tree : /\ l.id = p[2] /\ l.address = Len(levels)
                          /\ \A m \in tree : m.id = p[2] => m = l
    BY <1>13
  <2>2. \A m : m \in Of("address_level") /\ m.org = p[1] <=> m \in tree
    BY <1>8 DEF of
  <2>3. (CHOOSE m \in Of("address_level") : m.org = p[1] /\ m.id = p[2]) = l
    BY <2>1, <2>2
  <2>4. TypeAt(p[1], p[2]) = levels[Len(levels)].name
    BY <1>2, <1>3, <2>1, <2>3 DEF TypeAt, LevelsOf
  <2>5. PICK ref : ref = recipe.refs[p[1]]
    OBVIOUS
  <2>6. IsForest(ref) /\ p[1] \in DOMAIN recipe.refs /\ levels = establishment(spec, ref)
    BY <1>2, <1>3, <2>5, TenantIs DEF RowInv, LevelsOf
  <2>7. registration_type_ids(ref) \subseteq ref.types
    BY <2>5, <2>6, DatasetAssumption DEF RowInv, IInv, registration_type_ids, PermittedAreThere
  <2>8. \/ registration_type_ids(ref) = {}
        \/ levels[Len(levels)].name \in registration_type_ids(ref)
    BY <1>5, <1>7, <2>6, <2>7, EndsPermitted
  <2> QED
    BY <1>2, <2>4, <2>5, <2>8 DEF May
<1>15. WideAsTheFirst(used[p[1]]) => May(p[1], p[2], _widest_subject_type(used[p[1]]).permitted)
  <2>1. PICK own, type : /\ own = _widest_subject_type(used[p[1]]).permitted
                         /\ type = TypeAt(p[1], p[2])
    OBVIOUS
  <2>2. PICK permitted : permitted = registration_type_ids(used[p[1]])
    OBVIOUS
  <2>3. permitted = {} \/ type \in permitted
    BY <1>14, <2>1, <2>2 DEF May
  <2>4. WideAsTheFirst(used[p[1]]) => own = {} \/ (permitted # {} /\ permitted \subseteq own)
    BY <2>1, <2>2 DEF WideAsTheFirst
  <2>5. WideAsTheFirst(used[p[1]]) => own = {} \/ type \in own
    BY <2>3, <2>4
  <2> QED
    BY <2>1, <2>5 DEF May
<1> QED
  BY <1>8, <1>12, <1>13, <1>15

\* Whatever the deployment and the target's hierarchy, every subject that is written is
\* synced by its village's field workers and one supervisor, members of the group, and
\* nobody else; and where its own type, the widest, may be registered wherever the first
\* may, it is placed where its own type may be registered.
THEOREM SubjectsAreSynced == Spec => []EverySubjectIsSynced
<1>1. RowInv /\ ShareInv /\ TreeInv /\ WholeInv => EverySubjectIsSynced
  BY SyncedImplies
<1>2. Init => RowInv /\ IdInv /\ ShareInv /\ TreeInv /\ WholeInv
  <2>1. Init => RowInv /\ IdInv /\ ShareInv
    BY InitIInv, InitFeedInv, InitPlaceInv, InitShareInv DEF RowInv
  <2>2. Init => TreeInv /\ WholeInv
    BY DEF Init, TreeInv, WholeInv, Written
  <2> QED
    BY <2>1, <2>2
<1>3. RowInv /\ IdInv /\ ShareInv /\ TreeInv /\ WholeInv /\ [Next]_vars
         => (RowInv /\ IdInv /\ ShareInv /\ TreeInv /\ WholeInv)'
  <2>1. RowInv /\ [Next]_vars => RowInv'
    BY NextIInv, FeedStep, PlaceStep DEF RowInv
  <2> QED
    BY <2>1, IdStep, ShareStep, TreeStep, WholeStep
<1> QED
  BY <1>1, <1>2, <1>3, PTL DEF Spec
==============================================================================
