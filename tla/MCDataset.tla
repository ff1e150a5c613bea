------------------------------- MODULE MCDataset -------------------------------
(***************************************************************************)
(* Small deployments: villages of one or two field workers, a tenant sized *)
(* as a co-tenant, hierarchies that go on below the villages, one whose    *)
(* registration type hangs off the side, and a deployment too big for the  *)
(* ids.  The measured fan-outs are 2, 5/2 and 5/2 for 11.3, 5.8 and 2.8.   *)
(***************************************************************************)
EXTENDS Dataset

MCEstablishment == <<[name |-> "State", per |-> <<1, 1>>], [name |-> "District", per |-> <<2, 1>>],
                     [name |-> "Sub-Centre", per |-> <<5, 2>>], [name |-> "Village", per |-> <<5, 2>>]>>

Tenant(org, workers, perVillage, subjectsPerVillage, total, span) ==
    [org |-> org, field_workers |-> workers, per_village |-> perVillage,
     beneficiaries |-> subjectsPerVillage, rate |-> 1, total |-> total,
     supervisor |-> "Sub-Centre", span |-> span]

NoTypes == [types |-> {}, parent |-> << >>, programs |-> TRUE,
            subject_types |-> <<[elements |-> 2, permitted |-> {}]>>]
Spine == [types |-> {"State", "Sub-Centre", "Village", "Home", "Hospital"},
          parent |-> [t \in {"Sub-Centre", "Village", "Home", "Hospital"} |->
                        CASE t = "Sub-Centre" -> "State" [] t = "Village" -> "Sub-Centre"
                          [] t = "Home" -> "Village" [] t = "Hospital" -> "State"],
          programs |-> TRUE,
          subject_types |-> <<[elements |-> 2, permitted |-> {"Village", "Sub-Centre"}],
                              [elements |-> 2, permitted |-> {}]>>]
OffTheSpine == [Spine EXCEPT !.subject_types[1].permitted = {"Hospital"}]
AtTheCentre == [Spine EXCEPT !.programs = FALSE, !.subject_types =
                   <<[elements |-> 2, permitted |-> {"Sub-Centre"}],
                     [elements |-> 5, permitted |-> {"Sub-Centre", "Village"}]>>]
WithoutPrograms == [Spine EXCEPT !.programs = FALSE]
WiderAtHome == [Spine EXCEPT !.subject_types[2] = [elements |-> 5, permitted |-> {"Home"}]]

Deployment(base, tenants, refsOf) ==
    [id_base |-> base, tenants |-> tenants, specs |-> {tenants[i] : i \in DOMAIN tenants},
     refs |-> refsOf]
Pair(first, second) == [o \in {"A", "B"} |-> IF o = "A" THEN first ELSE second]
Alone(ref) == [o \in {"A"} |-> ref]

MCRecipes == {
    Deployment(3, <<Tenant("A", 4, 2, 1, 3, None), Tenant("B", 1, 1, 1, None, None)>>,
               Pair(Spine, NoTypes)),
    Deployment(0, <<CoTenant("A", 3, 2, 1, 3), Tenant("B", 2, 1, 1, None, None)>>,
               Pair(WithoutPrograms, AtTheCentre)),
    Deployment(0, <<Tenant("A", 1, 2, 2, 2, None)>>, Alone(WiderAtHome)),
    Deployment(0, <<Tenant("A", 5, 1, 1, 0, 2)>>, Alone(WithoutPrograms)),
    Deployment(0, <<Tenant("A", 2, 2, 1, 1, 1)>>, Alone(WithoutPrograms)),
    Deployment(0, <<Tenant("A", 1, 1, 1, 1, None)>>, Alone(OffTheSpine)),
    Deployment(20, <<Tenant("A", 40, 1, 1, 1, None)>>, Alone([NoTypes EXCEPT !.programs = FALSE]))}
MCReimports == {AtTheCentre, OffTheSpine}

\* They are deployments that IdsStayApart is about.
ASSUME BandsHaveRoom
===============================================================================
