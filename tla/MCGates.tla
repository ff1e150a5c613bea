-------------------------------- MODULE MCGates --------------------------------
(***************************************************************************)
(* Two tenants: on a bundle of their own, on an archetype or on the        *)
(* deployment's; statistics on both sides of every bound; and sync files   *)
(* of up to three lines around the bands' and the cohorts' edges.           *)
(***************************************************************************)
EXTENDS Gates

Tenant(org, path, archetype) == [org |-> org, bundle_path |-> path, archetype |-> archetype]
Recipe(tenants, path) ==
    [tenants |-> tenants, bundle_path |-> path, bundle_fingerprint |-> 0,
     tenant_fingerprints |-> << >>,
     disk |-> [p \in {"", "base", "own", "big", "other"} |-> IF p = "" THEN 0 ELSE 1]]
MCRecipes == {
    Recipe(<<Tenant(1, "", ""), Tenant(2, "", "")>>, "base"),
    Recipe(<<Tenant(1, "own", ""), Tenant(2, "", "")>>, ""),
    Recipe(<<Tenant(1, "own", ""), Tenant(2, "", "big")>>, "base"),
    Recipe(<<Tenant(1, "", ""), Tenant(0, "", "")>>, "base")}
MCRoot == [a \in {"big"} |-> "big"]

Contract == [populated |-> {"id", "uuid"}, unwritten |-> {"audit_id"}]
MCCONTRACTS == [t \in {"individual"} |-> Contract]
Target(columns) == [t \in {"individual"} |-> columns]
AsContracted == Target({"id", "uuid", "audit_id"})
Every == {"subject type", "encounter type", "locations"}
RefsOf(two) == [o \in {0, 1, 2} |-> IF o = 2 THEN two ELSE Every]
Command(bundle, root, allow, columns, refs) ==
    [bundle |-> bundle, root |-> root, allow_bundle_mismatch |-> allow, columns |-> columns,
     refs |-> refs]
MCCommands ==
    {Command(b, r, a, AsContracted, RefsOf(Every)) : b \in {"", "other"}, r, a \in BOOLEAN}
    \cup {Command("", TRUE, TRUE, Target(c), RefsOf(Every)) :
             c \in {{"id", "uuid", "added"}, {"id"}, {"id", "uuid"}}}
    \cup {Command("", TRUE, FALSE, AsContracted, RefsOf(two)) :
             two \in {{}, Every \ {"encounter type"}}}

MCPROFILE == [t \in {"individual", "users"} |->
    IF t = "users" THEN [weighed |-> FALSE, targeted |-> FALSE]
    ELSE [weighed |-> TRUE, gin |-> 10, all_index |-> 40, targeted |-> TRUE, p50 |-> 10,
          p95 |-> 20, mean_bytes |-> 0]]
Stats(rows, gin, p50) ==
    [rows |-> rows, gin |-> gin, all_index |-> 40000, p50 |-> p50, p95 |-> 25, mean_bytes |-> None]
NoWaivers == << >>
Waiver(name, value) == [n \in {name} |-> value]
Individuals ==
    {[table |-> "individual", stats |-> Stats(r, g, p), expected_rows |-> e, waivers |-> w] :
        r \in {None, 0, 1000, 1100}, g \in {None, 14000, 20000, 30000},
        p \in {4, 12, 21}, e \in {None, 1000},
        w \in {NoWaivers, Waiver("row count", 1000), Waiver("GIN bytes/row", 16),
               Waiver("obs keys p50", 16), Waiver("obs keys p50", 0)}}
Users == {[table |-> "users", stats |-> Stats(r, None, None), expected_rows |-> 10,
           waivers |-> NoWaivers] : r \in {None, 9, 10}}
Fair == [table |-> "individual", stats |-> Stats(1000, 14000, 12), expected_rows |-> None,
         waivers |-> Waiver("GIN bytes/row", 16)]
MCMeasurements == {{}} \cup {{m} : m \in Individuals \cup Users} \cup {{Fair, u} : u \in Users}

Sync(records, ms) == [records |-> records, ms |-> ms]
Samples == {Sync(r, ms) : r \in {2000, 4400, 5919}, ms \in {14000, 15000, 30000}}
           \cup {Sync(0, 15000), Sync(23750, 120000), Sync(23750, 60000), Sync(2200, 16000)}
MCSyncs == {<< >>} \cup {<<a>> : a \in Samples} \cup {<<a, b>> : a, b \in Samples}
           \cup {<<a, b, c>> : a, b, c \in Samples}
===============================================================================
