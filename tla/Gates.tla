-------------------------------- MODULE Gates --------------------------------
(***************************************************************************)
(* The three gates before a finding: generate.py, which refuses a recipe   *)
(* whose bundles, columns or references are not what it was written for;   *)
(* validate.py, which blesses a loaded dataset; and calibrate.py, which    *)
(* accepts the simulation as an instrument.  They share no state: a        *)
(* behaviour is about one of them.                                         *)
(*                                                                         *)
(* A bundle is known by its content, 0 for no directory.  Ratios are       *)
(* compared by their products, in thousandths.                             *)
(***************************************************************************)
EXTENDS Integers, Sequences, FiniteSets, SequencesExt

CONSTANTS
    Recipes,      \* recipes as they are written: tenants and bundle_path
    Commands,     \* the command lines of generate.py, with its files
    Root,         \* archetype -> its directory under --bundle-root
    Contents,     \* the contents a bundle directory may have, 0 for none
    CONTRACTS,    \* table -> the columns written and those left alone
    PROFILE,      \* table -> what production has, and 0 for what was not measured
    Measurements, \* what validate.sql may find, as sets of tables' statistics, each
                  \* with the rows expected of it and its waivers
    Syncs,        \* the sync-durations.csv files calibrate.py may be given
    MaxEdits      \* changes of a bundle directory in a behaviour

VARIABLES
    gate,    \* the gate this behaviour is about
    recipe,  \* the recipe, with its fingerprints
    disk,    \* path -> the bundle there
    edits,   \* changes made
    answer   \* what the tool said last
vars == <<gate, recipe, disk, edits, answer>>
-----------------------------------------------------------------------------
None == -1
Nothing == [exit |-> None]
Orgs == {t.org : t \in ToSet(recipe.tenants)}
TenantOf(org) == CHOOSE t \in ToSet(recipe.tenants) : t.org = org

\* Whoever replaces an extracted bundle.
Edit(path, content) ==
    /\ edits < MaxEdits /\ path # ""
    /\ disk' = [disk EXCEPT ![path] = content] /\ disk' # disk
    /\ edits' = edits + 1 /\ answer' = Nothing
    /\ UNCHANGED <<gate, recipe>>

bundle_paths(root) ==
    [o \in Orgs |->
        LET t == TenantOf(o)
        IN IF t.bundle_path # "" THEN t.bundle_path
           ELSE IF t.archetype # "" /\ root THEN Root[t.archetype] ELSE recipe.bundle_path]
archetypes == {t.archetype : t \in ToSet(recipe.tenants)} \ {""}
unresolved_archetypes(root) == {a \in archetypes : ~root \/ disk[Root[a]] = 0}
unassigned_organisations == {t \in ToSet(recipe.tenants) : t.org = 0}

\* Recipe.from_deployment, with the tenants' bundles or without; both hash what
\* is there now.
fingerprint_tenants == [o \in Orgs |-> disk[bundle_paths(FALSE)[o]]]
from_deployment(eachTenant) ==
    /\ recipe' = [recipe EXCEPT
           !.bundle_fingerprint = disk[recipe.bundle_path],
           !.tenant_fingerprints = IF eachTenant THEN fingerprint_tenants ELSE << >>]
    /\ answer' = Nothing
    /\ UNCHANGED <<gate, disk, edits>>

\* What main builds each organisation from: --bundle is for those that choose
\* nothing themselves.
\* Slip: --bundle overrules an archetype.
OverrulesArchetypes(t, bundle) == bundle # "" /\ t.bundle_path = ""
overruled(t, bundle) == bundle # "" /\ t.bundle_path = "" /\ t.archetype = ""
paths(c) ==
    [o \in Orgs |-> IF overruled(TenantOf(o), c.bundle) THEN c.bundle
                    ELSE bundle_paths(c.root)[o]]

Recorded(org) == IF org \in DOMAIN recipe.tenant_fingerprints
                 THEN recipe.tenant_fingerprints[org] ELSE 0
check_tenant_bundles ==
    {o \in Orgs : Recorded(o) # 0 /\ disk[bundle_paths(FALSE)[o]] # Recorded(o)}
check_bundle(path) == recipe.bundle_fingerprint # 0 /\ disk[path] # recipe.bundle_fingerprint
mismatched(c) ==
    \/ check_tenant_bundles # {}
    \/ Cardinality({paths(c)[o] : o \in Orgs}) = 1
         /\ \E o \in Orgs : check_bundle(paths(c)[o])

\* schema.verify: every column of the target is accounted for, and none that is
\* written is gone.
unaccounted(table, columns) ==
    columns \ (CONTRACTS[table].populated \cup CONTRACTS[table].unwritten)
missing(table, columns) == CONTRACTS[table].populated \ columns
verify_all(columns) ==
    \A t \in DOMAIN columns : /\ t \in DOMAIN CONTRACTS
                              /\ unaccounted(t, columns[t]) = {} /\ missing(t, columns[t]) = {}

\* _refs: each organisation's own subject type, encounter type and registration
\* locations.
own(refs, org) == IF org \in DOMAIN refs THEN refs[org] ELSE {}
_refs(refs) == \A o \in Orgs : {"subject type", "encounter type", "locations"} \subseteq own(refs, o)

refused(c) ==
    \/ unresolved_archetypes(c.root) # {}
    \/ \E o \in Orgs : disk[paths(c)[o]] = 0
    \/ mismatched(c) /\ ~c.allow_bundle_mismatch
    \/ ~verify_all(c.columns)
    \/ ~_refs(c.refs)
status(c) ==
    IF unassigned_organisations # {} THEN 1  \* to_deployment raises
    ELSE IF refused(c) THEN 2 ELSE 0
Generate(c) ==
    /\ answer' = [exit |-> status(c), command |-> c,
                  built |-> IF status(c) # 0 THEN << >> ELSE [o \in Orgs |-> disk[paths(c)[o]]]]
    /\ UNCHANGED <<gate, recipe, disk, edits>>
-----------------------------------------------------------------------------
\* A value p/q against what is expected: how far off, in thousandths.
Abs(n) == IF n < 0 THEN -n ELSE n
Off(value, expected, bound) ==
    Abs(value[1] - expected * value[2]) * 1000 <= bound * expected * value[2]
_band(k) ==
    CASE k.observed = << >> \/ k.expected = 0 -> "warn"
      [] OTHER -> IF Off(k.observed, k.expected, k.tolerance) THEN "pass"
                  ELSE IF Off(k.observed, k.expected, k.fail_beyond) THEN "warn" ELSE "fail"
Check(name, observed, expected, tolerance, fail_beyond) ==
    [name |-> name, observed |-> observed, expected |-> expected,
     tolerance |-> tolerance, fail_beyond |-> fail_beyond]

\* validate.run: the checks made of a table's statistics.  A table that has none
\* in the file is not checked, whatever was expected of it.
Measured(n) == IF n = None THEN << >> ELSE <<n, 1>>
PerRow(n, rows) == IF n = None THEN << >> ELSE <<n, rows>>
run(m) ==
    LET s == m.stats  p == PROFILE[m.table]
    IN (IF m.expected_rows = None THEN {}
        ELSE {Check("row count", Measured(s.rows), m.expected_rows, 1, 10)})
       \cup (IF p.weighed /\ s.rows \notin {None, 0}
             THEN {Check("GIN bytes/row", PerRow(s.gin, s.rows), p.gin, 350, 600),
                   Check("index bytes/row", PerRow(s.all_index, s.rows), p.all_index, 350, 600)}
             ELSE {})
       \cup (IF p.targeted
             THEN {Check("obs keys p50", Measured(s.p50), p.p50, 200, 500),
                   Check("obs keys p95", Measured(s.p95), p.p95, 250, 600)}
                  \cup IF p.mean_bytes = 0 THEN {}
                       ELSE {Check("obs mean bytes", Measured(s.mean_bytes), p.mean_bytes, 300, 600)}
             ELSE {})

\* A failure is waived while it stays within a quarter of the value accepted; a
\* waiver that names no value, 0 here, waives whatever is measured.
WAIVER_DRIFT == 250
\* Slip: once accepted, accepted.
Accepted(k, waivers) == TRUE
within_drift(k, waivers) ==
    waivers[k.name] = 0 \/ Off(k.observed, waivers[k.name], WAIVER_DRIFT)
apply_waivers(k, waivers) ==
    IF _band(k) = "fail" /\ k.name \in DOMAIN waivers /\ within_drift(k, waivers)
    THEN "waived" ELSE _band(k)

\* Statistics, sizes and accepted values are numbers, or were not measured.
ASSUME StatisticsAreNumbers ==
    \A ms \in Measurements : \A m \in ms : \A k \in run(m) :
        /\ k.observed = << >> \/ k.observed \in Int \X Nat
        /\ k.expected \in Nat
        /\ k.name \in DOMAIN m.waivers => m.waivers[k.name] \in Int
Validate(ms) ==
    /\ answer' = [exit |-> IF \E m \in ms : \E k \in run(m) : apply_waivers(k, m.waivers) = "fail"
                          THEN 1 ELSE 0,
                  measured |-> ms]
    /\ UNCHANGED <<gate, recipe, disk, edits>>
-----------------------------------------------------------------------------
\* calibrate.py.  A sync is its records and its milliseconds.
LIGHT == 5000
BAND_2_FLOOR == 23750
P50 == 14100
band_for(records) ==
    IF records <= LIGHT THEN "light" ELSE IF records >= BAND_2_FLOOR THEN "heavy" ELSE "none"
\* judge: only a light sync below the median fails; the heavy band has no p95.
judge(sync) == band_for(sync.records) = "light" => sync.ms >= P50

\* sorted: by these numbers, and those with the same one in the order they came.
rank(numbers, i) ==
    Cardinality({j \in DOMAIN numbers : \/ numbers[j] < numbers[i]
                                        \/ numbers[j] = numbers[i] /\ j <= i})
sorted(rows, numbers) ==
    [k \in DOMAIN rows |-> rows[CHOOSE i \in DOMAIN rows : rank(numbers, i) = k]]
Of(cohort, f) == [i \in DOMAIN cohort |-> cohort[i][f]]

\* Syncs of comparable volume, smallest first: a cohort takes what is within a
\* tenth of the one it started with.
grouped(out, row) ==
    IF out # << >> /\ row.records * 10 <= out[Len(out)][1].records * 11
    THEN [out EXCEPT ![Len(out)] = Append(@, row)] ELSE Append(out, <<row>>)
cohorts(syncs) ==
    LET rows == sorted(syncs, Of(syncs, "records"))
        out[n \in 0..Len(syncs)] == IF n = 0 THEN << >> ELSE grouped(out[n - 1], rows[n])
    IN out[Len(syncs)]

\* Twice the median, to stay with whole numbers.
Median(numbers) ==
    LET s == sorted(numbers, numbers)  n == Len(numbers)
    IN IF n % 2 = 1 THEN 2 * s[(n + 1) \div 2] ELSE s[n \div 2] + s[(n \div 2) + 1]

\* The lightest and the heaviest cohort, at least twice apart: the milliseconds
\* and the records between them, or nothing.
slope(syncs) ==
    LET groups == cohorts(syncs)
        lo == groups[1]  hi == groups[Len(groups)]
        r_lo == Median(Of(lo, "records"))  r_hi == Median(Of(hi, "records"))
    IN IF Len(groups) < 2 THEN << >>
       ELSE IF r_lo <= 0 \/ r_hi < 2 * r_lo THEN << >>
       ELSE <<Median(Of(hi, "ms")) - Median(Of(lo, "ms")), r_hi - r_lo>>

\* max(ratio, 1/ratio) <= 2, of ms/records to 5.2; a ratio of 0 is infinitely
\* off, and a negative one is its own maximum or its inverse's: below any factor.
\* Slip: how far the ratio is from 1, which no speed can make more than 1.
FromOne(d) == Abs(10 * d[1] - 52 * d[2]) <= 52 * d[2]
factor_allowed(d) ==
    \/ d[1] < 0
    \/ d[1] > 0 /\ 10 * d[1] <= 2 * 52 * d[2] /\ 52 * d[2] <= 2 * 10 * d[1]
slope_check(syncs) == slope(syncs) # << >> /\ factor_allowed(slope(syncs))

\* report: no syncs at all is a failure, and an inconclusive slope gives its name
\* to whatever the bands said.
report(syncs) ==
    IF syncs = << >> THEN "FAIL"
    ELSE IF (\A s \in ToSet(syncs) : judge(s)) /\ slope_check(syncs) THEN "PASS"
    ELSE IF slope(syncs) = << >> THEN "INCONCLUSIVE" ELSE "FAIL"

\* read: records and milliseconds are what int() makes of them, any other line is
\* left out.  A file that cannot be opened is no file of syncs.
ASSUME SyncsAreNumbers == Syncs \subseteq Seq([records : Int, ms : Int])
Calibrate(syncs) ==
    /\ answer' = [exit |-> IF report(syncs) = "PASS" THEN 0 ELSE 1, syncs |-> syncs,
                  says |-> report(syncs)]
    /\ UNCHANGED <<gate, recipe, disk, edits>>
Unreadable ==
    /\ answer' = [exit |-> 2, syncs |-> << >>, says |-> "error"]
    /\ UNCHANGED <<gate, recipe, disk, edits>>
-----------------------------------------------------------------------------
Init ==
    /\ gate \in {"generate", "validate", "calibrate"}
    /\ recipe \in Recipes /\ disk = recipe.disk
    /\ gate # "generate" => recipe = CHOOSE r \in Recipes : TRUE  \* not read there
    /\ edits = 0 /\ answer = Nothing
Generating ==
    \/ \E path \in DOMAIN disk, content \in Contents : Edit(path, content)
    \/ \E eachTenant \in BOOLEAN : from_deployment(eachTenant)
    \/ answer = Nothing /\ \E c \in Commands : Generate(c)
\* None of the tools remembers: asking again would say the same.
Next ==
    \/ gate = "generate" /\ Generating
    \/ gate = "validate" /\ answer = Nothing /\ \E ms \in Measurements : Validate(ms)
    \/ gate = "calibrate" /\ answer = Nothing /\ \E syncs \in Syncs : Calibrate(syncs)
    \/ gate = "calibrate" /\ answer = Nothing /\ Unreadable
Spec == Init /\ [][Next]_vars
-----------------------------------------------------------------------------
Passed(tool) == gate = tool /\ answer.exit = 0

\* A dataset that generate.py wrote unasked is built from the bundles its recipe
\* recorded, wherever a tenant names its own or all share one; no tenant with an
\* archetype is built from anything but that archetype; and each organisation
\* has its own references.
BuiltFromItsRecipe ==
    Passed("generate") =>
        /\ \A o \in Orgs : LET t == TenantOf(o) IN
             /\ o # 0 /\ answer.built[o] # 0
             /\ t.bundle_path = "" /\ t.archetype # "" =>
                  answer.built[o] = disk[Root[t.archetype]]
             /\ t.bundle_path # "" /\ Recorded(o) # 0 /\ ~answer.command.allow_bundle_mismatch =>
                  answer.built[o] = Recorded(o)
             /\ {"subject type", "encounter type"} \subseteq answer.command.refs[o]
        /\ (\A t \in ToSet(recipe.tenants) : t.bundle_path = "" /\ t.archetype = "")
           /\ recipe.bundle_fingerprint # 0 /\ ~answer.command.allow_bundle_mismatch =>
             \A o \in Orgs : answer.built[o] = recipe.bundle_fingerprint

\* Every statistic of a blessed dataset that was measured is within its check's
\* outer bound, or somebody waived that check: and where the waiver names a value,
\* the statistic is within a quarter of it.  One that names none has no end, see
\* WaiversEnd.
BlessedIsAccountedFor ==
    Passed("validate") =>
        \A m \in answer.measured : \A k \in run(m) : k.observed # << >> /\ k.expected # 0 =>
            \/ Off(k.observed, k.expected, k.fail_beyond)
            \/ LET w == m.waivers
               IN /\ k.name \in DOMAIN w
                  /\ w[k.name] = 0 \/ /\ 3 * w[k.name] * k.observed[2] <= 4 * k.observed[1]
                                      /\ 4 * k.observed[1] <= 5 * w[k.name] * k.observed[2]

\* validate.py of its waivers: a waiver "is not an instruction to ignore the check
\* forever".  So a statistic that is waived as it is would fail again as nothing at all,
\* or as ten times what is expected.  False of the code, of a waiver that names no value.
WaiversEnd ==
    Passed("validate") =>
        \A m \in answer.measured : \A k \in run(m) :
            apply_waivers(k, m.waivers) = "waived" =>
                \E n \in {0, 10 * k.expected} :
                    apply_waivers([k EXCEPT !.observed = <<n, 1>>], m.waivers) = "fail"

\* A simulation that passes has been tested: no light sync is faster than
\* production's median, two syncs are twice apart in volume, and where the heavier
\* ones take longer, a record costs between half and twice production's.  Where they
\* take less time, see SlopesAreAFactorApart.
PassIsACalibration ==
    Passed("calibrate") =>
        /\ \A s \in ToSet(answer.syncs) : s.records <= LIGHT => s.ms >= P50
        /\ \E a, b \in ToSet(answer.syncs) : a # b /\ 2 * a.records <= b.records
        /\ LET d == slope(answer.syncs)
           IN d[1] >= 0 => 26 * d[2] <= 10 * d[1] /\ 10 * d[1] <= 104 * d[2]

\* calibrate.py, of how far the slope "may sit from production's, as a factor either
\* way": "twice too slow fails as surely as twice too fast".  False of the code, of a slope
\* below zero.
SlopesAreAFactorApart ==
    Passed("calibrate") =>
        LET d == slope(answer.syncs)
        IN 26 * d[2] <= 10 * d[1] /\ 10 * d[1] <= 104 * d[2]
==============================================================================
