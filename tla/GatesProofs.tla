----------------------------- MODULE GatesProofs -----------------------------
(***************************************************************************)
(* What generate.py writes unasked is built from the bundles its recipe    *)
(* means, what validate.py blesses is accounted for, and what calibrate.py *)
(* passes has been tested, for any recipes, command lines, bundles,        *)
(* statistics, waivers and syncs.                                          *)
(***************************************************************************)
EXTENDS Gates, FiniteSetTheorems, FunctionTheorems, SequenceTheorems, WellFoundedInduction, TLAPS

\* An organisation of the recipe is some tenant's.
LEMMA TenantOfIsTheirs ==
    ASSUME NEW o \in Orgs
    PROVE  TenantOf(o) \in ToSet(recipe.tenants) /\ TenantOf(o).org = o
<1>1. \E t \in ToSet(recipe.tenants) : t.org = o
  BY DEF Orgs
<1> QED
  BY <1>1 DEF TenantOf

\* An archetype outranks --bundle and the recipe: where nothing is unresolved,
\* its tenants are built from it.
LEMMA ArchetypesAreBuilt ==
    ASSUME NEW c, unresolved_archetypes(c.root) = {}, NEW o \in Orgs,
           TenantOf(o).bundle_path = "", TenantOf(o).archetype # ""
    PROVE  paths(c)[o] = Root[TenantOf(o).archetype]
<1>1. TenantOf(o).archetype \in archetypes
  BY TenantOfIsTheirs DEF archetypes
<1>2. c.root
  BY <1>1 DEF unresolved_archetypes
<1>3. ~overruled(TenantOf(o), c.bundle)
  BY DEF overruled
<1> QED
  BY <1>2, <1>3 DEF paths, bundle_paths

\* A path of a tenant's own outranks everything, on any command line.
LEMMA OwnPathsAreBuilt ==
    ASSUME NEW c, NEW o \in Orgs, TenantOf(o).bundle_path # ""
    PROVE  /\ paths(c)[o] = TenantOf(o).bundle_path
           /\ bundle_paths(FALSE)[o] = TenantOf(o).bundle_path
<1>1. ~overruled(TenantOf(o), c.bundle)
  BY DEF overruled
<1> QED
  BY <1>1 DEF paths, bundle_paths

\* Tenants that choose nothing are all built from one bundle.
LEMMA OthersShareOne ==
    ASSUME NEW c, NEW p \in Orgs,
           \A t \in ToSet(recipe.tenants) : t.bundle_path = "" /\ t.archetype = ""
    PROVE  Cardinality({paths(c)[o] : o \in Orgs}) = 1
<1> DEFINE one == IF c.bundle # "" THEN c.bundle ELSE recipe.bundle_path
<1>1. ASSUME NEW o \in Orgs PROVE paths(c)[o] = one
  <2>1. TenantOf(o).bundle_path = "" /\ TenantOf(o).archetype = ""
    BY TenantOfIsTheirs
  <2>2. overruled(TenantOf(o), c.bundle) <=> c.bundle # ""
    BY <2>1 DEF overruled
  <2>3. bundle_paths(c.root)[o] = recipe.bundle_path
    BY <2>1 DEF bundle_paths
  <2> QED
    BY <2>2, <2>3 DEF paths
<1>2. {paths(c)[o] : o \in Orgs} = {one}
  BY <1>1
<1> QED
  BY <1>2, FS_Singleton

\* What a run of generate.py that refuses nothing has seen to.
LEMMA GeneratedRight ==
    ASSUME NEW c, Generate(c), BuiltFromItsRecipe
    PROVE  BuiltFromItsRecipe'
<1> SUFFICES ASSUME gate' = "generate", answer'.exit = 0
             PROVE  BuiltFromItsRecipe'
  BY DEF BuiltFromItsRecipe, Passed
<1>0. status(c) = 0
  <2>1. answer'.exit = status(c)
    BY DEF Generate
  <2> QED
    BY <2>1
<1>1. ~refused(c) /\ unassigned_organisations = {}
  BY <1>0 DEF status
<1>2. /\ answer' = [exit |-> 0, command |-> c, built |-> [o \in Orgs |-> disk[paths(c)[o]]]]
      /\ recipe' = recipe /\ disk' = disk
  BY <1>0 DEF Generate
<1>3. /\ answer'.command = c
      /\ \A o \in Orgs : answer'.built[o] = disk[paths(c)[o]]
  BY <1>2
<1>4. Orgs' = Orgs /\ \A o : TenantOf(o)' = TenantOf(o) /\ Recorded(o)' = Recorded(o)
  BY <1>2 DEF Orgs, TenantOf, Recorded
<1>5. \A o \in Orgs : o # 0 /\ answer'.built[o] # 0
  <2>1. \A o \in Orgs : o # 0
    BY <1>1, TenantOfIsTheirs DEF unassigned_organisations
  <2> QED
    BY <1>1, <1>3, <2>1 DEF refused
<1>6. ASSUME NEW o \in Orgs, TenantOf(o).bundle_path = "", TenantOf(o).archetype # ""
      PROVE  answer'.built[o] = disk[Root[TenantOf(o).archetype]]
  BY <1>1, <1>3, <1>6, ArchetypesAreBuilt DEF refused
<1>7. ASSUME NEW o \in Orgs, TenantOf(o).bundle_path # "", Recorded(o) # 0,
             ~c.allow_bundle_mismatch
      PROVE  answer'.built[o] = Recorded(o)
  <2>1. check_tenant_bundles = {}
    BY <1>1, <1>7 DEF refused, mismatched
  <2>2. disk[bundle_paths(FALSE)[o]] = Recorded(o)
    BY <1>7, <2>1 DEF check_tenant_bundles
  <2> QED
    BY <1>3, <1>7, <2>2, OwnPathsAreBuilt
<1>8. ASSUME NEW o \in Orgs
      PROVE  {"subject type", "encounter type"} \subseteq c.refs[o]
  <2>1. _refs(c.refs)
    BY <1>1 DEF refused
  <2>2. {"subject type", "encounter type", "locations"} \subseteq own(c.refs, o)
    BY <2>1 DEF _refs
  <2> QED
    BY <2>2 DEF own
<1>9. ASSUME \A t \in ToSet(recipe.tenants) : t.bundle_path = "" /\ t.archetype = "",
             recipe.bundle_fingerprint # 0, ~c.allow_bundle_mismatch, NEW o \in Orgs
      PROVE  answer'.built[o] = recipe.bundle_fingerprint
  <2>1. Cardinality({paths(c)[q] : q \in Orgs}) = 1
    BY <1>9, OthersShareOne
  <2>2. ~check_bundle(paths(c)[o])
    BY <1>1, <1>9, <2>1 DEF refused, mismatched
  <2> QED
    BY <1>3, <1>9, <2>2 DEF check_bundle
<1> QED
  BY <1>2, <1>3, <1>4, <1>5, <1>6, <1>7, <1>8, <1>9 DEF BuiltFromItsRecipe

\* A dataset that generate.py wrote unasked is built from the bundles its recipe
\* recorded, no archetype's tenant from anything else, and each organisation
\* has its own references.
THEOREM BuiltAsRecorded == Spec => []BuiltFromItsRecipe
<1>0. Nothing.exit # 0
  BY DEF Nothing, None
<1>1. Init => BuiltFromItsRecipe
  BY <1>0 DEF Init, BuiltFromItsRecipe, Passed
<1>2. BuiltFromItsRecipe /\ [Next]_vars => BuiltFromItsRecipe'
  <2> SUFFICES ASSUME BuiltFromItsRecipe, [Next]_vars PROVE BuiltFromItsRecipe'
    OBVIOUS
  <2>1. ASSUME answer' = Nothing PROVE BuiltFromItsRecipe'
    <3>1. answer'.exit # 0
      BY <1>0, <2>1
    <3> QED
      BY <3>1 DEF BuiltFromItsRecipe, Passed
  <2>2. CASE gate = "generate" /\ Generating
    <3>1. ASSUME NEW path \in DOMAIN disk, NEW content \in Contents, Edit(path, content)
          PROVE  BuiltFromItsRecipe'
      BY <2>1, <3>1 DEF Edit
    <3>2. ASSUME NEW eachTenant \in BOOLEAN, from_deployment(eachTenant)
          PROVE  BuiltFromItsRecipe'
      BY <2>1, <3>2 DEF from_deployment
    <3>3. ASSUME NEW c \in Commands, Generate(c) PROVE BuiltFromItsRecipe'
      BY <3>3, GeneratedRight
    <3> QED
      BY <2>2, <3>1, <3>2, <3>3 DEF Generating
  <2>3. CASE gate = "validate" /\ \E ms \in Measurements : Validate(ms)
    BY <2>3 DEF Validate, BuiltFromItsRecipe, Passed
  <2>4. CASE gate = "calibrate" /\ \E syncs \in Syncs : Calibrate(syncs)
    BY <2>4 DEF Calibrate, BuiltFromItsRecipe, Passed
  <2>6. CASE gate = "calibrate" /\ Unreadable
    BY <2>6 DEF Unreadable, BuiltFromItsRecipe, Passed
  <2>5. CASE UNCHANGED vars
    <3>1. gate' = gate /\ recipe' = recipe /\ disk' = disk /\ answer' = answer
      BY <2>5 DEF vars
    <3>2. Orgs' = Orgs /\ \A o : TenantOf(o)' = TenantOf(o) /\ Recorded(o)' = Recorded(o)
      BY <3>1 DEF Orgs, TenantOf, Recorded
    <3> QED
      BY <3>1, <3>2 DEF BuiltFromItsRecipe, Passed
  <2> QED
    BY <2>2, <2>3, <2>4, <2>5, <2>6 DEF Next
<1> QED
  BY <1>1, <1>2, PTL DEF Spec

\* Within a quarter of a whole, either way.
LEMMA WithinAQuarter ==
    ASSUME NEW v \in Int, NEW q \in Int, NEW w \in Int, Off(<<v, q>>, w, WAIVER_DRIFT)
    PROVE  3 * w * q <= 4 * v /\ 4 * v <= 5 * w * q
<1> DEFINE whole == w * q
<1>1. whole \in Int /\ 3 * w * q = 3 * whole /\ 5 * w * q = 5 * whole /\ 250 * w * q = 250 * whole
  BY SMT
<1>2. Abs(v - whole) * 1000 <= 250 * whole
  BY <1>1 DEF Off, WAIVER_DRIFT
<1> HIDE DEF whole
<1>3. 3 * whole <= 4 * v /\ 4 * v <= 5 * whole
  BY <1>1, <1>2 DEF Abs
<1> QED
  BY <1>1, <1>3

\* No check fails before it warns: what is within a tolerance is within the
\* outer bound.
LEMMA ToleratedIsWithinBounds ==
    ASSUME NEW ms \in Measurements, NEW m \in ms, NEW k \in run(m), k.observed # << >>,
           Off(k.observed, k.expected, k.tolerance)
    PROVE  Off(k.observed, k.expected, k.fail_beyond)
<1> DEFINE bounds == {<<1, 10>>, <<350, 600>>, <<200, 500>>, <<250, 600>>, <<300, 600>>}
<1>1. <<k.tolerance, k.fail_beyond>> \in bounds
  <2> DEFINE s == m.stats
             p == PROFILE[m.table]
             counted == Check("row count", Measured(s.rows), m.expected_rows, 1, 10)
             gin == Check("GIN bytes/row", PerRow(s.gin, s.rows), p.gin, 350, 600)
             all == Check("index bytes/row", PerRow(s.all_index, s.rows), p.all_index, 350, 600)
             median == Check("obs keys p50", Measured(s.p50), p.p50, 200, 500)
             spread == Check("obs keys p95", Measured(s.p95), p.p95, 250, 600)
             size == Check("obs mean bytes", Measured(s.mean_bytes), p.mean_bytes, 300, 600)
  <2>1. run(m) = (IF m.expected_rows = None THEN {} ELSE {counted})
                 \cup (IF p.weighed /\ s.rows \notin {None, 0} THEN {gin, all} ELSE {})
                 \cup (IF p.targeted
                       THEN {median, spread} \cup IF p.mean_bytes = 0 THEN {} ELSE {size}
                       ELSE {})
    BY Zenon DEF run
  <2>2. /\ counted.tolerance = 1 /\ counted.fail_beyond = 10
        /\ gin.tolerance = 350 /\ gin.fail_beyond = 600
        /\ all.tolerance = 350 /\ all.fail_beyond = 600
        /\ median.tolerance = 200 /\ median.fail_beyond = 500
        /\ spread.tolerance = 250 /\ spread.fail_beyond = 600
        /\ size.tolerance = 300 /\ size.fail_beyond = 600
    BY DEF Check
  <2> HIDE DEF counted, gin, all, median, spread, size
  <2>3. k \in {counted, gin, all, median, spread, size}
    BY <2>1
  <2> QED
    BY <2>2, <2>3
<1> DEFINE v == k.observed[1]  whole == k.expected * k.observed[2]
<1>2. v \in Int /\ whole \in Nat
  BY StatisticsAreNumbers
<1>3. \A b \in Nat : b * k.expected * k.observed[2] = b * whole
  BY StatisticsAreNumbers
<1>4. \A b \in Nat : Off(k.observed, k.expected, b) <=> Abs(v - whole) * 1000 <= b * whole
  BY <1>3 DEF Off
<1>5. Abs(v - whole) \in Int
  BY <1>2 DEF Abs
<1> HIDE DEF v, whole
<1>6. \A d \in bounds :
          Abs(v - whole) * 1000 <= d[1] * whole => Abs(v - whole) * 1000 <= d[2] * whole
  BY <1>2, <1>5
<1>7. k.tolerance \in Nat /\ k.fail_beyond \in Nat
  BY <1>1
<1> QED
  BY <1>1, <1>4, <1>6, <1>7

\* One run of validate.py that fails nothing.
LEMMA BlessedRight ==
    ASSUME NEW ms \in Measurements, Validate(ms)
    PROVE  BlessedIsAccountedFor'
<1> SUFFICES ASSUME answer'.exit = 0, NEW m \in ms, NEW k \in run(m), k.observed # << >>, k.expected # 0,
                    ~Off(k.observed, k.expected, k.fail_beyond)
             PROVE  /\ k.name \in DOMAIN m.waivers
                    /\ \/ m.waivers[k.name] = 0
                       \/ /\ 3 * m.waivers[k.name] * k.observed[2] <= 4 * k.observed[1]
                          /\ 4 * k.observed[1] <= 5 * m.waivers[k.name] * k.observed[2]
  <2>1. answer'.measured = ms
    BY DEF Validate
  <2> QED
    BY <2>1 DEF BlessedIsAccountedFor, Passed
<1>1. apply_waivers(k, m.waivers) # "fail"
  <2>1. answer'.exit = IF \E o \in ms : \E q \in run(o) : apply_waivers(q, o.waivers) = "fail"
                       THEN 1 ELSE 0
    BY DEF Validate
  <2> QED
    BY <2>1
<1>2. k.name \in DOMAIN m.waivers /\ within_drift(k, m.waivers)
  <2>1. CASE _band(k) = "fail"
    BY <1>1, <2>1 DEF apply_waivers
  <2>2. CASE _band(k) # "fail"
    <3>1. Off(k.observed, k.expected, k.tolerance)
      BY <2>2 DEF _band
    <3> QED
      BY <3>1, ToleratedIsWithinBounds
  <2> QED
    BY <2>1, <2>2
<1>3. CASE Off(k.observed, m.waivers[k.name], WAIVER_DRIFT)
  <2>1. k.observed \in Int \X Int /\ m.waivers[k.name] \in Int
    BY <1>2, StatisticsAreNumbers
  <2>2. k.observed = <<k.observed[1], k.observed[2]>> /\ k.observed[1] \in Int
        /\ k.observed[2] \in Int
    BY <2>1
  <2> QED
    BY <1>2, <1>3, <2>1, <2>2, WithinAQuarter
<1> QED
  BY <1>2, <1>3 DEF within_drift

\* Every statistic of a blessed dataset that was measured is within its check's
\* outer bound, or its check is waived: without a value, or with one that the
\* statistic is within a quarter of.
THEOREM BlessingsAreAccountedFor == Spec => []BlessedIsAccountedFor
<1>0. Nothing.exit # 0
  BY DEF Nothing, None
<1>1. Init => BlessedIsAccountedFor
  BY <1>0 DEF Init, BlessedIsAccountedFor, Passed
<1>2. BlessedIsAccountedFor /\ [Next]_vars => BlessedIsAccountedFor'
  <2> SUFFICES ASSUME BlessedIsAccountedFor, [Next]_vars PROVE BlessedIsAccountedFor'
    OBVIOUS
  <2>1. CASE gate = "validate" /\ \E ms \in Measurements : Validate(ms)
    BY <2>1, BlessedRight
  <2>2. CASE gate = "generate" /\ Generating
    <3>1. gate' # "validate"
      BY <2>2 DEF Generating, Edit, from_deployment, Generate
    <3> QED
      BY <3>1 DEF BlessedIsAccountedFor, Passed
  <2>3. CASE gate = "calibrate" /\ \E syncs \in Syncs : Calibrate(syncs)
    BY <2>3 DEF Calibrate, BlessedIsAccountedFor, Passed
  <2>4. CASE gate = "calibrate" /\ Unreadable
    BY <2>4 DEF Unreadable, BlessedIsAccountedFor, Passed
  <2>5. CASE UNCHANGED vars
    BY <2>5 DEF vars, BlessedIsAccountedFor, Passed
  <2> QED
    BY <2>1, <2>2, <2>3, <2>4, <2>5 DEF Next
<1> QED
  BY <1>1, <1>2, PTL DEF Spec
-----------------------------------------------------------------------------
(* calibrate.py: the loop of cohorts, its sort and its medians.            *)

\* Every place is somebody's: no two numbers have the same rank.
LEMMA RanksAreTaken ==
    ASSUME NEW n \in Nat, NEW numbers \in [1..n -> Int], NEW k \in 1..n
    PROVE  \E i \in 1..n : rank(numbers, i) = k
<1> DEFINE upTo(i) == {j \in 1..n : numbers[j] < numbers[i] \/ (numbers[j] = numbers[i] /\ j <= i)}
           ranks == [i \in 1..n |-> rank(numbers, i)]
<1>1. IsFiniteSet(1..n) /\ Cardinality(1..n) = n
  BY FS_Interval
<1>2. \A i \in 1..n : rank(numbers, i) = Cardinality(upTo(i))
  BY DEF rank
<1>3. ASSUME NEW i \in 1..n
      PROVE  /\ upTo(i) \in SUBSET (1..n) /\ i \in upTo(i)
             /\ IsFiniteSet(upTo(i)) /\ rank(numbers, i) \in 1..n
  <2>1. upTo(i) \in SUBSET (1..n) /\ i \in upTo(i)
    OBVIOUS
  <2>2. IsFiniteSet(upTo(i)) /\ Cardinality(upTo(i)) <= n
    BY <1>1, <2>1, FS_Subset
  <2>3. Cardinality(upTo(i)) \in Nat /\ Cardinality(upTo(i)) # 0
    BY <2>1, <2>2, FS_CardinalityType, FS_EmptySet
  <2> QED
    BY <1>2, <2>1, <2>2, <2>3
<1>4. ASSUME NEW i \in 1..n, NEW j \in 1..n, rank(numbers, i) = rank(numbers, j)
      PROVE  i = j
  <2>1. upTo(i) \subseteq upTo(j) \/ upTo(j) \subseteq upTo(i)
    OBVIOUS
  <2>2. upTo(i) = upTo(j)
    BY <1>2, <1>3, <1>4, <2>1, FS_Subset
  <2>3. i \in upTo(j) /\ j \in upTo(i)
    BY <1>3, <2>2
  <2> QED
    BY <2>3
<1>5. ranks \in Injection(1..n, 1..n)
  <2>1. ranks \in [1..n -> 1..n]
    BY <1>3
  <2>2. \A i, j \in 1..n : ranks[i] = ranks[j] => i = j
    BY <1>4
  <2> QED
    BY <2>1, <2>2, Fun_IsInj
<1>6. ranks \in Surjection(1..n, 1..n)
  BY <1>1, <1>5, FS_Injection
<1>7. \A m \in 1..n : \E i \in 1..n : ranks[i] = m
  BY <1>6 DEF Surjection
<1> QED
  BY <1>7

\* What sorted makes of rows is made of those rows.
LEMMA SortedAreTheirs ==
    ASSUME NEW rows, NEW n \in Nat, DOMAIN rows = 1..n, NEW numbers \in [DOMAIN rows -> Int]
    PROVE  /\ DOMAIN sorted(rows, numbers) = DOMAIN rows
           /\ \A k \in DOMAIN rows : sorted(rows, numbers)[k] \in ToSet(rows)
<1> SUFFICES ASSUME NEW k \in 1..n PROVE sorted(rows, numbers)[k] \in ToSet(rows)
  BY DEF sorted
<1> DEFINE at == CHOOSE i \in DOMAIN rows : rank(numbers, i) = k
<1>1. at \in DOMAIN rows
  <2>1. numbers \in [1..n -> Int]
    OBVIOUS
  <2>2. \E i \in 1..n : rank(numbers, i) = k
    BY <2>1, RanksAreTaken, Zenon
  <2> QED
    BY <2>2
<1>2. sorted(rows, numbers)[k] = rows[at]
  BY DEF sorted
<1> QED
  BY <1>1, <1>2 DEF ToSet

\* A sum lies between twice the one summand and twice the other.
LEMMA SumIsBetween ==
    ASSUME NEW x \in Int, NEW y \in Int
    PROVE  \/ 2 * x <= x + y /\ x + y <= 2 * y
           \/ 2 * y <= x + y /\ x + y <= 2 * x
OBVIOUS

\* A median lies between two of the numbers.
LEMMA MedianIsBetween ==
    ASSUME NEW numbers \in Seq(Int), numbers # << >>
    PROVE  /\ Median(numbers) \in Int
           /\ \E i, j \in 1..Len(numbers) : /\ 2 * numbers[i] <= Median(numbers)
                                            /\ Median(numbers) <= 2 * numbers[j]
<1> DEFINE n == Len(numbers)  s == sorted(numbers, numbers)
<1>1. n \in Nat \ {0} /\ DOMAIN numbers = 1..n /\ numbers \in [1..n -> Int]
  BY EmptySeq, LenProperties
<1>2. \A k \in 1..n : \E i \in 1..n : s[k] = numbers[i]
  <2>1. \A k \in 1..n : s[k] \in ToSet(numbers)
    <3> HIDE DEF n
    <3> QED
      BY <1>1, SortedAreTheirs
  <2> QED
    BY <1>1, <2>1 DEF ToSet
<1> HIDE DEF s
<1>3. CASE n % 2 = 1
  <2>1. (n + 1) \div 2 \in 1..n
    BY <1>1, <1>3
  <2>2. Median(numbers) = 2 * s[(n + 1) \div 2]
    BY <1>3 DEF Median, s
  <2>3. PICK i \in 1..n : s[(n + 1) \div 2] = numbers[i]
    BY <1>2, <2>1
  <2> QED
    BY <1>1, <2>2, <2>3
<1>4. CASE n % 2 # 1
  <2>1. n \div 2 \in 1..n /\ (n \div 2) + 1 \in 1..n
    BY <1>1, <1>4
  <2>2. Median(numbers) = s[n \div 2] + s[(n \div 2) + 1]
    BY <1>4 DEF Median, s
  <2>3. PICK i \in 1..n, j \in 1..n : s[n \div 2] = numbers[i] /\ s[(n \div 2) + 1] = numbers[j]
    BY <1>2, <2>1
  <2>4. numbers[i] \in Int /\ numbers[j] \in Int
    BY <1>1
  <2>5. /\ Median(numbers) \in Int
        /\ \/ /\ 2 * numbers[i] <= Median(numbers)
              /\ Median(numbers) <= 2 * numbers[j]
           \/ /\ 2 * numbers[j] <= Median(numbers)
              /\ Median(numbers) <= 2 * numbers[i]
    <3>1. Median(numbers) = numbers[i] + numbers[j]
      BY <2>2, <2>3
    <3> QED
      BY <2>4, <3>1, SumIsBetween
  <2> QED
    BY <2>5
<1> QED
  BY <1>3, <1>4

\* Every nonempty set of naturals has a least element.
LEMMA LeastNatural ==
    ASSUME NEW S \in SUBSET Nat, S # {}
    PROVE  \E x \in S : \A y \in S : x <= y
<1>1. PICK x \in S : \A y \in S : <<y, x>> \notin OpToRel(<, Nat)
  BY NatLessThanWellFounded, WFMin
<1>2. ASSUME NEW y \in S, y < x PROVE <<y, x>> \in OpToRel(<, Nat)
  BY <1>2 DEF OpToRel
<1>3. \A y \in S : ~(y < x)
  BY <1>1, <1>2
<1> QED
  BY <1>3

\* A row joins the last cohort or starts one: no cohort is ever empty.
LEMMA GroupedAreCohorts ==
    ASSUME NEW Rows, NEW out \in Seq(Seq(Rows) \ {<< >>}), NEW row \in Rows
    PROVE  grouped(out, row) \in Seq(Seq(Rows) \ {<< >>}) /\ grouped(out, row) # << >>
<1> DEFINE Cohorts == Seq(Rows) \ {<< >>}
<1>1. CASE out # << >> /\ row.records * 10 <= out[Len(out)][1].records * 11
  <2>1. Len(out) \in 1..Len(out) /\ out[Len(out)] \in Cohorts
    BY <1>1, EmptySeq, ElementOfSeq
  <2>2. Append(out[Len(out)], row) \in Cohorts
    BY <2>1, AppendProperties, EmptySeq
  <2>3. grouped(out, row) = [out EXCEPT ![Len(out)] = Append(out[Len(out)], row)]
    BY <1>1 DEF grouped
  <2>4. grouped(out, row) \in Seq(Cohorts) /\ Len(grouped(out, row)) = Len(out)
    BY <2>1, <2>2, <2>3, ExceptSeq
  <2> QED
    BY <2>1, <2>4, EmptySeq
<1>2. CASE ~(out # << >> /\ row.records * 10 <= out[Len(out)][1].records * 11)
  <2>1. <<row>> \in Cohorts
    OBVIOUS
  <2>2. grouped(out, row) = Append(out, <<row>>)
    BY <1>2 DEF grouped
  <2> QED
    BY <2>1, <2>2, AppendProperties
<1> QED
  BY <1>1, <1>2

\* What the loop over the rows has grouped after each: the function that cohorts
\* recurs on exists, and each of its values is a sequence of cohorts.
Groupings(rows, n) ==
    {g \in [0..n -> Seq(Seq(ToSet(rows)) \ {<< >>})] :
        \A m \in 0..n : g[m] = IF m = 0 THEN << >> ELSE grouped(g[m - 1], rows[m])}
LEMMA LoopsEnd ==
    ASSUME NEW rows, NEW N \in Nat, DOMAIN rows = 1..N, NEW n \in 0..N
    PROVE  Groupings(rows, n) # {}
<1> DEFINE Cohorts == Seq(ToSet(rows)) \ {<< >>}
           lacking == {m \in 0..N : Groupings(rows, m) = {}}
<1>1. SUFFICES ASSUME lacking # {} PROVE FALSE
  OBVIOUS
<1>2. PICK m \in lacking : \A other \in lacking : m <= other
  <2>1. lacking \in SUBSET Nat
    OBVIOUS
  <2> HIDE DEF lacking
  <2> QED
    BY <1>1, <2>1, LeastNatural
<1>3. CASE m = 0
  <2> DEFINE g == [k \in 0..0 |-> << >>]
  <2>1. g \in [0..0 -> Seq(Cohorts)]
    BY EmptySeq
  <2>2. g \in Groupings(rows, 0)
    BY <2>1 DEF Groupings
  <2> QED
    BY <1>2, <1>3, <2>2
<1>4. CASE m # 0
  <2>1. m - 1 \in 0..N /\ m - 1 \notin lacking /\ m \in 1..N
    BY <1>2, <1>4
  <2>2. PICK g \in Groupings(rows, m - 1) : TRUE
    BY <2>1
  <2>3. /\ g \in [0..(m - 1) -> Seq(Cohorts)]
        /\ \A k \in 0..(m - 1) : g[k] = IF k = 0 THEN << >> ELSE grouped(g[k - 1], rows[k])
    BY <2>2 DEF Groupings
  <2> DEFINE h == [k \in 0..m |-> IF k = m THEN grouped(g[m - 1], rows[m]) ELSE g[k]]
  <2>4. rows[m] \in ToSet(rows)
    BY <2>1 DEF ToSet
  <2>5. grouped(g[m - 1], rows[m]) \in Seq(Cohorts)
    <3>1. g[m - 1] \in Seq(Cohorts)
      BY <2>1, <2>3
    <3> HIDE DEF lacking
    <3> QED
      BY <2>4, <3>1, GroupedAreCohorts
  <2>6. h \in [0..m -> Seq(Cohorts)]
    BY <2>1, <2>3, <2>5
  <2>7. ASSUME NEW k \in 0..m
        PROVE  h[k] = IF k = 0 THEN << >> ELSE grouped(h[k - 1], rows[k])
    <3>1. CASE k = m
      <4>1. h[k - 1] = g[m - 1]
        BY <2>1, <3>1
      <4> QED
        BY <2>1, <3>1, <4>1
    <3>2. CASE k # m
      <4>1. k \in 0..(m - 1) /\ h[k] = g[k] /\ (k # 0 => h[k - 1] = g[k - 1])
        BY <2>1, <3>2
      <4> QED
        BY <2>3, <4>1
    <3> QED
      BY <3>1, <3>2
  <2>8. h \in Groupings(rows, m)
    BY <2>6, <2>7 DEF Groupings
  <2> QED
    BY <1>2, <2>8
<1> QED
  BY <1>3, <1>4

\* The cohorts of some syncs are made of them, and there is at least one.
LEMMA CohortsAreTheirs ==
    ASSUME NEW syncs \in Seq([records : Int, ms : Int]), syncs # << >>
    PROVE  /\ cohorts(syncs) \in Seq(Seq(ToSet(syncs)) \ {<< >>})
           /\ cohorts(syncs) # << >>
<1> DEFINE N == Len(syncs)
           rows == sorted(syncs, Of(syncs, "records"))
           Cohorts(some) == Seq(ToSet(some)) \ {<< >>}
           Step(g) == [n \in 0..N |-> IF n = 0 THEN << >> ELSE grouped(g[n - 1], rows[n])]
           out == CHOOSE g : g = Step(g)
<1>1. N \in Nat \ {0} /\ DOMAIN syncs = 1..N
  BY EmptySeq, LenProperties
<1>2. cohorts(syncs) = out[N]
  BY DEF cohorts
<1>3. DOMAIN rows = 1..N
  BY <1>1 DEF sorted
<1>4. ToSet(rows) \subseteq ToSet(syncs)
  <2>1. Of(syncs, "records") \in [1..N -> Int]
    <3>1. \A i \in 1..N : syncs[i] \in [records : Int, ms : Int]
      BY ElementOfSeq
    <3>2. \A i \in 1..N : syncs[i]["records"] \in Int
      BY <3>1
    <3> QED
      BY <1>1, <3>2 DEF Of
  <2> DEFINE numbers == Of(syncs, "records")
  <2>2. N \in Nat /\ DOMAIN syncs = 1..N /\ numbers \in [DOMAIN syncs -> Int]
    BY <1>1, <2>1
  <2> HIDE DEF N, numbers
  <2>3. \A k \in DOMAIN syncs : sorted(syncs, numbers)[k] \in ToSet(syncs)
    BY <2>2, SortedAreTheirs
  <2>4. rows = sorted(syncs, numbers)
    BY DEF numbers
  <2> HIDE DEF rows
  <2> QED
    BY <1>1, <1>3, <2>3, <2>4 DEF ToSet
<1> HIDE DEF rows
<1>5. PICK g \in Groupings(rows, N) : TRUE
  BY <1>1, <1>3, LoopsEnd
<1>6. g = Step(g)
  BY <1>5 DEF Groupings
<1>7. out = Step(out)
  BY <1>6
<1> HIDE DEF out
<1>8. ASSUME NEW n \in 0..N PROVE out[n] = g[n]
  <2> DEFINE apart == {m \in 0..N : out[m] # g[m]}
  <2>1. SUFFICES ASSUME apart # {} PROVE FALSE
    OBVIOUS
  <2>2. PICK m \in apart : \A other \in apart : m <= other
    <3>1. apart \in SUBSET Nat
      BY <1>1
    <3> HIDE DEF apart
    <3> QED
      BY <2>1, <3>1, LeastNatural
  <2>3. m # 0
    BY <1>6, <1>7, <2>2
  <2>4. m - 1 \in 0..N /\ out[m - 1] = g[m - 1]
    BY <2>2, <2>3
  <2>5. \A h : Step(h)[m] = grouped(h[m - 1], rows[m])
    BY <2>3, <2>4
  <2>6. Step(out)[m] = Step(g)[m]
    BY <2>4, <2>5
  <2>7. out[m] = Step(out)[m] /\ g[m] = Step(g)[m]
    <3> HIDE DEF Step
    <3> QED
      BY <1>6, <1>7
  <2>8. out[m] # g[m]
    BY <2>2
  <2> QED
    BY <2>6, <2>7, <2>8
<1>9. /\ g[N] = grouped(g[N - 1], rows[N]) /\ rows[N] \in ToSet(rows)
      /\ g[N - 1] \in Seq(Cohorts(rows))
  <2>1. N \in 0..N /\ N # 0 /\ N - 1 \in 0..N /\ N \in DOMAIN rows
    BY <1>1, <1>3
  <2>2. g[N] = grouped(g[N - 1], rows[N])
    BY <1>6, <2>1
  <2>3. g \in [0..N -> Seq(Cohorts(rows))]
    BY <1>5 DEF Groupings
  <2> QED
    BY <2>1, <2>2, <2>3 DEF ToSet
<1>10. g[N] \in Seq(Cohorts(rows)) /\ g[N] # << >>
  BY <1>9, GroupedAreCohorts
<1>11. Cohorts(rows) \subseteq Cohorts(syncs)
  BY <1>4, SeqMonotonic
<1>12. g[N] \in Seq(Cohorts(syncs))
  BY <1>10, <1>11, SeqMonotonic
<1>13. cohorts(syncs) = g[N]
  BY <1>1, <1>2, <1>8
<1> QED
  BY <1>10, <1>12, <1>13

\* What a sequence holds is of its elements' kind.
LEMMA TheirsAreOfAKind ==
    ASSUME NEW S, NEW rows \in Seq(S)
    PROVE  ToSet(rows) \subseteq S
<1>1. DOMAIN rows = 1..Len(rows) /\ \A i \in 1..Len(rows) : rows[i] \in S
  BY LenProperties, ElementOfSeq
<1> QED
  BY <1>1 DEF ToSet

\* A cohort has records and milliseconds, and its medians lie between them.
LEMMA CohortsMeasure ==
    ASSUME NEW syncs \in Seq([records : Int, ms : Int]), NEW f \in {"records", "ms"},
           NEW c \in Seq(ToSet(syncs)) \ {<< >>}
    PROVE  /\ Median(Of(c, f)) \in Int
           /\ \E a, b \in ToSet(syncs) :
                  2 * a[f] <= Median(Of(c, f)) /\ Median(Of(c, f)) <= 2 * b[f]
<1>1. \A s \in ToSet(syncs) : s \in [records : Int, ms : Int]
  BY TheirsAreOfAKind
<1>2. \A i \in 1..Len(c) : c[i] \in ToSet(syncs)
  BY ElementOfSeq
<1>3. \A i \in 1..Len(c) : c[i][f] \in Int
  BY <1>1, <1>2
<1> DEFINE numbers == Of(c, f)
<1>4. Len(c) \in Nat \ {0} /\ DOMAIN c = 1..Len(c)
  BY EmptySeq, LenProperties
<1>5. numbers = [i \in 1..Len(c) |-> c[i][f]]
  BY <1>4 DEF Of
<1> HIDE DEF numbers
<1>6. numbers \in Seq(Int) /\ Len(numbers) = Len(c) /\ numbers # << >>
  BY <1>3, <1>4, <1>5, IsASeq, LenProperties, EmptySeq
<1>7. Median(numbers) \in Int
  BY <1>6, MedianIsBetween
<1>8. PICK i \in 1..Len(numbers), j \in 1..Len(numbers) :
          2 * numbers[i] <= Median(numbers) /\ Median(numbers) <= 2 * numbers[j]
  BY <1>6, MedianIsBetween
<1>9. c[i] \in ToSet(syncs) /\ c[j] \in ToSet(syncs) /\ numbers[i] = c[i][f] /\ numbers[j] = c[j][f]
  BY <1>2, <1>5, <1>6, <1>8
<1> QED
  BY <1>7, <1>8, <1>9 DEF numbers

\* Numbers on either side of bounds that are a factor of two apart are so too.
LEMMA FarApart ==
    ASSUME NEW x \in Int, NEW y \in Int, NEW lower \in Int, NEW upper \in Int,
           2 * x <= lower, upper <= 2 * y, ~(lower <= 0), ~(upper < 2 * lower)
    PROVE  2 * x <= y /\ y > 0
OBVIOUS

\* A slope is measured between two syncs of which one has at least twice the
\* records of the other.
LEMMA SlopesSpan ==
    ASSUME NEW syncs \in Seq([records : Int, ms : Int]), syncs # << >>, slope(syncs) # << >>
    PROVE  /\ slope(syncs)[1] \in Int /\ slope(syncs)[2] \in Int
           /\ \E a, b \in ToSet(syncs) : a # b /\ 2 * a.records <= b.records
<1> DEFINE groups == cohorts(syncs)
           lo == groups[1]
           hi == groups[Len(groups)]
           r_lo == Median(Of(lo, "records"))
           r_hi == Median(Of(hi, "records"))
           s_lo == Median(Of(lo, "ms"))
           s_hi == Median(Of(hi, "ms"))
           Cohorts == Seq(ToSet(syncs)) \ {<< >>}
<1>1. slope(syncs) = IF Len(groups) < 2 THEN << >>
                     ELSE IF r_lo <= 0 \/ r_hi < 2 * r_lo THEN << >>
                     ELSE <<s_hi - s_lo, r_hi - r_lo>>
  BY DEF slope
<1>2. ~(r_lo <= 0) /\ ~(r_hi < 2 * r_lo) /\ slope(syncs) = <<s_hi - s_lo, r_hi - r_lo>>
  BY <1>1
<1>3. lo \in Cohorts /\ hi \in Cohorts
  <2>1. groups \in Seq(Cohorts) /\ groups # << >>
    BY CohortsAreTheirs
  <2> HIDE DEF groups
  <2>2. Len(groups) \in Nat \ {0}
    BY <2>1, EmptySeq, LenProperties
  <2> QED
    BY <2>1, <2>2, ElementOfSeq
<1> HIDE DEF groups, lo, hi
<1>4. r_lo \in Int /\ r_hi \in Int /\ s_lo \in Int /\ s_hi \in Int
  BY <1>3, CohortsMeasure
<1>5. PICK a \in ToSet(syncs) : 2 * a["records"] <= r_lo
  BY <1>3, CohortsMeasure
<1>6. PICK b \in ToSet(syncs) : r_hi <= 2 * b["records"]
  BY <1>3, CohortsMeasure
<1> HIDE DEF r_lo, r_hi, s_lo, s_hi
<1>7. a.records \in Int /\ b.records \in Int /\ a.records = a["records"] /\ b.records = b["records"]
  <2>1. a \in [records : Int, ms : Int] /\ b \in [records : Int, ms : Int]
    BY TheirsAreOfAKind
  <2> QED
    BY <2>1
<1>8. 2 * a.records <= b.records /\ b.records > 0
  <2>1. 2 * a.records <= r_lo /\ r_hi <= 2 * b.records
    BY <1>5, <1>6, <1>7
  <2> QED
    BY <1>2, <1>4, <1>7, <2>1, FarApart
<1>9. a # b
  BY <1>7, <1>8
<1> QED
  BY <1>2, <1>4, <1>8, <1>9

\* One run of calibrate.py that passes.
LEMMA CalibratedRight ==
    ASSUME NEW syncs \in Syncs, Calibrate(syncs)
    PROVE  PassIsACalibration'
<1> SUFFICES ASSUME answer'.exit = 0 PROVE PassIsACalibration'
  BY DEF PassIsACalibration, Passed
<1>1. answer'.syncs = syncs /\ report(syncs) = "PASS"
  <2>1. answer' = [exit |-> IF report(syncs) = "PASS" THEN 0 ELSE 1, syncs |-> syncs,
                   says |-> report(syncs)]
    BY DEF Calibrate
  <2> QED
    BY <2>1
<1>2. syncs # << >> /\ (\A s \in ToSet(syncs) : judge(s)) /\ slope_check(syncs)
  BY <1>1 DEF report
<1>3. syncs \in Seq([records : Int, ms : Int])
  BY SyncsAreNumbers
<1>4. \A s \in ToSet(syncs) : s.records <= LIGHT => s.ms >= P50
  BY <1>2 DEF judge, band_for
<1> DEFINE d == slope(syncs)
<1>5. /\ d[1] \in Int /\ d[2] \in Int
      /\ \E a, b \in ToSet(syncs) : a # b /\ 2 * a.records <= b.records
  BY <1>2, <1>3, SlopesSpan DEF slope_check
<1>6. factor_allowed(d)
  BY <1>2 DEF slope_check
<1> HIDE DEF d
<1>7. d[1] >= 0 => 26 * d[2] <= 10 * d[1] /\ 10 * d[1] <= 104 * d[2]
  BY <1>5, <1>6 DEF factor_allowed
<1> QED
  BY <1>1, <1>4, <1>5, <1>7 DEF PassIsACalibration, d

\* A simulation that passes has been tested: no light sync is faster than
\* production's median, two syncs are twice apart in volume, and where the heavier
\* ones take longer, a record costs between half and twice production's.
THEOREM CalibrationsAreTested == Spec => []PassIsACalibration
<1>0. Nothing.exit # 0
  BY DEF Nothing, None
<1>1. Init => PassIsACalibration
  BY <1>0 DEF Init, PassIsACalibration, Passed
<1>2. PassIsACalibration /\ [Next]_vars => PassIsACalibration'
  <2> SUFFICES ASSUME PassIsACalibration, [Next]_vars PROVE PassIsACalibration'
    OBVIOUS
  <2>1. CASE gate = "calibrate" /\ \E syncs \in Syncs : Calibrate(syncs)
    BY <2>1, CalibratedRight
  <2>2. CASE gate = "generate" /\ Generating
    <3>1. gate' # "calibrate"
      BY <2>2 DEF Generating, Edit, from_deployment, Generate
    <3> QED
      BY <3>1 DEF PassIsACalibration, Passed
  <2>3. CASE gate = "validate" /\ \E ms \in Measurements : Validate(ms)
    BY <2>3 DEF Validate, PassIsACalibration, Passed
  <2>4. CASE gate = "calibrate" /\ Unreadable
    BY <2>4 DEF Unreadable, PassIsACalibration, Passed
  <2>5. CASE UNCHANGED vars
    BY <2>5 DEF vars, PassIsACalibration, Passed
  <2> QED
    BY <2>1, <2>2, <2>3, <2>4, <2>5 DEF Next
<1> QED
  BY <1>1, <1>2, PTL DEF Spec
==============================================================================
