---------------------------- MODULE MCSyncSession ----------------------------
(***************************************************************************)
(* Instances of SyncSession for TLC.  The pushable entities are the        *)
(* source's; a small instance keeps the two whose needs differ most.       *)
(***************************************************************************)
EXTENDS SyncSession, TLC

CONSTANTS v1, v2, v3, a1, a2

\* The virtual users of one scenario differ in nothing but their order of arrival.
Interchangeable == Permutations(Customers) \cup Permutations(CoTenants)

AllKinds == {"Individual", "ProgramEnrolment", "ProgramEncounter", "Encounter"}
TwoKinds == {"Individual", "Encounter"}

\* The order of avni-entities.json.
TablePlace == [k \in {"Individual", "ProgramEnrolment", "ProgramEncounter",
                      "Encounter"} |->
                 CASE k = "Individual" -> 4 [] k = "ProgramEnrolment" -> 5
                   [] k = "ProgramEncounter" -> 6 [] OTHER -> 8]
AllPlaces == TablePlace
TwoPlaces == [k \in TwoKinds |-> TablePlace[k]]

\* PushSeed.canPush...: an enrolment and an encounter hang off a subject, a
\* program encounter off an enrolment.
AllNeeds == [k \in AllKinds |->
    CASE k = "Individual" -> {"Individual"}
      [] k = "ProgramEnrolment" -> {"ProgramEnrolment", "Individual"}
      [] k = "ProgramEncounter" -> {"ProgramEncounter", "ProgramEnrolment"}
      [] OTHER -> {"Encounter", "Individual"}]
TwoNeeds == [k \in TwoKinds |-> AllNeeds[k]]
AllMedia == {"ProgramEncounter", "Encounter"}
OneKind == {"Encounter"}
OnePlace == [k \in OneKind |-> TablePlace[k]]
OneNeed == [k \in OneKind |-> OneKind]
TwoMedia == {"Encounter"}

Epoch(a) == [user |-> a, since |-> "epoch"]

OneAccount == <<Epoch(a1)>>
TwoAccounts == <<Epoch(a1), Epoch(a2)>>
NoFile == <<>>

HoldsOneKind == [a \in Accounts |-> OneKind]
HoldsTwoKinds == [a \in Accounts |-> TwoKinds]
\* The second account's catchment has subjects and no encounters.
HoldsUnevenly == [a \in Accounts |-> IF a = a2 THEN {"Individual"} ELSE TwoKinds]
HoldsNoEncounter == [a \in Accounts |-> AllKinds \ {"ProgramEncounter"}]
==============================================================================
