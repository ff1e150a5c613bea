------------------------ MODULE SyncSessionRefinement ------------------------
(***************************************************************************)
(* SyncSession implements ClientSync: every step of the load generator is  *)
(* a step of the devices it simulates, or one they do not notice.          *)
(***************************************************************************)
EXTENDS SyncSessionProofs

\* A run starts where the devices do: absent, clean, told nothing, not logged.
LEMMA InitRefines == Init => Promise!Init
  <1> SUFFICES ASSUME Init
               PROVE  Promise!Init
    OBVIOUS
  <1>1. Stage = [v \in VUs |-> "absent"]
    BY DEF Init, Stage, StageOf
  <1>2. \A v \in VUs : "push" \notin failedAt[v]
    BY DEF Init
  <1>3. Clean = [v \in VUs |-> TRUE]
    BY <1>2, Zenon DEF Clean
  <1>4. Logged = {}
    BY DEF Init, Logged
  <1> QED
    BY <1>1, <1>3, <1>4 DEF Init, Promise!Init

\* A virtual user's step changes the mapped state at that virtual user only.
LEMMA MappedStep ==
  ASSUME TypeOK, NEW v \in VUs, Arrive(v) \/ Step(v)
  PROVE  /\ Stage' = [Stage EXCEPT ![v] = StageOf(pc'[v])]
         /\ Clean' = [Clean EXCEPT ![v] = ("push" \notin failedAt'[v])]
         /\ syncDetails' = [syncDetails EXCEPT ![v] = syncDetails'[v]]
         /\ pulled' = [pulled EXCEPT ![v] = pulled'[v]]
  <1>1. \A w \in VUs \ {v} : SameSession(w)
    BY OthersUntouched
  <1>2. TypeOK'
    BY StepTypeOK DEF Next
  <1>3. \A w \in VUs \ {v} : pc'[w] = pc[w] /\ failedAt'[w] = failedAt[w]
    BY <1>1 DEF SameSession
  <1>4. \A w \in VUs \ {v} : syncDetails'[w] = syncDetails[w] /\ pulled'[w] = pulled[w]
    BY <1>1 DEF SameSession
  <1>5. Stage' = [Stage EXCEPT ![v] = StageOf(pc'[v])]
    BY <1>3 DEF Stage
  <1>6. Clean' = [Clean EXCEPT ![v] = ("push" \notin failedAt'[v])]
    BY <1>3 DEF Clean
  <1>7. /\ syncDetails \in [VUs -> SUBSET Details] /\ syncDetails' \in [VUs -> SUBSET Details]
        /\ pulled \in [VUs -> SUBSET Details] /\ pulled' \in [VUs -> SUBSET Details]
    BY <1>2 DEF TypeOK
  <1>8. /\ syncDetails' = [syncDetails EXCEPT ![v] = syncDetails'[v]]
        /\ pulled' = [pulled EXCEPT ![v] = pulled'[v]]
    BY <1>4, <1>7
  <1> QED
    BY <1>5, <1>6, <1>8

\* No record of a clean sync was refused.
CleanAt(failures) == "push" \notin failures

\* What a step makes of the cleanliness of its own virtual user is all it makes
\* of Clean.
LEMMA CleanAfter ==
  ASSUME TypeOK, NEW v \in VUs, Arrive(v) \/ Step(v)
  PROVE  /\ Clean[v] = CleanAt(failedAt[v])
         /\ Clean' = [Clean EXCEPT ![v] = CleanAt(failedAt'[v])]
         /\ CleanAt(failedAt'[v]) = CleanAt(failedAt[v]) => Clean' = Clean
  <1>1. Clean' = [Clean EXCEPT ![v] = CleanAt(failedAt'[v])]
    BY MappedStep, Zenon DEF CleanAt
  <1>2. Clean[v] = CleanAt(failedAt[v])
    BY Zenon DEF Clean, CleanAt
  <1>3. Clean = [w \in VUs |-> Clean[w]]
    BY Zenon DEF Clean
  <1>4. ASSUME CleanAt(failedAt'[v]) = CleanAt(failedAt[v])
        PROVE  Clean' = Clean
    <2>1. Clean' = [Clean EXCEPT ![v] = Clean[v]]
      BY <1>1, <1>2, <1>4, Zenon
    <2> QED
      BY <1>3, <2>1
  <1> QED
    BY <1>1, <1>2, <1>4

\* A step that leaves the stage, the cleanliness and the pull of its own virtual
\* user alone, and writes no row, is not noticed.
LEMMA Unnoticed ==
  ASSUME TypeOK, NEW v \in VUs, Arrive(v) \/ Step(v),
         StageOf(pc'[v]) = StageOf(pc[v]), CleanAt(failedAt'[v]) = CleanAt(failedAt[v]),
         syncDetails'[v] = syncDetails[v], pulled'[v] = pulled[v],
         syncResults' = syncResults
  PROVE  UNCHANGED Promise!promised
  <1>1. Stage' = Stage
    BY MappedStep DEF Stage
  <1>2. Clean' = Clean
    BY CleanAfter, Zenon
  <1>3. syncDetails' = syncDetails /\ pulled' = pulled
    <2>1. syncDetails \in [VUs -> SUBSET Details] /\ pulled \in [VUs -> SUBSET Details]
      BY DEF TypeOK
    <2> QED
      BY MappedStep, <2>1
  <1>4. Logged' = Logged
    BY DEF Logged
  <1> QED
    BY <1>1, <1>2, <1>3, <1>4 DEF Promise!promised

\* A stage change that touches nothing else.
LEMMA Moves ==
  ASSUME TypeOK, NEW v \in VUs, Arrive(v) \/ Step(v),
         CleanAt(failedAt'[v]) = CleanAt(failedAt[v]),
         syncDetails'[v] = syncDetails[v], pulled'[v] = pulled[v],
         syncResults' = syncResults
  PROVE  /\ Promise!Move(v, StageOf(pc[v]), StageOf(pc'[v]))
         /\ UNCHANGED <<Clean, syncDetails, pulled, Logged>>
  <1>1. Stage[v] = StageOf(pc[v]) /\ Stage' = [Stage EXCEPT ![v] = StageOf(pc'[v])]
    BY MappedStep DEF Stage
  <1>2. Clean' = Clean
    BY CleanAfter, Zenon
  <1>3. syncDetails' = syncDetails /\ pulled' = pulled
    <2>1. syncDetails \in [VUs -> SUBSET Details] /\ pulled \in [VUs -> SUBSET Details]
      BY DEF TypeOK
    <2> QED
      BY MappedStep, <2>1
  <1>4. Logged' = Logged
    BY DEF Logged
  <1> QED
    BY <1>1, <1>2, <1>3, <1>4 DEF Promise!Move

-----------------------------------------------------------------------------
(* Each step of a virtual user, seen as its device.                         *)

\* The steps that are the load generator's own business: preparing, requesting upload
\* URLs, entering a loop, counting a page.
LEMMA OwnBusiness ==
  ASSUME TypeOK, NEW v \in VUs, Step(v),
         \/ CheckStatuses(v) \/ BootstrapReply(v) \/ CheckSeed(v) \/ SeedReplies(v)
         \/ AssembleSeed(v) \/ TallyMissing(v) \/ StoreSeed(v)
         \/ RequestUploadUrl(v) \/ MediaDone(v)
         \/ NextLoop(v) \/ CountPage(v) \/ LoopDone(v)
  PROVE  [Promise!Next]_(Promise!promised)
  <1>1. syncDetails' = syncDetails /\ pulled' = pulled /\ syncResults' = syncResults
    BY DEF CheckStatuses, BootstrapReply, CheckSeed, SeedReplies, AssembleSeed,
           TallyMissing, StoreSeed, RequestUploadUrl, MediaDone, NextLoop, CountPage,
           LoopDone, pullVars, detailVars, runVars
  <1>2. \/ failedAt' = failedAt
        \/ \E phase \in {"bootstrap", "seed", "media"} : MarkAsFailed(v, phase)
    BY DEF CheckStatuses, BootstrapReply, CheckSeed, SeedReplies, AssembleSeed,
           TallyMissing, StoreSeed, RequestUploadUrl, MediaDone, NextLoop, CountPage,
           LoopDone, Pass, Fail
  <1>3. CleanAt(failedAt'[v]) = CleanAt(failedAt[v])
    BY <1>2 DEF MarkAsFailed, CleanAt, TypeOK
  <1>4. StageOf(pc'[v]) = StageOf(pc[v])
    BY DEF CheckStatuses, BootstrapReply, CheckSeed, SeedReplies, AssembleSeed,
           TallyMissing, StoreSeed, RequestUploadUrl, MediaDone, NextLoop, CountPage,
           LoopDone, Goto, StageOf, TypeOK
  <1> QED
    BY <1>1, <1>3, <1>4, Unnoticed

\* A record is accepted, and nothing is noticed, or it is not and the device falters.
LEMMA PushStep ==
  ASSUME TypeOK, NEW v \in VUs, Step(v), PushRecord(v)
  PROVE  [Promise!Next]_(Promise!promised)
  <1>1. /\ syncDetails' = syncDetails /\ pulled' = pulled /\ syncResults' = syncResults
        /\ pc' = pc /\ pc[v] = "push"
    BY DEF PushRecord, pullVars, detailVars, runVars
  <1>2. CASE failedAt' = failedAt
    BY <1>1, <1>2, Unnoticed
  <1>3. CASE MarkAsFailed(v, "push")
    <2>1. ~CleanAt(failedAt'[v])
      BY <1>3 DEF MarkAsFailed, CleanAt, TypeOK
    <2>2. Clean' = [Clean EXCEPT ![v] = FALSE]
      BY <2>1, MappedStep DEF CleanAt
    <2>3. Stage' = Stage /\ Stage[v] = "uploading"
      BY <1>1 DEF Stage, StageOf
    <2>4. Promise!Falter(v)
      BY <1>1, <2>2, <2>3 DEF Promise!Falter, Logged
    <2> QED
      BY <2>4 DEF Promise!Next
  <1> QED
    BY <1>2, <1>3 DEF PushRecord, Pass, Fail

\* The steps that only move the device on.
LEMMA StageStep ==
  ASSUME TypeOK, NEW v \in VUs, SessionInv(v), Arrive(v) \/ Step(v),
         \/ Arrive(v) \/ StartSync(v) \/ PushDone(v) \/ PullDone(v)
         \/ PostSyncTelemetry(v)
  PROVE  [Promise!Next]_(Promise!promised)
  <1>1. syncDetails' = syncDetails /\ pulled' = pulled /\ syncResults' = syncResults
    BY DEF Arrive, StartSync, PushDone, PullDone, PostSyncTelemetry, pullVars, detailVars, runVars
  <1>2. CleanAt(failedAt'[v]) = CleanAt(failedAt[v])
    BY DEF Arrive, StartSync, PushDone, PullDone, PostSyncTelemetry, Pass, Fail,
           MarkAsFailed, CleanAt, TypeOK
  <1>3. /\ Promise!Move(v, StageOf(pc[v]), StageOf(pc'[v]))
        /\ UNCHANGED <<Clean, syncDetails, pulled, Logged>>
    BY <1>1, <1>2, Moves
  <1>4. CASE Arrive(v)
    <2>1. StageOf(pc[v]) = "absent" /\ StageOf(pc'[v]) = "preparing"
      BY <1>4 DEF Arrive, Goto, StageOf, TypeOK
    <2> QED
      BY <1>3, <2>1 DEF Promise!Next, Promise!Appear
  <1>5. CASE StartSync(v)
    <2>1. StageOf(pc[v]) = "preparing" /\ StageOf(pc'[v]) = "uploading"
      BY <1>5 DEF StartSync, Goto, StageOf, TypeOK
    <2> QED
      BY <1>3, <2>1 DEF Promise!Next, Promise!Upload
  <1>6. CASE PushDone(v)
    <2>1. StageOf(pc[v]) = "uploading" /\ StageOf(pc'[v]) = "checking"
      BY <1>6 DEF PushDone, Goto, StageOf, TypeOK
    <2> QED
      BY <1>3, <2>1 DEF Promise!Next, Promise!Check
  <1>7. CASE PullDone(v)
    <2>1. StageOf(pc[v]) = "pulling" /\ StageOf(pc'[v]) = "reporting"
      BY <1>7 DEF PullDone, Goto, StageOf, TypeOK
    <2>2. pulled[v] = syncDetails[v] \cap Table
      BY <1>7 DEF PullDone, DueDetails, SessionInv, PullHistory
    <2> QED
      BY <1>3, <2>1, <2>2 DEF Promise!Next, Promise!Report
  <1>8. CASE PostSyncTelemetry(v)
    <2>1. StageOf(pc[v]) = "reporting" /\ StageOf(pc'[v]) = "logging"
      BY <1>8 DEF PostSyncTelemetry, Goto, StageOf, TypeOK
    <2> QED
      BY <1>3, <2>1 DEF Promise!Next, Promise!Reported
  <1> QED
    BY <1>4, <1>5, <1>6, <1>7, <1>8

\* A page of the reset check is not noticed, unless the sync ends on it.
LEMMA ResetStep ==
  ASSUME TypeOK, NEW v \in VUs, Step(v), ResetSyncPage(v)
  PROVE  [Promise!Next]_(Promise!promised)
  <1>1. syncDetails' = syncDetails /\ pulled' = pulled /\ syncResults' = syncResults
    BY DEF ResetSyncPage, detailVars, runVars
  <1>2. CleanAt(failedAt'[v]) = CleanAt(failedAt[v])
    BY DEF ResetSyncPage, Pass, Fail, MarkAsFailed, CleanAt, TypeOK
  <1>3. /\ StageOf(pc[v]) = "checking"
        /\ StageOf(pc'[v]) \in {"checking", "gaveUp"}
    BY DEF ResetSyncPage, ExitHereIfFailed, Goto, StageOf, TypeOK
  <1>4. CASE StageOf(pc'[v]) = "checking"
    BY <1>1, <1>2, <1>3, <1>4, Unnoticed
  <1>5. CASE StageOf(pc'[v]) = "gaveUp"
    <2>1. /\ Promise!Move(v, "checking", "gaveUp")
          /\ UNCHANGED <<Clean, syncDetails, pulled, Logged>>
      BY <1>1, <1>2, <1>3, <1>5, Moves
    <2>2. pulled' = [pulled EXCEPT ![v] = @ \cup {}]
      BY <1>1 DEF TypeOK
    <2>3. Promise!GiveUp(v)
      BY <2>1, <2>2 DEF Promise!GiveUp, Promise!Move
    <2> QED
      BY <2>3 DEF Promise!Next
  <1> QED
    BY <1>3, <1>4, <1>5

\* The syncDetails call is made by clean sessions only, and an answer that never
\* came lists nothing.
LEMMA AskStep ==
  ASSUME TypeOK, NEW v \in VUs, SessionInv(v), Step(v), GetSyncDetails(v)
  PROVE  [Promise!Next]_(Promise!promised)
  <1>1. pulled' = pulled /\ syncResults' = syncResults
    BY DEF GetSyncDetails, runVars
  <1>2. pc[v] = "details" /\ pc'[v] = "pull" /\ CleanAt(failedAt[v])
    BY DEF GetSyncDetails, Goto, TypeOK, SessionInv, FailureHistory, CleanAt, Uploading
  <1>3. CleanAt(failedAt'[v])
    BY <1>2 DEF GetSyncDetails, Pass, Fail, MarkAsFailed, CleanAt, TypeOK
  <1>4. Stage[v] = "checking" /\ Stage' = [Stage EXCEPT ![v] = "pulling"]
    BY <1>2, MappedStep DEF Stage, StageOf
  <1>5. Clean[v] /\ Clean' = Clean
    BY <1>2, <1>3, CleanAfter
  <1>6. /\ syncDetails' = [syncDetails EXCEPT ![v] = syncDetails'[v]]
        /\ syncDetails'[v] \in SUBSET Details
    BY MappedStep, StepTypeOK DEF TypeOK, Next
  <1>7. Logged' = Logged
    BY <1>1 DEF Logged
  <1>8. Promise!Ask(v)
    BY <1>1, <1>4, <1>5, <1>6, <1>7 DEF Promise!Ask, Promise!Move
  <1> QED
    BY <1>8 DEF Promise!Next

\* A page is not noticed unless it is the last of its detail, or the sync ends on it.
LEMMA PullStep ==
  ASSUME TypeOK, NEW v \in VUs, Step(v), PullPage(v)
  PROVE  [Promise!Next]_(Promise!promised)
  <1> DEFINE d == NextDetail(v)
  <1>1. /\ syncDetails' = syncDetails /\ syncResults' = syncResults
        /\ pc[v] = "loop" /\ pc \in [VUs -> Locations]
        /\ pulled \in [VUs -> SUBSET Details] /\ failedAt \in [VUs -> SUBSET Phases]
    BY DEF PullPage, sessionVars, runVars, TypeOK
  <1>2. d \in syncDetails[v] \cap Table
    BY PageOutcome DEF DueDetails
  <1>3. Logged' = Logged
    BY <1>1 DEF Logged
  <1>4. \/ pulled' = pulled
        \/ pulled' = [pulled EXCEPT ![v] = @ \cup {d}]
    BY PageOutcome
  <1>5. pc'[v] \in {"count", "aborted"}
    <2>1. Goto(v, "count") \/ Goto(v, "aborted")
      BY PageOutcome DEF ExitHereIfFailed
    <2> QED
      BY <1>1, <2>1 DEF Goto
  <1>6. CleanAt(failedAt'[v]) = CleanAt(failedAt[v])
    <2>1. failedAt' = failedAt \/ MarkAsFailed(v, "pull")
      BY PageOutcome DEF Pass, Fail
    <2> QED
      BY <1>1, <2>1 DEF MarkAsFailed, CleanAt
  <1>7. Stage[v] = "pulling" /\ Stage' = [Stage EXCEPT ![v] = StageOf(pc'[v])]
    BY <1>1, MappedStep DEF Stage, StageOf
  <1>8. Clean' = Clean
    BY <1>6, CleanAfter, Zenon
  <1> HIDE DEF d
  <1>9. CASE pc'[v] = "count"
    <2>1. StageOf(pc'[v]) = StageOf(pc[v])
      BY <1>1, <1>9 DEF StageOf
    <2>2. CASE pulled'[v] = pulled[v]
      BY <1>1, <1>6, <2>1, <2>2, Unnoticed
    <2>3. CASE pulled'[v] # pulled[v]
      <3>1. pulled' = [pulled EXCEPT ![v] = @ \cup {d}] /\ d \notin pulled[v]
        BY <1>1, <1>4, <2>3
      <3>2. Stage' = Stage
        BY <1>1, <1>7, <2>1 DEF Stage
      <3>3. Promise!Fetch(v)
        BY <1>1, <1>2, <1>3, <1>7, <1>8, <3>1, <3>2 DEF Promise!Fetch
      <3> QED
        BY <3>3 DEF Promise!Next
    <2> QED
      BY <2>2, <2>3
  <1>10. CASE pc'[v] = "aborted"
    <2>1. Stage' = [Stage EXCEPT ![v] = "gaveUp"]
      BY <1>7, <1>10 DEF StageOf
    <2>2. \E more \in SUBSET (syncDetails[v] \cap Table) :
             pulled' = [pulled EXCEPT ![v] = @ \cup more]
      <3>1. CASE pulled' = pulled
        <4>1. pulled' = [pulled EXCEPT ![v] = @ \cup {}]
          BY <1>1, <3>1
        <4> QED
          BY <4>1
      <3>2. CASE pulled' = [pulled EXCEPT ![v] = @ \cup {d}]
        <4>1. {d} \in SUBSET (syncDetails[v] \cap Table)
          BY <1>2
        <4> QED
          BY <3>2, <4>1
      <3> QED
        BY <1>4, <3>1, <3>2
    <2>3. Promise!GiveUp(v)
      BY <1>1, <1>3, <1>7, <1>8, <2>1, <2>2 DEF Promise!GiveUp
    <2> QED
      BY <2>3 DEF Promise!Next
  <1> QED
    BY <1>5, <1>9, <1>10

\* The row is written as the device finishes.
LEMMA LogStep ==
  ASSUME TypeOK, NEW v \in VUs, Step(v), RecordSyncResult(v)
  PROVE  [Promise!Next]_(Promise!promised)
  <1>1. /\ pc[v] = "record" /\ pc'[v] = "done" /\ failedAt' = failedAt
        /\ syncDetails' = syncDetails /\ pulled' = pulled
    BY DEF RecordSyncResult, Goto, TypeOK, pullVars, detailVars
  <1>2. Stage[v] = "logging" /\ Stage' = [Stage EXCEPT ![v] = "finished"]
    BY <1>1, MappedStep DEF Stage, StageOf
  <1>3. Clean' = Clean
    BY <1>1 DEF Clean
  <1>4. Logged' = Logged \cup {v}
    <2> DEFINE new == [vu |-> v, records |-> recordsPulled[v], full |-> fullSync[v]]
    <2>1. syncResults' = syncResults \cup {new} /\ new.vu = v
      BY DEF RecordSyncResult
    <2> HIDE DEF new
    <2> QED
      BY <2>1 DEF Logged
  <1>5. Promise!Log(v)
    BY <1>1, <1>2, <1>3, <1>4 DEF Promise!Log, Promise!Move
  <1> QED
    BY <1>5 DEF Promise!Next

-----------------------------------------------------------------------------
(* The refinement.                                                          *)

\* Whatever the load generator does next, its devices do too, or do not notice.
LEMMA StepRefines ==
  ASSUME TypeOK, \A v \in VUs : SessionInv(v), [Next]_vars
  PROVE  [Promise!Next]_(Promise!promised)
  <1>1. ASSUME NEW v \in VUs, Arrive(v) \/ Step(v)
        PROVE  [Promise!Next]_(Promise!promised)
    BY <1>1, OwnBusiness, PushStep, StageStep, ResetStep, AskStep, PullStep, LogStep DEF Step
  <1>2. CASE After
    BY <1>2 DEF After, Promise!promised, Stage, Clean, Logged, pullVars, detailVars
  <1>3. CASE UNCHANGED vars
    BY <1>3 DEF vars, Promise!promised, Stage, Clean, Logged, pullVars, detailVars, runVars
  <1> QED
    BY <1>1, <1>2, <1>3 DEF Next, RunOver

\* Every run of the load generator is a run of devices that sync as promised: none
\* asks after a record was refused, each that reports has pulled all it has a place
\* for of what it was told of, and nothing else, and only those are logged.
THEOREM Refinement == Spec => KeepsThePromise
  <1>1. IInv /\ [Next]_vars => [Promise!Next]_(Promise!promised)
    BY StepRefines DEF IInv
  <1> QED
    BY <1>1, InitRefines, Invariant, PTL DEF Spec, KeepsThePromise, Promise!Spec
=============================================================================
