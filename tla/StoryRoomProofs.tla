-------------------------- MODULE StoryRoomProofs --------------------------
(***************************************************************************)
(* Theorems about StoryRoom for any number of users, jobs, keys, workers,  *)
(* turns, rejected requests, crashes and handlers cut short: its           *)
(* invariants and action properties, and that it implements StoryProgress. *)
(***************************************************************************)
EXTENDS StoryRoom, SequenceTheorems, TLAPS

\* A turn that is found is one of the turns.
LEMMA FoundTurn ==
  ASSUME NEW i, NEW t, FirstTurnWithId(i, t)
  PROVE  i \in 1..Len(turns) /\ turns[i].id = t
BY DEF FirstTurnWithId

\* A job stays a job when its status or its key is set.
LEMMA JobWithStatus ==
  ASSUME NEW r \in GMJob, NEW s \in JobStatuses
  PROVE  [r EXCEPT !.status = s] \in GMJob
BY DEF GMJob

LEMMA JobWithStatusAndNoKey ==
  ASSUME NEW r \in GMJob, NEW s \in JobStatuses
  PROVE  [r EXCEPT !.status = s, !.key = NoKey] \in GMJob
BY DEF GMJob

LEMMA JobsWithStatus ==
  ASSUME NEW f \in [JobIds -> GMJob], NEW j \in JobIds, NEW s \in JobStatuses
  PROVE  [f EXCEPT ![j].status = s] \in [JobIds -> GMJob]
<1>1. [f[j] EXCEPT !.status = s] \in GMJob
    BY JobWithStatus
<1> QED BY <1>1

\* The jobs that the requests add, and the one a resume copies.
LEMMA InputJobIsJob ==
  ASSUME NEW u \in Users, NEW k \in Keys \cup {NoKey}, NEW t \in 0..MaxTurn,
         NEW j \in JobIds
  PROVE  /\ InputJob(u, k, t, j) \in GMJob
         /\ InputJob(u, k, t, j).type = "story_turn"
         /\ InputJob(u, k, t, j).status = "queued"
         /\ InputJob(u, k, t, j).key = k
         /\ InputJob(u, k, t, j).turn = t + 1
         /\ InputJob(u, k, t, j).parent = t
         /\ InputJob(u, k, t, j).origin = j
BY RoomAssumption DEF InputJob, QueuedJob, GMJob, JobStatuses

LEMMA ResumedJobIsJob ==
  ASSUME NEW u \in Users, TypeOK, MayResume(u)
  PROVE  /\ manifest.activeJob \in JobIds
         /\ ResumedJob \in GMJob
         /\ ResumedJob.type # "question_answer"
         /\ ResumedJob.status = "queued"
         /\ ResumedJob.key = NoKey
         /\ TurnOf(ResumedJob) = TurnOf(jobs[manifest.activeJob])
         /\ ResumedJob.turn = jobs[manifest.activeJob].turn
         /\ ResumedJob.parent = jobs[manifest.activeJob].parent
         /\ ResumedJob.origin = jobs[manifest.activeJob].origin
<1>1. manifest.activeJob \in JobIds
    BY DEF MayResume, MayRecover, TypeOK, Manifest
<1>2. jobs[manifest.activeJob] \in GMJob /\ Exclusive(manifest.activeJob)
    BY <1>1 DEF MayResume, TypeOK
<1>3. ResumedJob \in GMJob
    BY <1>2, JobWithStatusAndNoKey DEF ResumedJob, JobStatuses
<1> QED BY <1>1, <1>2, <1>3 DEF ResumedJob, GMJob, Exclusive, TurnOf

LEMMA ImportedTurns ==
  ASSUME NEW u \in Users, NEW n \in ImportSizes, StoryImported(u, n)
  PROVE  /\ turns \in Seq(Turn)
         /\ Len(turns) = n
         /\ turns # <<>>
         /\ \A i \in 1..n : /\ turns[i].id = i
                            /\ turns[i].parent = 0
                            /\ turns[i].origin = NoJob
<1>1. n \in Nat /\ n # 0
    BY RoomAssumption
<1>2. \A i \in 1..n : [id |-> i, parent |-> 0, origin |-> NoJob] \in Turn
    BY <1>1 DEF Turn
<1>3. turns \in Seq(Turn)
    BY <1>1, <1>2, IsASeq DEF StoryImported
<1>4. Len(turns) = n
    BY <1>1, <1>3, LenProperties DEF StoryImported
<1> QED BY <1>1, <1>3, <1>4 DEF StoryImported

LEMMA InitTypeOK == Init => TypeOK
<1> SUFFICES ASSUME Init PROVE TypeOK
    OBVIOUS
<1>1. PICK u \in Users :
        \/ \E j \in JobIds : StoryCreatedWithPrologue(u, j)
        \/ \E n \in ImportSizes : StoryImported(u, n)
    BY DEF Init
<1> DEFINE FilesOK == /\ manifest \in Manifest
                      /\ turns \in Seq(Turn)
                      /\ jobs \in [JobIds -> GMJob]
<1>2. FilesOK
  <2>1. ASSUME NEW j \in JobIds, StoryCreatedWithPrologue(u, j)
        PROVE  FilesOK
      BY <2>1 DEF StoryCreatedWithPrologue, Manifest, Statuses, Phases, GMJob,
                  JobStatuses, QueuedJob, Absent
  <2>2. ASSUME NEW n \in ImportSizes, StoryImported(u, n)
        PROVE  FilesOK
    <3>1. /\ manifest \in Manifest
          /\ jobs \in [JobIds -> GMJob]
        BY <2>2, RoomAssumption
           DEF StoryImported, Manifest, Statuses, Phases, GMJob, JobStatuses, Absent
    <3> QED BY <2>2, <3>1, ImportedTurns
  <2> QED BY <1>1, <2>1, <2>2
<1>3. /\ pc = [w \in Workers |-> "idle"] /\ hand = [w \in Workers |-> NoJob]
      /\ lock = "free" /\ holds = 0 /\ faults = 0
      /\ halfDone = {} /\ cutShort = {} /\ drift = FALSE
    BY DEF Init
<1>4. \A w \in Workers : pc[w] = "idle"
    BY <1>3
<1>5. /\ pc \in [Workers -> {"idle", "picked", "generating", "failing"}]
      /\ hand \in [Workers -> JobIds \cup {NoJob}]
    BY <1>3
<1>6. holds \in 0..MaxHolds /\ faults \in 0..MaxFaults
    BY <1>3, RoomAssumption
<1>7. halfDone \subseteq JobIds /\ cutShort \subseteq JobIds /\ drift \in BOOLEAN
    BY <1>3
<1>8. manifest \in Manifest /\ turns \in Seq(Turn) /\ jobs \in [JobIds -> GMJob]
    BY <1>2
<1> QED BY <1>3, <1>4, <1>5, <1>6, <1>7, <1>8 DEF TypeOK

\* What stops between two writes counts the fault and leaves workers and lock
\* in one of the ways that are typed.
LEMMA FaultKeepsTypes ==
  ASSUME TypeOK, Fault
  PROVE  /\ holds' \in 0..MaxHolds
         /\ faults' \in 0..MaxFaults
BY RoomAssumption DEF Fault, TypeOK

LEMMA EndsKeepTypes ==
  ASSUME TypeOK,
         \/ RequestEnds
         \/ \E w \in Workers : pc[w] # "idle" /\ GenerationEnds(w)
         \/ \E w \in Workers : Drop(w) /\ lock' \in {"free", "leaked"}
  PROVE  /\ lock' \in {"free", "held", "leaked"}
         /\ pc' \in [Workers -> {"idle", "picked", "generating", "failing"}]
         /\ hand' \in [Workers -> JobIds \cup {NoJob}]
         /\ \A v \in Workers : pc'[v] # "idle" =>
              pc[v] # "idle" /\ hand'[v] = hand[v] /\ hand'[v] \in JobIds
BY DEF TypeOK, RequestEnds, GenerationEnds, DiesLocked, Drop, Goto, workerVars

\* Steps are taken apart once; each lemma about a step has a case for each
\* of the actions.
LEMMA StepTypeOK == TypeOK /\ [Next]_vars => TypeOK'
<1> SUFFICES ASSUME TypeOK, [Next]_vars PROVE TypeOK'
    OBVIOUS
<1> DEFINE FilesOK == /\ manifest \in Manifest
                      /\ turns \in Seq(Turn)
                      /\ jobs \in [JobIds -> GMJob]
           WorkersOK == /\ pc \in [Workers -> {"idle", "picked", "generating", "failing"}]
                        /\ hand \in [Workers -> JobIds \cup {NoJob}]
                        /\ \A w \in Workers : pc[w] # "idle" => hand[w] \in JobIds
           OthersOK == /\ lock \in {"free", "held", "leaked"}
                       /\ holds \in 0..MaxHolds
                       /\ faults \in 0..MaxFaults
                       /\ halfDone \subseteq JobIds
                       /\ cutShort \subseteq JobIds
                       /\ drift \in BOOLEAN
<1>t. FilesOK /\ WorkersOK /\ OthersOK
    BY DEF TypeOK
<1>u. FilesOK' /\ WorkersOK' /\ OthersOK' => TypeOK'
    BY DEF TypeOK
<1>w. UNCHANGED workerVars => WorkersOK'
    BY <1>t DEF workerVars
<1>e. /\ UNCHANGED envVars => OthersOK'
      /\ UNCHANGED <<lockVars, faultVars>> /\ drift' = FALSE => OthersOK'
    BY <1>t DEF envVars, lockVars, faultVars
<1>d. ASSUME NEW w \in Workers, Drop(w) PROVE WorkersOK'
    BY <1>t, <1>d DEF Drop, Goto
<1>g. ASSUME NEW w \in Workers, pc[w] # "idle",
             NEW p \in {"picked", "generating", "failing"}, Goto(w, p), hand' = hand
      PROVE  WorkersOK'
    BY <1>t, <1>g DEF Goto
<1>j. ASSUME NEW j \in JobIds, NEW job \in GMJob, ActivateJob(j, job)
      PROVE  manifest' \in Manifest /\ jobs' \in [JobIds -> GMJob]
    BY <1>t, <1>j DEF ActivateJob, Manifest, Phases
<1>s. ASSUME NEW j \in JobIds, NEW st \in JobStatuses
      PROVE  JobsWith(j, st) \in [JobIds -> GMJob]
    BY <1>t, JobsWithStatus DEF JobsWith
<1>f. ASSUME Fault,
             \/ RequestEnds
             \/ \E w \in Workers : pc[w] # "idle" /\ GenerationEnds(w)
             \/ \E w \in Workers : Drop(w) /\ lock' \in {"free", "leaked"},
             halfDone' \subseteq JobIds, cutShort' \subseteq JobIds, drift' \in BOOLEAN
      PROVE  WorkersOK' /\ OthersOK'
    BY <1>f, FaultKeepsTypes, EndsKeepTypes
<1> USE <1>t
<1>1. ASSUME NEW u \in Users, NEW k \in Keys \cup {NoKey}, NEW t \in 0..MaxTurn,
             SubmitStoryInput(u, k, t)
      PROVE  TypeOK'
    BY <1>1, <1>j, <1>w, <1>e, <1>u, InputJobIsJob DEF SubmitStoryInput
<1>2. ASSUME NEW u \in Users, NEW k \in Keys \cup {NoKey}, NEW t \in 0..MaxTurn,
             SubmitQuestion(u, k, t)
      PROVE  TypeOK'
  <2>1. PICK j \in JobIds :
          jobs' = [jobs EXCEPT ![j] = QueuedJob("question_answer", u, k, t, t, j)]
      BY <1>2 DEF SubmitQuestion
  <2>2. QueuedJob("question_answer", u, k, t, t, j) \in GMJob
      BY RoomAssumption DEF QueuedJob, GMJob, JobStatuses
  <2>3. FilesOK'
      BY <1>2, <2>1, <2>2 DEF SubmitQuestion
  <2> QED BY <1>2, <1>w, <1>e, <1>u, <2>3 DEF SubmitQuestion
<1>3. ASSUME NEW u \in Users, ResumeFailedJob(u)
      PROVE  TypeOK'
    BY <1>3, <1>j, <1>w, <1>e, <1>u, ResumedJobIsJob DEF ResumeFailedJob
<1>4. ASSUME NEW u \in Users,
             \/ CancelFailedJob(u) \/ ClaimDriver(u) \/ ReleaseDriver(u)
      PROVE  TypeOK'
  <2>1. FilesOK'
      BY <1>4 DEF CancelFailedJob, ClaimDriver, ReleaseDriver, Manifest, Phases
  <2> QED BY <1>4, <1>w, <1>e, <1>u, <2>1
             DEF CancelFailedJob, ClaimDriver, ReleaseDriver
<1>5. ASSUME NEW s \in SetStatuses, ChangeLifecycleStatus(s)
      PROVE  TypeOK'
  <2>1. FilesOK'
      BY <1>5, RoomAssumption DEF ChangeLifecycleStatus, Manifest, Statuses, Ended
  <2> QED BY <1>5, <1>w, <1>e, <1>u, <2>1 DEF ChangeLifecycleStatus
<1>6. ASSUME NEW s \in {manifest.status} \cup (SetStatuses \ {"deleted"}),
             NEW d \in {manifest.driver, NoUser} \cup Users,
             AdminUpdateStory(s, d)
      PROVE  TypeOK'
  <2>1. FilesOK'
      BY <1>6, RoomAssumption DEF AdminUpdateStory, Manifest, Statuses, Ended
  <2> QED BY <1>6, <1>w, <1>e, <1>u, <2>1 DEF AdminUpdateStory
<1>7. ASSUME EditCurrentTurn PROVE TypeOK'
  <2>1. PICK i \in 1..Len(turns) :
          manifest' = [manifest EXCEPT !.currentTurn = turns[i].id]
      BY <1>7 DEF EditCurrentTurn
  <2>2. turns[i] \in Turn
      BY ElementOfSeq
  <2>3. turns[i].id \in Nat
      BY <2>2 DEF Turn
  <2>4. manifest' \in Manifest
      BY <2>1, <2>3 DEF Manifest
  <2> QED BY <1>7, <1>w, <1>e, <1>u, <2>4 DEF EditCurrentTurn
<1>8. ASSUME NEW t \in 1..MaxTurn, RollbackStoryToTurn(t) \/ RollbackCutShort(t)
      PROVE  TypeOK'
  <2>1. PICK i \in 1..Len(turns) : turns' = SubSeq(turns, 1, i)
      BY <1>8 DEF RollbackStoryToTurn, RollbackCutShort
  <2>2. turns' \in Seq(Turn)
      BY <2>1, SubSeqProperties
  <2>3. t \in Nat
      BY RoomAssumption
  <2>4. FilesOK'
      BY <1>8, <2>2, <2>3
         DEF RollbackStoryToTurn, RollbackCutShort, RolledBackManifest, Manifest
  <2>5. CASE RollbackStoryToTurn(t)
      BY <2>5, <1>w, <1>e, <1>u, <2>4 DEF RollbackStoryToTurn
  <2>6. CASE RollbackCutShort(t)
      BY <2>6, <1>f, <1>u, <2>4 DEF RollbackCutShort
  <2> QED BY <1>8, <2>5, <2>6
<1>9. ASSUME NEW w \in Workers, PickJob(w) PROVE TypeOK'
  <2>1. FilesOK' /\ OthersOK'
      BY <1>9, <1>e DEF PickJob
  <2>2. WorkersOK'
      BY <1>9 DEF PickJob, Goto
  <2> QED BY <1>u, <2>1, <2>2
<1>10. ASSUME NEW w \in Workers, MarkJobStarted(w) PROVE TypeOK'
  <2>1. pc[w] # "idle" /\ hand[w] \in JobIds
      BY <1>10 DEF MarkJobStarted, MayMark
  <2>2. FilesOK'
      BY <1>10, <1>s, <2>1 DEF MarkJobStarted, JobStatuses
  <2> QED BY <1>10, <1>g, <1>e, <1>u, <2>1, <2>2 DEF MarkJobStarted
<1>11. ASSUME NEW w \in Workers,
              \/ MarkRefused(w) \/ GenerationFails(w) \/ ApplyRefused(w)
              \/ FailureLost(w)
       PROVE  TypeOK'
  <2>1. FilesOK' /\ OthersOK'
      BY <1>11, <1>e DEF MarkRefused, GenerationFails, ApplyRefused, FailureLost
  <2>2. WorkersOK'
      BY <1>11, <1>d, <1>g DEF MarkRefused, GenerationFails, ApplyRefused, FailureLost
  <2> QED BY <1>u, <2>1, <2>2
<1>a. ASSUME NEW w \in Workers, MayApply(w), AppendTurn(hand[w])
      PROVE  /\ pc[w] # "idle" /\ hand[w] \in JobIds
             /\ jobs[hand[w]] \in GMJob
             /\ turns' \in Seq(Turn)
             /\ CommittedManifest(hand[w]) \in Manifest
  <2>1. pc[w] # "idle" /\ hand[w] \in JobIds
      BY <1>a DEF MayApply
  <2>2. TurnOf(jobs[hand[w]]) \in Turn
      BY <2>1 DEF TurnOf, GMJob, Turn
  <2>3. turns' \in Seq(Turn)
      BY <1>a, <2>2, AppendProperties DEF AppendTurn
  <2>4. CommittedManifest(hand[w]) \in Manifest
      BY <2>1 DEF CommittedManifest, Manifest, Phases, GMJob
  <2> QED BY <2>1, <2>3, <2>4
<1>12. ASSUME NEW w \in Workers, ApplyGMOutput(w) PROVE TypeOK'
  <2>1. FilesOK'
      BY <1>12, <1>a, <1>s DEF ApplyGMOutput, JobStatuses
  <2> QED BY <1>12, <1>d, <1>e, <1>u, <2>1 DEF ApplyGMOutput
<1>13. ASSUME NEW w \in Workers, ApplyQuestionOutput(w) \/ QuestionCutShort(w)
       PROVE  TypeOK'
  <2>1. pc[w] # "idle" /\ hand[w] \in JobIds
      BY <1>13 DEF ApplyQuestionOutput, QuestionCutShort
  <2>2. FilesOK'
      BY <1>13, <1>s, <2>1 DEF ApplyQuestionOutput, QuestionCutShort, JobStatuses
  <2>3. CASE ApplyQuestionOutput(w)
      BY <2>3, <1>d, <1>e, <1>u, <2>2 DEF ApplyQuestionOutput
  <2>4. CASE QuestionCutShort(w)
    <3>1. halfDone' \subseteq JobIds /\ cutShort' \subseteq JobIds /\ drift' \in BOOLEAN
        BY <2>1, <2>4 DEF QuestionCutShort
    <3> QED BY <2>4, <1>f, <1>u, <2>1, <2>2, <3>1 DEF QuestionCutShort
  <2> QED BY <1>13, <2>3, <2>4
<1>14. ASSUME NEW w \in Workers, FailGMJob(w) \/ FailCutShort(w) PROVE TypeOK'
  <2>1. hand[w] \in JobIds
      BY <1>14 DEF FailGMJob, FailCutShort
  <2>2. FailedManifest(hand[w]) \in Manifest
      BY DEF FailedManifest, Manifest, Phases
  <2>3. FilesOK'
      BY <1>14, <1>s, <2>1, <2>2 DEF FailGMJob, FailCutShort, JobStatuses
  <2>4. CASE FailGMJob(w)
      BY <2>4, <1>d, <1>e, <1>u, <2>3 DEF FailGMJob
  <2>5. CASE FailCutShort(w)
    <3>1. halfDone' \subseteq JobIds /\ cutShort' \subseteq JobIds /\ drift' \in BOOLEAN
        BY <2>1, <2>5 DEF FailCutShort
    <3>2. Fault /\ Drop(w) /\ lock' \in {"free", "leaked"}
        BY <2>5 DEF FailCutShort
    <3> QED BY <1>f, <1>u, <2>3, <3>1, <3>2
  <2> QED BY <1>14, <2>4, <2>5
<1>15. ASSUME NEW w \in Workers, Crash(w) PROVE TypeOK'
  <2>1. OthersOK'
      BY <1>15, FaultKeepsTypes DEF Crash
  <2> QED BY <1>15, <1>d, <1>u, <2>1 DEF Crash
<1>16. ASSUME HoldLock \/ ReleaseLock \/ StaleLockRemoved PROVE TypeOK'
  <2>1. FilesOK' /\ WorkersOK'
      BY <1>16, <1>w DEF HoldLock, ReleaseLock, StaleLockRemoved
  <2>2. OthersOK'
      BY <1>16, RoomAssumption DEF HoldLock, ReleaseLock, StaleLockRemoved, faultVars
  <2> QED BY <1>u, <2>1, <2>2
<1>17. ASSUME UNCHANGED vars PROVE TypeOK'
  <2>1. UNCHANGED <<manifest, turns, jobs, workerVars, envVars>>
      BY <1>17 DEF vars
  <2> QED BY <2>1, <1>w, <1>e, <1>u
<1>18. ASSUME NEW j \in JobIds, NEW job \in GMJob, LeaveOrphan(j, job),
              Fault, RequestEnds
       PROVE  TypeOK'
  <2>1. FilesOK'
      BY <1>18 DEF LeaveOrphan
  <2>2. halfDone' \subseteq JobIds /\ cutShort' \subseteq JobIds /\ drift' \in BOOLEAN
      BY <1>18 DEF LeaveOrphan
  <2> QED BY <1>18, <1>f, <1>u, <2>1, <2>2
<1>19. ASSUME NEW u \in Users, NEW k \in Keys \cup {NoKey}, NEW t \in 0..MaxTurn,
              SubmitCutShort(u, k, t)
       PROVE  TypeOK'
    BY <1>18, <1>19, InputJobIsJob DEF SubmitCutShort
<1>20. ASSUME NEW u \in Users, ResumeCutShort(u) PROVE TypeOK'
    BY <1>18, <1>20, ResumedJobIsJob DEF ResumeCutShort
<1>21. ASSUME NEW w \in Workers, MarkCutShort(w) PROVE TypeOK'
  <2>1. hand[w] \in JobIds
      BY <1>21 DEF MarkCutShort, MayMark
  <2>2. FilesOK'
      BY <1>21, <1>s, <2>1 DEF MarkCutShort, JobStatuses
  <2>3. halfDone' \subseteq JobIds /\ cutShort' \subseteq JobIds /\ drift' \in BOOLEAN
      BY <1>21 DEF MarkCutShort
  <2>4. Fault /\ Drop(w) /\ lock' \in {"free", "leaked"}
      BY <1>21 DEF MarkCutShort
  <2> QED BY <1>f, <1>u, <2>2, <2>3, <2>4
<1>22. ASSUME NEW w \in Workers, ApplyCutShort(w) PROVE TypeOK'
  <2>1. MayApply(w) /\ AppendTurn(hand[w])
      BY <1>22 DEF ApplyCutShort
  <2>2. /\ jobs' \in [JobIds -> GMJob]
        /\ manifest' \in Manifest
        /\ turns' \in Seq(Turn)
      BY <1>22, <1>a, <1>s, <2>1 DEF ApplyCutShort, JobStatuses
  <2>3. halfDone' \subseteq JobIds /\ cutShort' \subseteq JobIds /\ drift' \in BOOLEAN
      BY <1>22, <1>a, <2>1 DEF ApplyCutShort, GMJob
  <2>4. Fault /\ pc[w] # "idle" /\ GenerationEnds(w)
      BY <1>22, <1>a, <2>1 DEF ApplyCutShort
  <2> QED BY <1>f, <1>u, <2>2, <2>3, <2>4
<1> QED
    BY <1>1, <1>2, <1>3, <1>4, <1>5, <1>6, <1>7, <1>8, <1>9, <1>10, <1>11,
       <1>12, <1>13, <1>14, <1>15, <1>16, <1>17, <1>19, <1>20, <1>21, <1>22
       DEF Next, UserRequest, AdminRequest, WorkerStep, HandlerCutShort

\* The files, the lock and the workers keep their types.
THEOREM TypeCorrect == Spec => []TypeOK
<1>1. Init => TypeOK
    BY InitTypeOK
<1>2. TypeOK /\ [Next]_vars => TypeOK'
    BY StepTypeOK
<1> QED BY <1>1, <1>2, PTL DEF Spec

----------------------------------------------------------------------------
(* Jobs: the manifest, the job files and the workers *)

LEMMA InitJobsInv == Init => JobsInv
<1> SUFFICES ASSUME Init PROVE JobsInv
    OBVIOUS
<1>1. HandKnown
    BY DEF Init, HandKnown
<1>2. ASSUME NEW u \in Users, NEW j \in JobIds, StoryCreatedWithPrologue(u, j)
      PROVE  PhaseMatchesJob /\ SingleFlight
    BY <1>2, RoomAssumption
       DEF StoryCreatedWithPrologue, PhaseMatchesJob, SingleFlight, Live, Known,
           StillActive, Exclusive, QueuedJob, Absent
<1>3. ASSUME NEW u \in Users, NEW n \in ImportSizes, StoryImported(u, n)
      PROVE  PhaseMatchesJob /\ SingleFlight
    BY <1>3 DEF StoryImported, PhaseMatchesJob, SingleFlight, Live, StillActive,
                Exclusive, Absent
<1> QED BY <1>1, <1>2, <1>3 DEF Init, JobsInv

\* Who holds a job has held it before, or has just picked it.
HandsKept ==
  \A v \in Workers : pc'[v] # "idle" => pc[v] # "idle" /\ hand'[v] = hand[v]

\* Steps that leave the job files, the phase and the active job alone.
LEMMA JobsInvKept ==
  ASSUME JobsInv,
         jobs' = jobs,
         manifest'.phase = manifest.phase,
         manifest'.activeJob = manifest.activeJob,
         halfDone \subseteq halfDone',
         HandKnown'
  PROVE  JobsInv'
BY DEF JobsInv, PhaseMatchesJob, SingleFlight, Live, Known, StillActive, Exclusive

\* A new job takes an absent file, so no worker and no manifest knows it.
LEMMA NewJobIsNew ==
  ASSUME TypeOK, JobsInv, NEW j \in JobIds, jobs[j].status = "absent"
  PROVE  /\ manifest.activeJob # j
         /\ \A w \in Workers : pc[w] # "idle" => hand[w] # j
<1>1. manifest.activeJob # j
    BY RoomAssumption DEF JobsInv, PhaseMatchesJob, Known
<1>2. \A w \in Workers : pc[w] # "idle" => hand[w] # j
    BY DEF JobsInv, HandKnown, Known
<1> QED BY <1>1, <1>2

\* A new exclusive job, activated while no job is live.
LEMMA ActivateKeepsJobsInv ==
  ASSUME TypeOK, JobsInv,
         NEW j \in JobIds, jobs[j].status = "absent",
         NEW job \in GMJob, job.type # "question_answer", job.status = "queued",
         manifest.phase # "gm_generating",
         ActivateJob(j, job),
         UNCHANGED <<pc, hand, halfDone>>
  PROVE  JobsInv'
<1>1. /\ jobs'[j] = job
      /\ \A i \in JobIds : i # j => jobs'[i] = jobs[i]
      /\ manifest'.phase = "gm_generating"
      /\ manifest'.activeJob = j
    BY DEF ActivateJob, TypeOK, Manifest
<1>2. PhaseMatchesJob'
    BY <1>1, RoomAssumption DEF PhaseMatchesJob, Live, Exclusive, Known
<1>3. SingleFlight'
    BY <1>1 DEF JobsInv, SingleFlight, Live, Exclusive, StillActive
<1>4. HandKnown'
    BY <1>1, NewJobIsNew DEF JobsInv, HandKnown, Known, TypeOK
<1> QED BY <1>2, <1>3, <1>4 DEF JobsInv

\* A new job file the manifest does not know: a question, or an orphan.
LEMMA NewFileKeepsJobsInv ==
  ASSUME TypeOK, JobsInv,
         NEW j \in JobIds, jobs[j].status = "absent",
         NEW job \in GMJob, job.status # "absent",
         jobs' = [jobs EXCEPT ![j] = job],
         UNCHANGED manifest,
         halfDone \subseteq halfDone',
         job.type = "question_answer" \/ j \in halfDone',
         HandsKept
  PROVE  JobsInv'
<1>1. /\ jobs'[j] = job
      /\ \A i \in JobIds : i # j => jobs'[i] = jobs[i]
    BY DEF TypeOK
<1>2. manifest.activeJob # j
    BY NewJobIsNew
<1>2a. manifest.activeJob # NoJob => jobs'[manifest.activeJob] = jobs[manifest.activeJob]
    BY <1>1, <1>2 DEF TypeOK, Manifest
<1>3. PhaseMatchesJob'
    BY <1>2a DEF JobsInv, PhaseMatchesJob, Live, Exclusive, Known, TypeOK, Manifest, Phases
<1>4. SingleFlight'
    BY <1>1 DEF JobsInv, SingleFlight, Live, Exclusive, StillActive
<1>5. HandKnown'
    BY <1>1, NewJobIsNew DEF JobsInv, HandKnown, Known, TypeOK, HandsKept
<1> QED BY <1>3, <1>4, <1>5 DEF JobsInv

\* The status of one job file is set.
LEMMA StatusSet ==
  ASSUME TypeOK, NEW j \in JobIds, NEW st, jobs' = JobsWith(j, st)
  PROVE  /\ \A i \in JobIds : i # j => jobs'[i] = jobs[i]
         /\ jobs'[j].status = st
         /\ \A i \in JobIds : /\ jobs'[i].type = jobs[i].type
                              /\ jobs'[i].key = jobs[i].key
                              /\ jobs'[i].turn = jobs[i].turn
                              /\ jobs'[i].parent = jobs[i].parent
                              /\ jobs'[i].origin = jobs[i].origin
BY DEF TypeOK, GMJob, JobsWith

LEMMA HandKnownKept ==
  ASSUME TypeOK, HandKnown, HandsKept,
         NEW j \in JobIds, NEW st \in JobStatuses \ {"absent"},
         jobs' \in {jobs, JobsWith(j, st)}
  PROVE  HandKnown'
<1>1. CASE jobs' = jobs
    BY <1>1 DEF HandKnown, Known, HandsKept
<1>2. CASE jobs' = JobsWith(j, st)
    BY <1>2, StatusSet DEF HandKnown, Known, HandsKept, TypeOK
<1> QED BY <1>1, <1>2

\* The manifest stays while a status is set: of a question, of a job cut
\* short, of one that starts, or of one that fails without being active.
LEMMA StatusKeepsJobsInv ==
  ASSUME TypeOK, JobsInv, HandsKept, UNCHANGED manifest,
         NEW j \in JobIds, NEW st \in JobStatuses \ {"absent"},
         jobs' \in {jobs, JobsWith(j, st)},
         halfDone \subseteq halfDone',
         \/ ~Exclusive(j)
         \/ j \in halfDone'
         \/ st = "running" /\ StillActive(j)
         \/ st = "failed" /\ manifest.activeJob # j
  PROVE  JobsInv'
<1>1. HandKnown'
    BY HandKnownKept DEF JobsInv
<1>2. CASE jobs' = jobs
    BY <1>1, <1>2, JobsInvKept
<1>3. CASE jobs' = JobsWith(j, st)
  <2>1. /\ \A i \in JobIds : i # j => jobs'[i] = jobs[i]
        /\ jobs'[j].status = st
        /\ jobs'[j].type = jobs[j].type
      BY <1>3, StatusSet
  <2>2. manifest.activeJob \in JobIds \cup {NoJob}
      BY DEF TypeOK, Manifest
  <2>3. PhaseMatchesJob'
    <3>1. CASE manifest.activeJob # j
      <4>1. manifest.activeJob # NoJob =>
              jobs'[manifest.activeJob] = jobs[manifest.activeJob]
          BY <2>1, <2>2, <3>1
      <4> QED BY <2>1, <4>1 DEF JobsInv, PhaseMatchesJob, Live, Exclusive, Known,
                               TypeOK, Manifest, Phases
    <3>2. CASE manifest.activeJob = j
        BY <2>1, <3>2, RoomAssumption
           DEF JobsInv, PhaseMatchesJob, Live, Exclusive, Known, StillActive
    <3> QED BY <3>1, <3>2
  <2>4. SingleFlight'
      BY <2>1 DEF JobsInv, SingleFlight, Live, Exclusive, StillActive
  <2> QED BY <1>1, <2>3, <2>4 DEF JobsInv
<1> QED BY <1>2, <1>3

\* The active job is completed and the story waits again.
LEMMA CommitKeepsJobsInv ==
  ASSUME TypeOK, JobsInv, HandsKept,
         NEW j \in JobIds, StillActive(j),
         jobs' = JobsWith(j, "completed"),
         manifest' = CommittedManifest(j),
         halfDone \subseteq halfDone'
  PROVE  JobsInv'
<1>1. manifest'.phase = "waiting_for_choice" /\ manifest'.activeJob = NoJob
    BY DEF CommittedManifest, TypeOK, Manifest
<1>2. PhaseMatchesJob'
    BY <1>1 DEF PhaseMatchesJob
<1>3. SingleFlight'
    BY <1>1, StatusSet DEF JobsInv, SingleFlight, Live, Exclusive, StillActive
<1>4. HandKnown'
    BY HandKnownKept DEF JobsInv, JobStatuses
<1> QED BY <1>2, <1>3, <1>4 DEF JobsInv

\* A failure is recorded, wholly or for a job that is cut short.
LEMMA FailKeepsJobsInv ==
  ASSUME TypeOK, JobsInv, HandsKept,
         NEW j \in JobIds,
         jobs' \in {jobs, JobsWith(j, "failed")},
         manifest' \in {manifest, FailedManifest(j)},
         halfDone \subseteq halfDone',
         \/ j \in halfDone'
         \/ jobs' = JobsWith(j, "failed") /\ manifest' = FailedManifest(j)
  PROVE  JobsInv'
<1>1. CASE Exclusive(j) /\ manifest.activeJob = j /\ manifest' = FailedManifest(j)
  <2>1. /\ manifest'.phase = "failed_waiting_retry"
        /\ manifest'.activeJob = j
      BY <1>1 DEF FailedManifest, TypeOK, Manifest
  <2>2. /\ \A i \in JobIds : i # j => jobs'[i] = jobs[i]
        /\ jobs'[j].type = jobs[j].type
        /\ jobs'[j].status \in {jobs[j].status, "failed"}
        /\ jobs' = JobsWith(j, "failed") => jobs'[j].status = "failed"
    <3>1. CASE jobs' = jobs
        BY <3>1, StatusSet
    <3>2. CASE jobs' = JobsWith(j, "failed")
        BY <3>2, StatusSet
    <3> QED BY <3>1, <3>2
  <2>3. jobs'[j].status # "absent" /\ jobs'[j].type # "question_answer"
    <3>1. jobs[j].status # "absent" /\ jobs[j].type # "question_answer"
        BY <1>1, RoomAssumption DEF JobsInv, PhaseMatchesJob, Exclusive, Known
    <3> QED BY <2>2, <3>1
  <2>4. jobs'[j].status = "failed" \/ j \in halfDone'
      BY <2>2
  <2>5. PhaseMatchesJob'
      BY <1>1, <2>1, <2>3, <2>4, RoomAssumption DEF PhaseMatchesJob, Exclusive, Known
  <2>6. SingleFlight'
      BY <1>1, <2>1, <2>2 DEF JobsInv, SingleFlight, Live, Exclusive, StillActive
  <2>7. HandKnown'
      BY HandKnownKept DEF JobsInv, JobStatuses
  <2> QED BY <2>5, <2>6, <2>7 DEF JobsInv
<1>2. CASE ~(Exclusive(j) /\ manifest.activeJob = j /\ manifest' = FailedManifest(j))
  <2>1. UNCHANGED manifest
      BY <1>2 DEF FailedManifest
  <2>2. \/ ~Exclusive(j)
        \/ j \in halfDone'
        \/ manifest.activeJob # j
      BY <1>2
  <2> QED BY <2>1, <2>2, StatusKeepsJobsInv DEF JobStatuses
<1> QED BY <1>1, <1>2

\* What the ends of a handler do to the workers.
LEMMA EndsKeepHands ==
  ASSUME TypeOK,
         \/ UNCHANGED <<pc, hand>>
         \/ RequestEnds
         \/ \E w \in Workers : pc[w] # "idle" /\ GenerationEnds(w)
         \/ \E w \in Workers : Drop(w)
         \/ \E w \in Workers, p \in {"picked", "generating", "failing"} :
              pc[w] # "idle" /\ Goto(w, p) /\ hand' = hand
  PROVE  HandsKept
BY DEF TypeOK, RequestEnds, GenerationEnds, DiesLocked, Drop, Goto, workerVars, HandsKept

LEMMA StepJobsInv == TypeOK /\ JobsInv /\ [Next]_vars => JobsInv'
<1> SUFFICES ASSUME TypeOK, JobsInv, [Next]_vars PROVE JobsInv'
    OBVIOUS
<1>w. UNCHANGED workerVars => UNCHANGED <<pc, hand>>
    BY DEF workerVars
<1>e. UNCHANGED envVars \/ UNCHANGED faultVars => UNCHANGED halfDone
    BY DEF envVars, faultVars
<1>1. ASSUME NEW u \in Users, NEW k \in Keys \cup {NoKey}, NEW t \in 0..MaxTurn,
             SubmitStoryInput(u, k, t)
      PROVE  JobsInv'
  <2>1. PICK j \in JobIds :
          jobs[j].status = "absent" /\ ActivateJob(j, InputJob(u, k, t, j))
      BY <1>1 DEF SubmitStoryInput
  <2>2. manifest.phase # "gm_generating"
      BY <1>1 DEF SubmitStoryInput, MaySubmit, AwaitsInput
  <2>3. UNCHANGED <<pc, hand, halfDone>>
      BY <1>1, <1>w, <1>e DEF SubmitStoryInput
  <2>4. /\ InputJob(u, k, t, j) \in GMJob
        /\ InputJob(u, k, t, j).type # "question_answer"
        /\ InputJob(u, k, t, j).status = "queued"
      BY InputJobIsJob
  <2> QED BY <2>1, <2>2, <2>3, <2>4, ActivateKeepsJobsInv
<1>2. ASSUME NEW u \in Users, NEW k \in Keys \cup {NoKey}, NEW t \in 0..MaxTurn,
             SubmitQuestion(u, k, t)
      PROVE  JobsInv'
  <2> DEFINE job(j) == QueuedJob("question_answer", u, k, t, t, j)
  <2>1. PICK j \in JobIds :
          /\ jobs[j].status = "absent"
          /\ jobs' = [jobs EXCEPT ![j] = job(j)]
      BY <1>2 DEF SubmitQuestion
  <2>2. job(j) \in GMJob /\ job(j).type = "question_answer" /\ job(j).status # "absent"
      BY RoomAssumption DEF QueuedJob, GMJob, JobStatuses
  <2>3. UNCHANGED <<manifest, pc, hand, halfDone>>
      BY <1>2, <1>w, <1>e DEF SubmitQuestion
  <2>4. HandsKept
      BY <2>3, EndsKeepHands
  <2> HIDE DEF job
  <2> QED BY <2>1, <2>2, <2>3, <2>4, NewFileKeepsJobsInv
<1>3. ASSUME NEW u \in Users, ResumeFailedJob(u)
      PROVE  JobsInv'
  <2>1. PICK j \in JobIds : jobs[j].status = "absent" /\ ActivateJob(j, ResumedJob)
      BY <1>3 DEF ResumeFailedJob
  <2>2. manifest.phase # "gm_generating"
      BY <1>3 DEF ResumeFailedJob, MayResume, MayRecover
  <2>3. UNCHANGED <<pc, hand, halfDone>>
      BY <1>3, <1>w, <1>e DEF ResumeFailedJob
  <2>4. /\ ResumedJob \in GMJob
        /\ ResumedJob.type # "question_answer"
        /\ ResumedJob.status = "queued"
      BY <1>3, ResumedJobIsJob DEF ResumeFailedJob
  <2> QED BY <2>1, <2>2, <2>3, <2>4, ActivateKeepsJobsInv
<1>4. ASSUME NEW u \in Users, CancelFailedJob(u)
      PROVE  JobsInv'
  <2>1. /\ manifest.phase = "failed_waiting_retry"
        /\ manifest'.phase = "waiting_for_choice"
        /\ manifest'.activeJob = NoJob
        /\ UNCHANGED <<jobs, pc, hand, halfDone>>
      BY <1>4, <1>w, <1>e DEF CancelFailedJob, MayRecover, TypeOK, Manifest
  <2> QED BY <2>1 DEF JobsInv, PhaseMatchesJob, SingleFlight, HandKnown, Known,
                      Live, Exclusive, StillActive
<1>5. ASSUME \/ \E u \in Users : ClaimDriver(u) \/ ReleaseDriver(u)
             \/ \E s \in SetStatuses : ChangeLifecycleStatus(s)
             \/ \E s \in {manifest.status} \cup (SetStatuses \ {"deleted"}),
                   d \in {manifest.driver, NoUser} \cup Users :
                     AdminUpdateStory(s, d)
             \/ EditCurrentTurn
             \/ \E t \in 1..MaxTurn : RollbackStoryToTurn(t) \/ RollbackCutShort(t)
      PROVE  JobsInv'
  <2>1. /\ manifest'.phase = manifest.phase
        /\ manifest'.activeJob = manifest.activeJob
        /\ UNCHANGED <<jobs, halfDone>>
      BY <1>5, <1>e
         DEF ClaimDriver, ReleaseDriver, ChangeLifecycleStatus, AdminUpdateStory,
             EditCurrentTurn, RollbackStoryToTurn, RollbackCutShort,
             RolledBackManifest, TypeOK, Manifest
  <2>2. HandsKept
      BY <1>5, <1>w, EndsKeepHands
         DEF ClaimDriver, ReleaseDriver, ChangeLifecycleStatus, AdminUpdateStory,
             EditCurrentTurn, RollbackStoryToTurn, RollbackCutShort
  <2>3. HandKnown'
      BY <2>1, <2>2 DEF JobsInv, HandKnown, Known, HandsKept
  <2> QED BY <2>1, <2>3, JobsInvKept
<1>6. ASSUME NEW w \in Workers, PickJob(w) PROVE JobsInv'
  <2>1. PICK j \in JobIds : NextJob(j) /\ hand' = [hand EXCEPT ![w] = j]
      BY <1>6 DEF PickJob
  <2>2. UNCHANGED <<manifest, jobs, halfDone>> /\ pc' = [pc EXCEPT ![w] = "picked"]
      BY <1>6, <1>e DEF PickJob, Goto
  <2>3. Known(j)
      BY <2>1 DEF NextJob, Known
  <2>4. HandKnown'
      BY <2>1, <2>2, <2>3 DEF JobsInv, HandKnown, Known, TypeOK
  <2> QED BY <2>2, <2>4, JobsInvKept
<1>7. ASSUME NEW w \in Workers, MarkJobStarted(w) \/ MarkCutShort(w) PROVE JobsInv'
  <2>1. /\ pc[w] # "idle" /\ hand[w] \in JobIds
        /\ Exclusive(hand[w]) => StillActive(hand[w])
        /\ UNCHANGED <<manifest, halfDone>>
        /\ jobs' \in {jobs, JobsWith(hand[w], "running")}
      BY <1>7, <1>e DEF MarkJobStarted, MarkCutShort, MayMark, TypeOK
  <2>2. HandsKept
      BY <1>7, <2>1, EndsKeepHands DEF MarkJobStarted, MarkCutShort
  <2> QED BY <2>1, <2>2, StatusKeepsJobsInv DEF JobStatuses
<1>8. ASSUME NEW w \in Workers,
             \/ MarkRefused(w) \/ GenerationFails(w) \/ ApplyRefused(w)
             \/ FailureLost(w) \/ Crash(w)
      PROVE  JobsInv'
  <2>1. UNCHANGED <<manifest, jobs, halfDone>>
      BY <1>8, <1>e
         DEF MarkRefused, GenerationFails, ApplyRefused, FailureLost, Crash
  <2>2. HandsKept
      BY <1>8, EndsKeepHands
         DEF MarkRefused, GenerationFails, ApplyRefused, FailureLost, Crash
  <2>3. HandKnown'
      BY <2>1, <2>2 DEF JobsInv, HandKnown, Known, HandsKept
  <2> QED BY <2>1, <2>3, JobsInvKept
<1>9. ASSUME NEW w \in Workers, ApplyGMOutput(w) PROVE JobsInv'
  <2>1. hand[w] \in JobIds /\ StillActive(hand[w]) /\ UNCHANGED halfDone
      BY <1>9, <1>e DEF ApplyGMOutput, MayApply, TypeOK
  <2>2. HandsKept
      BY <1>9, EndsKeepHands DEF ApplyGMOutput
  <2> QED BY <1>9, <2>1, <2>2, CommitKeepsJobsInv DEF ApplyGMOutput
<1>10. ASSUME NEW w \in Workers, ApplyQuestionOutput(w) \/ QuestionCutShort(w)
       PROVE  JobsInv'
  <2>1. /\ pc[w] # "idle" /\ hand[w] \in JobIds
        /\ ~Exclusive(hand[w])
        /\ jobs' = JobsWith(hand[w], "completed")
        /\ UNCHANGED manifest
        /\ halfDone \subseteq halfDone'
      BY <1>10, <1>e DEF ApplyQuestionOutput, QuestionCutShort, TypeOK
  <2>2. HandsKept
      BY <1>10, <2>1, EndsKeepHands DEF ApplyQuestionOutput, QuestionCutShort
  <2> QED BY <2>1, <2>2, StatusKeepsJobsInv DEF JobStatuses
<1>11. ASSUME NEW w \in Workers, FailGMJob(w) \/ FailCutShort(w) PROVE JobsInv'
  <2>1. /\ hand[w] \in JobIds
        /\ jobs' \in {jobs, JobsWith(hand[w], "failed")}
        /\ manifest' \in {manifest, FailedManifest(hand[w])}
        /\ halfDone \subseteq halfDone'
        /\ \/ hand[w] \in halfDone'
           \/ /\ jobs' = JobsWith(hand[w], "failed")
              /\ manifest' = FailedManifest(hand[w])
      BY <1>11, <1>e DEF FailGMJob, FailCutShort, TypeOK
  <2>2. HandsKept
      BY <1>11, EndsKeepHands DEF FailGMJob, FailCutShort
  <2> QED BY <2>1, <2>2, FailKeepsJobsInv
<1>12. ASSUME HoldLock \/ ReleaseLock \/ StaleLockRemoved \/ UNCHANGED vars
       PROVE  JobsInv'
  <2>1. UNCHANGED <<manifest, jobs, pc, hand, halfDone>>
      BY <1>12, <1>w, <1>e DEF HoldLock, ReleaseLock, StaleLockRemoved, vars
  <2>2. HandKnown'
      BY <2>1 DEF JobsInv, HandKnown, Known
  <2> QED BY <2>1, <2>2, JobsInvKept
<1>13. ASSUME NEW w \in Workers, ApplyCutShort(w) PROVE JobsInv'
  <2>1. /\ pc[w] # "idle" /\ hand[w] \in JobIds /\ StillActive(hand[w])
        /\ hand[w] \in halfDone' /\ halfDone \subseteq halfDone'
      BY <1>13 DEF ApplyCutShort, MayApply, TypeOK
  <2>2. HandsKept
      BY <1>13, <2>1, EndsKeepHands DEF ApplyCutShort
  <2>3. CASE UNCHANGED manifest
    <3>1. jobs' \in {jobs, JobsWith(hand[w], "completed")}
        BY <1>13 DEF ApplyCutShort
    <3>2. "completed" \in JobStatuses \ {"absent"}
        BY DEF JobStatuses
    <3> QED BY <2>1, <2>2, <2>3, <3>1, <3>2, StatusKeepsJobsInv
  <2>4. CASE /\ jobs' = JobsWith(hand[w], "completed")
             /\ manifest' = CommittedManifest(hand[w])
      BY <2>1, <2>2, <2>4, CommitKeepsJobsInv
  <2> QED BY <1>13, <2>3, <2>4 DEF ApplyCutShort
<1>14. ASSUME NEW j \in JobIds, NEW job \in GMJob, job.status # "absent",
              LeaveOrphan(j, job), RequestEnds
       PROVE  JobsInv'
  <2>1. HandsKept
      BY <1>14, EndsKeepHands
  <2> QED BY <1>14, <2>1, NewFileKeepsJobsInv DEF LeaveOrphan
<1>15. ASSUME NEW u \in Users, NEW k \in Keys \cup {NoKey}, NEW t \in 0..MaxTurn,
              SubmitCutShort(u, k, t)
       PROVE  JobsInv'
    BY <1>14, <1>15, InputJobIsJob DEF SubmitCutShort
<1>16. ASSUME NEW u \in Users, ResumeCutShort(u) PROVE JobsInv'
    BY <1>14, <1>16, ResumedJobIsJob DEF ResumeCutShort
<1> QED
    BY <1>1, <1>2, <1>3, <1>4, <1>5, <1>6, <1>7, <1>8, <1>9, <1>10, <1>11, <1>12,
       <1>13, <1>15, <1>16
       DEF Next, UserRequest, AdminRequest, WorkerStep, HandlerCutShort

\* Requests, workers, failures, lost locks and crashes leave the manifest and
\* the job files in agreement, and at most one job able to add a turn.
THEOREM JobsCorrect == Spec => [](PhaseMatchesJob /\ SingleFlight)
<1>1. Init => JobsInv
    BY InitJobsInv
<1>2. TypeOK /\ JobsInv /\ [Next]_vars => JobsInv'
    BY StepJobsInv
<1>3. JobsInv => PhaseMatchesJob /\ SingleFlight
    BY DEF JobsInv
<1> QED BY <1>1, <1>2, <1>3, TypeCorrect, PTL DEF Spec

\* The phase in the manifest always fits the file of the active job: whoever
\* waits for a generation has a job that a worker can run, and whoever is told
\* of a failure a failed one to resume or cancel (failGMJob, resumeFailedJob,
\* cancelFailedJob), for any number of workers and jobs.
THEOREM PhaseFitsJob == Spec => []PhaseMatchesJob
BY JobsCorrect, PTL

----------------------------------------------------------------------------
(* Turns: their ids, and the inputs they answer *)

\* The active job is a job with a file.
LEMMA ActiveIsKnown ==
  ASSUME TypeOK, JobsInv, manifest.activeJob # NoJob
  PROVE  manifest.activeJob \in JobIds /\ Known(manifest.activeJob)
BY DEF TypeOK, JobsInv, PhaseMatchesJob, Manifest

\* The last turn is one of the turns.
LEMMA LastTurn ==
  ASSUME TypeOK, turns # <<>>
  PROVE  /\ Len(turns) \in 1..Len(turns)
         /\ LastTurnId = turns[Len(turns)].id
         /\ LastTurnId \in Nat
<1>1. Len(turns) \in Nat /\ Len(turns) # 0
    BY EmptySeq DEF TypeOK
<1>2. Len(turns) \in 1..Len(turns)
    BY <1>1
<1>3. turns[Len(turns)] \in Turn
    BY <1>2, ElementOfSeq DEF TypeOK
<1> QED BY <1>2, <1>3 DEF LastTurnId, Turn

\* No turn has a larger id than the last one.
LEMMA LastTurnIsLargest ==
  ASSUME TypeOK, TurnIdsIncrease, NEW i \in 1..Len(turns)
  PROVE  turns[i].id \in Nat /\ turns[i].id <= LastTurnId
<1>1. Len(turns) \in Nat /\ turns # <<>>
    BY EmptySeq DEF TypeOK
<1>2. turns[i] \in Turn
    BY ElementOfSeq DEF TypeOK
<1>3. CASE i = Len(turns)
    BY <1>1, <1>2, <1>3 DEF LastTurnId, Turn
<1>4. CASE i # Len(turns)
  <2>1. i < Len(turns)
      BY <1>1, <1>4
  <2>2. turns[i].id <= turns[Len(turns)].id
      BY <1>1, <1>2, <2>1, LastTurn DEF TurnIdsIncrease, SameTurn, Turn
  <2> QED BY <1>1, <1>2, <2>2, LastTurn DEF Turn
<1> QED BY <1>3, <1>4

LEMMA InitTurnsInv == Init => TurnsInv /\ OriginsInv
<1> SUFFICES ASSUME Init PROVE TurnsInv /\ OriginsInv
    OBVIOUS
<1> USE DEF TurnsInv, TurnIdsIncrease, CurrentTurnIsLast, PendingAhead, OriginsInv,
            InputCommittedOnce, PendingUnanswered, OriginsKnown, Known, LastTurnId
<1>1. ASSUME NEW u \in Users, NEW j \in JobIds, StoryCreatedWithPrologue(u, j)
      PROVE  TurnsInv /\ OriginsInv
  <2>1. Len(turns) = 0
      BY <1>1 DEF StoryCreatedWithPrologue
  <2> QED BY <1>1, <2>1 DEF StoryCreatedWithPrologue, QueuedJob, Absent
<1>2. ASSUME NEW u \in Users, NEW n \in ImportSizes, StoryImported(u, n)
      PROVE  TurnsInv /\ OriginsInv
  <2>1. n \in Nat /\ n # 0
      BY RoomAssumption
  <2>2. /\ Len(turns) = n
        /\ turns # <<>>
        /\ \A i \in 1..n : turns[i].id = i /\ turns[i].origin = NoJob
      BY <1>2, ImportedTurns
  <2>3. /\ manifest.currentTurn = n
        /\ manifest.activeJob = NoJob
        /\ \A i \in JobIds : jobs[i].status = "absent"
      BY <1>2 DEF StoryImported, Absent
  <2>4. LastTurnId = n
      BY <2>1, <2>2
  <2>5. TurnsInv
      BY <2>1, <2>2, <2>3, <2>4
  <2>6. OriginsInv
      BY <2>2, <2>3
  <2> QED BY <2>5, <2>6
<1> QED BY <1>1, <1>2 DEF Init

\* The known jobs stay known and keep their turn and input; a new one has an
\* input that is known.
JobsKept ==
  /\ \A i \in JobIds : Known(i) =>
       /\ Known(i)'
       /\ jobs'[i].turn = jobs[i].turn
       /\ jobs'[i].parent = jobs[i].parent
       /\ jobs'[i].origin = jobs[i].origin
  /\ \A i \in JobIds : Known(i)' /\ ~Known(i) => Known(jobs[i].origin)'

LEMMA KeptKnown ==
  ASSUME TypeOK, OriginsKnown, JobsKept
  PROVE  /\ \A i \in JobIds : Known(i)' => Known(jobs[i].origin)'
         /\ \A i \in 1..Len(turns) :
              turns[i].origin # NoJob => jobs'[turns[i].origin].status # "absent"
<1>1. ASSUME NEW i \in JobIds, Known(i)' PROVE Known(jobs[i].origin)'
  <2>1. CASE Known(i)
    <3>1. jobs[i].origin \in JobIds /\ Known(jobs[i].origin)
        BY <2>1 DEF OriginsKnown, TypeOK, GMJob
    <3>2. jobs'[i].origin = jobs[i].origin
        BY <2>1 DEF JobsKept
    <3> QED BY <3>1, <3>2 DEF Known, JobsKept
  <2> QED BY <1>1, <2>1 DEF JobsKept
<1>2. ASSUME NEW i \in 1..Len(turns), turns[i].origin # NoJob
      PROVE  jobs'[turns[i].origin].status # "absent"
  <2>1. turns[i] \in Turn
      BY ElementOfSeq DEF TypeOK
  <2>2. turns[i].origin \in JobIds /\ Known(turns[i].origin)
      BY <1>2, <2>1 DEF Turn, OriginsKnown
  <2> QED BY <2>2 DEF Known, JobsKept
<1> QED BY <1>1, <1>2

\* Steps that add no turn and cut none, and leave the active job or drop it.
LEMMA TurnsInvKept ==
  ASSUME TypeOK, JobsInv, TurnsInv, OriginsInv, JobsKept,
         UNCHANGED <<turns, cutShort, drift>>,
         manifest'.currentTurn = manifest.currentTurn,
         manifest'.activeJob \in {manifest.activeJob, NoJob}
  PROVE  TurnsInv' /\ OriginsInv'
<1>1. TurnIdsIncrease' /\ CurrentTurnIsLast' /\ InputCommittedOnce'
    BY DEF TurnsInv, OriginsInv, TurnIdsIncrease, CurrentTurnIsLast,
           InputCommittedOnce, LastTurnId, SameTurn
<1>2. PendingAhead' /\ PendingUnanswered'
  <2>1. CASE manifest'.activeJob = NoJob
      BY <2>1 DEF PendingAhead, PendingUnanswered
  <2>2. CASE manifest'.activeJob = manifest.activeJob /\ manifest.activeJob # NoJob
    <3> DEFINE a == manifest.activeJob
    <3>1. /\ jobs'[a].turn = jobs[a].turn
          /\ jobs'[a].parent = jobs[a].parent
          /\ jobs'[a].origin = jobs[a].origin
        BY <2>2, ActiveIsKnown DEF JobsKept
    <3>2. PendingAhead
        BY DEF TurnsInv
    <3>3. PendingUnanswered
        BY DEF OriginsInv
    <3> QED BY <2>2, <3>1, <3>2, <3>3
            DEF PendingAhead, PendingUnanswered, LastTurnId, LeftByActive, SameTurn,
                TurnOf
  <2> QED BY <2>1, <2>2
<1>3. OriginsKnown'
    BY KeptKnown DEF OriginsInv, OriginsKnown, Known
<1> QED BY <1>1, <1>2, <1>3 DEF TurnsInv, OriginsInv

\* A status that is set keeps the jobs.
LEMMA StatusKeepsJobs ==
  ASSUME TypeOK, NEW j \in JobIds, Known(j), NEW st \in JobStatuses \ {"absent"},
         jobs' \in {jobs, JobsWith(j, st)}
  PROVE  JobsKept
<1>1. CASE jobs' = jobs
    BY <1>1 DEF JobsKept, Known
<1>2. CASE jobs' = JobsWith(j, st)
    BY <1>2, StatusSet DEF JobsKept, Known
<1> QED BY <1>1, <1>2

\* A worker that sets the status of the job it holds, or not.
LEMMA StatusKeepsTurnsInv ==
  ASSUME TypeOK, JobsInv, TurnsInv, OriginsInv,
         NEW w \in Workers, pc[w] # "idle",
         NEW st \in JobStatuses \ {"absent"},
         jobs' \in {jobs, JobsWith(hand[w], st)},
         UNCHANGED <<turns, cutShort, drift>>,
         manifest'.currentTurn = manifest.currentTurn,
         manifest'.activeJob = manifest.activeJob
  PROVE  TurnsInv' /\ OriginsInv'
<1>1. hand[w] \in JobIds /\ Known(hand[w])
    BY DEF TypeOK, JobsInv, HandKnown
<1>2. JobsKept
    BY <1>1, StatusKeepsJobs
<1> QED BY <1>2, TurnsInvKept

\* A new file with its own input, or that of a known job.
LEMMA NewFileKeepsJobs ==
  ASSUME TypeOK, NEW j \in JobIds, jobs[j].status = "absent",
         NEW job \in GMJob, job.status # "absent",
         job.origin = j \/ Known(job.origin),
         jobs' = [jobs EXCEPT ![j] = job]
  PROVE  JobsKept
<1>1. /\ jobs'[j] = job
      /\ \A i \in JobIds : i # j => jobs'[i] = jobs[i]
    BY DEF TypeOK
<1>2. job.origin \in JobIds
    BY DEF GMJob
<1> QED BY <1>1, <1>2 DEF JobsKept, Known

\* A new active job whose turn lies ahead and whose input is unanswered, but
\* for the turns that commits cut short have left of it.
LEMMA ActivateKeepsTurnsInv ==
  ASSUME TypeOK, JobsInv, TurnsInv, OriginsInv,
         NEW j \in JobIds, jobs[j].status = "absent",
         NEW job \in GMJob, job.status = "queued",
         \/ job.turn > LastTurnId
         \/ /\ turns # <<>>
            /\ SameTurn(turns[Len(turns)], TurnOf(job))
            /\ turns[Len(turns)].origin \in cutShort,
         \A i \in 1..Len(turns) : turns[i].origin = job.origin =>
           SameTurn(turns[i], TurnOf(job)) /\ turns[i].origin \in cutShort,
         job.origin = j \/ Known(job.origin),
         ActivateJob(j, job),
         UNCHANGED <<turns, cutShort, drift>>
  PROVE  TurnsInv' /\ OriginsInv'
<1>1. /\ jobs'[j] = job
      /\ manifest'.currentTurn = manifest.currentTurn
      /\ manifest'.activeJob = j
    BY DEF ActivateJob, TypeOK, Manifest
<1>2. TurnIdsIncrease' /\ CurrentTurnIsLast' /\ InputCommittedOnce'
    BY <1>1 DEF TurnsInv, OriginsInv, TurnIdsIncrease, CurrentTurnIsLast,
                InputCommittedOnce, LastTurnId, SameTurn
<1>3. PendingAhead' /\ PendingUnanswered'
    BY <1>1 DEF PendingAhead, PendingUnanswered, LastTurnId, LeftByActive, SameTurn,
                TurnOf
<1>4. JobsKept
    BY NewFileKeepsJobs DEF ActivateJob
<1>5. OriginsKnown'
    BY <1>4, KeptKnown DEF OriginsInv, OriginsKnown, Known
<1> QED BY <1>2, <1>3, <1>5 DEF TurnsInv, OriginsInv

\* A rollback keeps a beginning of turns.jsonl that ends with the target,
\* and current_turn follows or drifts.
LEMMA RollbackKeepsTurnsInv ==
  ASSUME TypeOK, JobsInv, TurnsInv, OriginsInv,
         NEW t \in 1..MaxTurn,
         NEW i \in 1..Len(turns), FirstTurnWithId(i, t),
         turns' = SubSeq(turns, 1, i),
         manifest'.currentTurn = t \/ drift',
         manifest'.activeJob = manifest.activeJob,
         UNCHANGED <<jobs, cutShort>>
  PROVE  TurnsInv' /\ OriginsInv'
<1>3. /\ Len(turns) \in Nat
      /\ i \in Nat
      /\ \A k \in 1..Len(turns) : turns[k] \in Turn
    BY ElementOfSeq DEF TypeOK
<1>4. /\ Len(turns') = i
      /\ \A k \in 1..i : turns'[k] = turns[k]
    BY <1>3, SubSeqProperties
<1>5. turns[i].id = t
    BY DEF FirstTurnWithId
<1>6. turns' # <<>> /\ LastTurnId' = t /\ t <= LastTurnId
  <2>1. turns' # <<>>
      BY <1>3, <1>4
  <2>2. LastTurnId' = t
      BY <1>3, <1>4, <1>5, <2>1 DEF LastTurnId
  <2> QED BY <1>5, <2>1, <2>2, LastTurnIsLargest DEF TurnsInv
<1>7. TurnIdsIncrease'
    BY <1>3, <1>4 DEF TurnsInv, TurnIdsIncrease, SameTurn
<1>8. CurrentTurnIsLast'
    BY <1>6 DEF CurrentTurnIsLast
<1>9. PendingAhead'
  <2> DEFINE a == manifest.activeJob
             n == Len(turns)
  <2>1. SUFFICES ASSUME a # NoJob
                 PROVE  jobs[a].turn > t \/ LeftByActive(turns[i])
      BY <1>3, <1>4, <1>6 DEF PendingAhead, LeftByActive
  <2>2. jobs[a].turn \in Nat
      BY <2>1, ActiveIsKnown DEF TypeOK, GMJob
  <2>3. LastTurnId \in Nat /\ t \in Nat
      BY <1>3, <1>5, LastTurnIsLargest, LastTurn, RoomAssumption
         DEF TurnsInv, LastTurnId
  <2>4. CASE jobs[a].turn > LastTurnId
      BY <1>6, <2>2, <2>3, <2>4
  <2>5. CASE turns # <<>> /\ LeftByActive(turns[n])
    <3>1. SameTurn(turns[n], TurnOf(jobs[a])) /\ turns[n].origin \in cutShort
        BY <2>5 DEF LeftByActive
    <3>2. CASE i = n
        BY <2>5, <3>2
    <3>3. CASE i < n
      <4>1. n \in 1..n
          BY <1>3, <3>3
      <4>2. \/ turns[i].id < turns[n].id
            \/ SameTurn(turns[i], turns[n]) /\ turns[i].origin \in cutShort
          BY <3>3, <4>1 DEF TurnsInv, TurnIdsIncrease
      <4>3. turns[n].id = jobs[a].turn
          BY <3>1 DEF SameTurn, TurnOf
      <4> QED BY <1>5, <2>2, <2>3, <3>1, <4>2, <4>3 DEF LeftByActive, SameTurn
    <3> QED BY <1>3, <3>2, <3>3
  <2> QED BY <2>1, <2>4, <2>5 DEF TurnsInv, PendingAhead
<1>10. InputCommittedOnce' /\ PendingUnanswered'
    BY <1>3, <1>4 DEF OriginsInv, InputCommittedOnce, PendingUnanswered, SameTurn,
                      LeftByActive
<1>11. OriginsKnown'
    BY <1>3, <1>4 DEF OriginsInv, OriginsKnown, Known
<1> QED BY <1>7, <1>8, <1>9, <1>10, <1>11 DEF TurnsInv, OriginsInv

\* An answer adds one turn, ahead of the others or once more.  Then the job is
\* done with, or its input is marked.
LEMMA AppendKeepsTurnsInv ==
  ASSUME TypeOK, JobsInv, TurnsInv, OriginsInv,
         NEW j \in JobIds, manifest.activeJob = j,
         AppendTurn(j),
         jobs' \in {jobs, JobsWith(j, "completed")},
         cutShort \subseteq cutShort',
         \/ /\ manifest'.activeJob = NoJob
            /\ manifest'.currentTurn = jobs[j].turn
         \/ /\ manifest'.activeJob = j
            /\ jobs[j].origin \in cutShort'
            /\ drift'
  PROVE  TurnsInv' /\ OriginsInv'
<1> DEFINE turn == TurnOf(jobs[j])
           n == Len(turns)
<1>1. j # NoJob /\ Known(j) /\ jobs[j] \in GMJob
    BY RoomAssumption, ActiveIsKnown DEF TypeOK
<1>2. /\ turn \in Turn
      /\ turn.id = jobs[j].turn
      /\ turn.parent = jobs[j].parent
      /\ turn.origin = jobs[j].origin
      /\ jobs[j].turn \in Nat
      /\ jobs[j].origin \in JobIds
    BY <1>1 DEF TurnOf, Turn, GMJob
<1>3. /\ n \in Nat
      /\ Len(turns') = n + 1
      /\ turns' # <<>>
      /\ \A i \in 1..n : turns'[i] = turns[i]
      /\ turns'[n + 1] = turn
    BY <1>2, AppendProperties DEF TypeOK, AppendTurn
<1>4. \A i \in JobIds : /\ jobs'[i].turn = jobs[i].turn
                        /\ jobs'[i].parent = jobs[i].parent
                        /\ jobs'[i].origin = jobs[i].origin
  <2>1. CASE jobs' = jobs
      BY <2>1
  <2>2. CASE jobs' = JobsWith(j, "completed")
      BY <2>2, StatusSet
  <2> QED BY <2>1, <2>2
<1>5. \A i \in 1..(n + 1) : i \in 1..n \/ i = n + 1
    BY <1>3
<1>6. \A i \in 1..n : turns[i] \in Turn
    BY ElementOfSeq DEF TypeOK
<1>7. PendingAhead /\ PendingUnanswered /\ TurnIdsIncrease /\ InputCommittedOnce
    BY DEF TurnsInv, OriginsInv
<1> HIDE DEF turn, n
<1>8. \A i \in 1..n : \/ turns[i].id < turn.id
                      \/ SameTurn(turns[i], turn) /\ turns[i].origin \in cutShort
  <2>1. SUFFICES ASSUME NEW i \in 1..n
                 PROVE  \/ turns[i].id < turn.id
                        \/ SameTurn(turns[i], turn) /\ turns[i].origin \in cutShort
      OBVIOUS
  <2>2. /\ turns[i].id \in Nat
        /\ turns[i].id <= LastTurnId
        /\ LastTurnId \in Nat
      BY <1>3, <1>7, LastTurnIsLargest, LastTurn DEF n, LastTurnId
  <2>3. CASE jobs[j].turn > LastTurnId
      BY <1>2, <2>2, <2>3
  <2>4. CASE LeftByActive(turns[n])
    <3>1. SameTurn(turns[n], turn) /\ turns[n].origin \in cutShort
        BY <2>4 DEF LeftByActive, turn
    <3>2. CASE i = n
        BY <3>1, <3>2
    <3>3. CASE i < n
      <4>1. n \in 1..n
          BY <1>3, <3>3
      <4>2. \/ turns[i].id < turns[n].id
            \/ SameTurn(turns[i], turns[n]) /\ turns[i].origin \in cutShort
          BY <1>7, <3>3, <4>1 DEF TurnIdsIncrease, n
      <4> QED BY <3>1, <4>2 DEF SameTurn
    <3> QED BY <1>3, <3>2, <3>3
  <2> QED BY <1>1, <1>7, <2>3, <2>4 DEF PendingAhead, n
<1>9. TurnIdsIncrease'
  <2>1. SUFFICES ASSUME NEW i \in 1..(n + 1), NEW k \in 1..(n + 1), i < k
                 PROVE  \/ turns'[i].id < turns'[k].id
                        \/ /\ SameTurn(turns'[i], turns'[k])
                           /\ turns'[i].origin \in cutShort'
      BY <1>3 DEF TurnIdsIncrease, SameTurn
  <2>2. i \in 1..n
      BY <1>3, <2>1
  <2>3. CASE k = n + 1
      BY <1>3, <1>8, <2>2, <2>3
  <2>4. CASE k \in 1..n
      BY <1>3, <1>7, <2>1, <2>2, <2>4 DEF TurnIdsIncrease, n
  <2> QED BY <1>5, <2>3, <2>4
<1>10. CurrentTurnIsLast'
    BY <1>2, <1>3 DEF CurrentTurnIsLast, LastTurnId
<1>11. \A i \in 1..n : turns[i].origin = turn.origin =>
         SameTurn(turns[i], turn) /\ turns[i].origin \in cutShort
    BY <1>1, <1>2, <1>7 DEF PendingUnanswered, LeftByActive, turn, n
<1>12. InputCommittedOnce'
  <2>1. SUFFICES ASSUME NEW i \in 1..(n + 1), NEW k \in 1..(n + 1),
                        turns'[i].origin = turns'[k].origin,
                        turns'[i].origin # NoJob, i # k
                 PROVE  /\ SameTurn(turns'[i], turns'[k])
                        /\ turns'[i].origin \in cutShort'
      BY <1>3 DEF InputCommittedOnce, SameTurn
  <2>2. CASE i \in 1..n /\ k \in 1..n
      BY <1>3, <1>7, <2>1, <2>2 DEF InputCommittedOnce, n
  <2>3. CASE i \in 1..n /\ k = n + 1
      BY <1>3, <1>11, <2>1, <2>3
  <2>4. CASE i = n + 1 /\ k \in 1..n
      BY <1>3, <1>11, <2>1, <2>4 DEF SameTurn
  <2> QED BY <1>5, <2>1, <2>2, <2>3, <2>4
<1>13. PendingAhead' /\ PendingUnanswered'
  <2>1. CASE manifest'.activeJob = NoJob
      BY <2>1 DEF PendingAhead, PendingUnanswered
  <2>2. CASE manifest'.activeJob = j /\ jobs[j].origin \in cutShort'
    <3>1. SameTurn(turn, TurnOf(jobs'[j]))
        BY <1>2, <1>4 DEF SameTurn, TurnOf, turn
    <3>2. SameTurn(turns'[n + 1], TurnOf(jobs'[j])) /\ turns'[n + 1].origin \in cutShort'
        BY <1>2, <1>3, <2>2, <3>1
    <3>3. PendingAhead'
        BY <1>3, <2>2, <3>2 DEF PendingAhead, LeftByActive, SameTurn, TurnOf
    <3>4. \A i \in 1..n : turns[i].origin = jobs'[j].origin =>
            SameTurn(turns[i], TurnOf(jobs'[j])) /\ turns[i].origin \in cutShort'
        BY <1>2, <1>4, <1>11, <3>1 DEF SameTurn
    <3>5. PendingUnanswered'
        BY <1>3, <1>5, <2>2, <3>2, <3>4
           DEF PendingUnanswered, LeftByActive, SameTurn, TurnOf
    <3> QED BY <3>3, <3>5
  <2> QED BY <2>1, <2>2
<1>14. JobsKept
    BY <1>1, StatusKeepsJobs DEF JobStatuses
<1>15. OriginsKnown'
  <2>1. /\ \A i \in JobIds : Known(i)' => Known(jobs[i].origin)'
        /\ \A i \in 1..n :
             turns[i].origin # NoJob => jobs'[turns[i].origin].status # "absent"
      BY <1>14, KeptKnown DEF OriginsInv, n
  <2>2. jobs'[turn.origin].status # "absent"
    <3>1. Known(jobs[j].origin)
        BY <1>1 DEF OriginsInv, OriginsKnown
    <3> QED BY <1>2, <1>14, <3>1 DEF JobsKept, Known
  <2>3. \A i \in 1..Len(turns') :
          turns'[i].origin # NoJob => jobs'[turns'[i].origin].status # "absent"
      BY <1>3, <1>5, <2>1, <2>2
  <2> QED BY <2>1, <2>3 DEF OriginsKnown, Known
<1> QED BY <1>9, <1>10, <1>12, <1>13, <1>15 DEF TurnsInv, OriginsInv

LEMMA StepTurnsInv ==
  TypeOK /\ JobsInv /\ TurnsInv /\ OriginsInv /\ [Next]_vars
    => TurnsInv' /\ OriginsInv'
<1> SUFFICES ASSUME TypeOK, JobsInv, TurnsInv, OriginsInv, [Next]_vars
             PROVE  TurnsInv' /\ OriginsInv'
    OBVIOUS
<1>e. UNCHANGED envVars => UNCHANGED <<cutShort, drift>>
    BY DEF envVars, faultVars
<1>f. UNCHANGED faultVars => UNCHANGED cutShort
    BY DEF faultVars
<1>1. ASSUME NEW u \in Users, NEW k \in Keys \cup {NoKey}, NEW t \in 0..MaxTurn,
             SubmitStoryInput(u, k, t)
      PROVE  TurnsInv' /\ OriginsInv'
  <2>1. PICK j \in JobIds :
          jobs[j].status = "absent" /\ ActivateJob(j, InputJob(u, k, t, j))
      BY <1>1 DEF SubmitStoryInput
  <2> DEFINE job == InputJob(u, k, t, j)
  <2>2. /\ job \in GMJob
        /\ job.status = "queued"
        /\ job.turn = t + 1
        /\ job.origin = j
      BY InputJobIsJob
  <2>3. job.turn > LastTurnId
      BY <1>1, <2>2, RoomAssumption DEF SubmitStoryInput, MaySubmit, AwaitsInput
  <2>4. \A i \in 1..Len(turns) : turns[i].origin # job.origin
      BY <2>1, <2>2, RoomAssumption DEF OriginsInv, OriginsKnown, Known
  <2>5. UNCHANGED <<turns, cutShort, drift>>
      BY <1>1, <1>e DEF SubmitStoryInput
  <2> HIDE DEF job
  <2>6. ActivateJob(j, job)
      BY <2>1 DEF job
  <2> QED BY <2>1, <2>2, <2>3, <2>4, <2>5, <2>6, ActivateKeepsTurnsInv
<1>2. ASSUME NEW j \in JobIds, jobs[j].status = "absent",
             NEW job \in GMJob, job.status # "absent",
             job.origin = j \/ Known(job.origin),
             jobs' = [jobs EXCEPT ![j] = job],
             UNCHANGED <<manifest, turns, cutShort, drift>>
      PROVE  TurnsInv' /\ OriginsInv'
  <2>1. JobsKept
      BY <1>2, NewFileKeepsJobs
  <2> QED BY <1>2, <2>1, TurnsInvKept
<1>3. ASSUME NEW u \in Users, NEW k \in Keys \cup {NoKey}, NEW t \in 0..MaxTurn,
             SubmitQuestion(u, k, t)
      PROVE  TurnsInv' /\ OriginsInv'
  <2> DEFINE job(j) == QueuedJob("question_answer", u, k, t, t, j)
  <2>1. PICK j \in JobIds :
          /\ jobs[j].status = "absent"
          /\ jobs' = [jobs EXCEPT ![j] = job(j)]
      BY <1>3 DEF SubmitQuestion
  <2>2. job(j) \in GMJob /\ job(j).status # "absent" /\ job(j).origin = j
      BY RoomAssumption DEF QueuedJob, GMJob, JobStatuses
  <2>3. UNCHANGED <<manifest, turns, cutShort, drift>>
      BY <1>3, <1>e DEF SubmitQuestion
  <2> HIDE DEF job
  <2> QED BY <1>2, <2>1, <2>2, <2>3
<1>r. ASSUME NEW u \in Users, MayResume(u)
      PROVE  /\ \/ ResumedJob.turn > LastTurnId
                \/ /\ turns # <<>>
                   /\ SameTurn(turns[Len(turns)], TurnOf(ResumedJob))
                   /\ turns[Len(turns)].origin \in cutShort
             /\ \A i \in 1..Len(turns) : turns[i].origin = ResumedJob.origin =>
                  /\ SameTurn(turns[i], TurnOf(ResumedJob))
                  /\ turns[i].origin \in cutShort
             /\ Known(ResumedJob.origin)
  <2>1. /\ manifest.activeJob \in JobIds /\ manifest.activeJob # NoJob
        /\ Known(manifest.activeJob)
      BY <1>r, ActiveIsKnown DEF MayResume, MayRecover
  <2>2. /\ TurnOf(ResumedJob) = TurnOf(jobs[manifest.activeJob])
        /\ ResumedJob.turn = jobs[manifest.activeJob].turn
        /\ ResumedJob.origin = jobs[manifest.activeJob].origin
      BY <1>r, ResumedJobIsJob
  <2> QED BY <2>1, <2>2 DEF TurnsInv, PendingAhead, OriginsInv, PendingUnanswered,
                            OriginsKnown, LeftByActive
<1>4. ASSUME NEW u \in Users, ResumeFailedJob(u)
      PROVE  TurnsInv' /\ OriginsInv'
  <2>1. PICK j \in JobIds : jobs[j].status = "absent" /\ ActivateJob(j, ResumedJob)
      BY <1>4 DEF ResumeFailedJob
  <2>2. MayResume(u) /\ UNCHANGED <<turns, cutShort, drift>>
      BY <1>4, <1>e DEF ResumeFailedJob
  <2>3. ResumedJob \in GMJob /\ ResumedJob.status = "queued"
      BY <2>2, ResumedJobIsJob
  <2> QED BY <1>r, <2>1, <2>2, <2>3, ActivateKeepsTurnsInv
<1>5. ASSUME \/ \E u \in Users :
                  CancelFailedJob(u) \/ ClaimDriver(u) \/ ReleaseDriver(u)
             \/ \E s \in SetStatuses : ChangeLifecycleStatus(s)
             \/ \E s \in {manifest.status} \cup (SetStatuses \ {"deleted"}),
                   d \in {manifest.driver, NoUser} \cup Users :
                     AdminUpdateStory(s, d)
      PROVE  TurnsInv' /\ OriginsInv'
  <2>1. /\ manifest'.currentTurn = manifest.currentTurn
        /\ manifest'.activeJob \in {manifest.activeJob, NoJob}
        /\ UNCHANGED <<turns, jobs, cutShort, drift>>
      BY <1>5, <1>e DEF CancelFailedJob, ClaimDriver, ReleaseDriver,
                  ChangeLifecycleStatus, AdminUpdateStory, TypeOK, Manifest
  <2> QED BY <2>1, TurnsInvKept DEF Known, JobsKept
<1>6. ASSUME EditCurrentTurn PROVE TurnsInv' /\ OriginsInv'
  <2>1. PICK i \in 1..Len(turns) :
          /\ FirstTurnWithId(i, manifest.currentTurn)
          /\ manifest' = [manifest EXCEPT !.currentTurn = turns[i].id]
      BY <1>6 DEF EditCurrentTurn
  <2>2. /\ manifest'.currentTurn = manifest.currentTurn
        /\ manifest'.activeJob = manifest.activeJob
        /\ UNCHANGED <<turns, jobs, cutShort, drift>>
      BY <1>6, <1>e, <2>1 DEF EditCurrentTurn, FirstTurnWithId, TypeOK, Manifest
  <2> QED BY <2>2, TurnsInvKept DEF Known, JobsKept
<1>7. ASSUME NEW t \in 1..MaxTurn, RollbackStoryToTurn(t) \/ RollbackCutShort(t)
      PROVE  TurnsInv' /\ OriginsInv'
  <2>1. PICK i \in 1..Len(turns) :
          FirstTurnWithId(i, t) /\ turns' = SubSeq(turns, 1, i)
      BY <1>7 DEF RollbackStoryToTurn, RollbackCutShort
  <2>2. /\ manifest'.currentTurn = t \/ drift'
        /\ manifest'.activeJob = manifest.activeJob
        /\ UNCHANGED <<jobs, cutShort>>
      BY <1>7, <1>f DEF RollbackStoryToTurn, RollbackCutShort, RolledBackManifest,
                        TypeOK, Manifest
  <2> QED BY <2>1, <2>2, RollbackKeepsTurnsInv
<1>8. ASSUME NEW w \in Workers, MarkJobStarted(w) \/ MarkCutShort(w)
      PROVE  TurnsInv' /\ OriginsInv'
  <2>1. /\ pc[w] # "idle"
        /\ jobs' \in {jobs, JobsWith(hand[w], "running")}
        /\ UNCHANGED <<manifest, turns, cutShort, drift>>
      BY <1>8, <1>e DEF MarkJobStarted, MarkCutShort, MayMark
  <2> QED BY <2>1, StatusKeepsTurnsInv DEF JobStatuses
<1>9. ASSUME NEW w \in Workers, MayApply(w)
      PROVE  hand[w] \in JobIds /\ manifest.activeJob = hand[w]
    BY <1>9 DEF MayApply, StillActive, TypeOK
<1>10. ASSUME NEW w \in Workers, ApplyGMOutput(w)
       PROVE  TurnsInv' /\ OriginsInv'
  <2>1. /\ manifest'.activeJob = NoJob
        /\ manifest'.currentTurn = jobs[hand[w]].turn
      BY <1>10 DEF ApplyGMOutput, CommittedManifest, TypeOK, Manifest
  <2>2. /\ MayApply(w) /\ AppendTurn(hand[w])
        /\ jobs' = JobsWith(hand[w], "completed")
        /\ UNCHANGED cutShort
      BY <1>10, <1>f DEF ApplyGMOutput
  <2> QED BY <1>9, <2>1, <2>2, AppendKeepsTurnsInv
<1>11. ASSUME NEW w \in Workers, ApplyCutShort(w)
       PROVE  TurnsInv' /\ OriginsInv'
  <2>1. /\ MayApply(w) /\ AppendTurn(hand[w])
        /\ jobs' \in {jobs, JobsWith(hand[w], "completed")}
        /\ cutShort \subseteq cutShort'
      BY <1>11 DEF ApplyCutShort
  <2>2. \/ /\ manifest'.activeJob = NoJob
           /\ manifest'.currentTurn = jobs[hand[w]].turn
        \/ /\ manifest'.activeJob = hand[w]
           /\ jobs[hand[w]].origin \in cutShort'
           /\ drift'
      BY <1>9, <1>11, <2>1 DEF ApplyCutShort, CommittedManifest, TypeOK, Manifest
  <2> QED BY <1>9, <2>1, <2>2, AppendKeepsTurnsInv
<1>12. ASSUME NEW w \in Workers, ApplyQuestionOutput(w) \/ QuestionCutShort(w)
       PROVE  TurnsInv' /\ OriginsInv'
  <2>1. /\ pc[w] # "idle"
        /\ jobs' = JobsWith(hand[w], "completed")
        /\ UNCHANGED <<manifest, turns, cutShort, drift>>
      BY <1>12, <1>e DEF ApplyQuestionOutput, QuestionCutShort
  <2> QED BY <2>1, StatusKeepsTurnsInv DEF JobStatuses
<1>13. ASSUME NEW w \in Workers, FailGMJob(w) \/ FailCutShort(w)
       PROVE  TurnsInv' /\ OriginsInv'
  <2>1. /\ pc[w] # "idle"
        /\ jobs' \in {jobs, JobsWith(hand[w], "failed")}
        /\ manifest' \in {manifest, FailedManifest(hand[w])}
        /\ UNCHANGED <<turns, cutShort, drift>>
      BY <1>13, <1>e DEF FailGMJob, FailCutShort
  <2>2. /\ manifest'.currentTurn = manifest.currentTurn
        /\ manifest'.activeJob = manifest.activeJob
      BY <2>1 DEF FailedManifest, TypeOK, Manifest
  <2> QED BY <2>1, <2>2, StatusKeepsTurnsInv DEF JobStatuses
<1>14. ASSUME \/ \E w \in Workers :
                   \/ PickJob(w) \/ MarkRefused(w) \/ GenerationFails(w)
                   \/ ApplyRefused(w) \/ FailureLost(w) \/ Crash(w)
              \/ HoldLock \/ ReleaseLock \/ StaleLockRemoved \/ UNCHANGED vars
       PROVE  TurnsInv' /\ OriginsInv'
  <2>1. UNCHANGED <<manifest, turns, jobs, cutShort, drift>>
      BY <1>14, <1>e, <1>f
         DEF PickJob, MarkRefused, GenerationFails, ApplyRefused, FailureLost, Crash,
             HoldLock, ReleaseLock, StaleLockRemoved, vars
  <2> QED BY <2>1, TurnsInvKept DEF Known, JobsKept
<1>15. ASSUME NEW u \in Users, NEW k \in Keys \cup {NoKey}, NEW t \in 0..MaxTurn,
              SubmitCutShort(u, k, t)
       PROVE  TurnsInv' /\ OriginsInv'
  <2>1. PICK j \in JobIds : LeaveOrphan(j, InputJob(u, k, t, j))
      BY <1>15 DEF SubmitCutShort
  <2> DEFINE job == InputJob(u, k, t, j)
  <2>2. job \in GMJob /\ job.status # "absent" /\ job.origin = j
      BY InputJobIsJob
  <2> HIDE DEF job
  <2>3. LeaveOrphan(j, job)
      BY <2>1 DEF job
  <2> QED BY <1>2, <2>2, <2>3 DEF LeaveOrphan
<1>16. ASSUME NEW u \in Users, ResumeCutShort(u)
       PROVE  TurnsInv' /\ OriginsInv'
  <2>1. PICK j \in JobIds : LeaveOrphan(j, ResumedJob)
      BY <1>16 DEF ResumeCutShort
  <2>2. ResumedJob \in GMJob /\ ResumedJob.status # "absent" /\ Known(ResumedJob.origin)
      BY <1>16, <1>r, ResumedJobIsJob DEF ResumeCutShort
  <2> QED BY <1>2, <2>1, <2>2 DEF LeaveOrphan
<1> QED
    BY <1>1, <1>3, <1>4, <1>5, <1>6, <1>7, <1>8, <1>10, <1>11, <1>12, <1>13, <1>14,
       <1>15, <1>16
       DEF Next, UserRequest, AdminRequest, WorkerStep, HandlerCutShort

\* The whole invariant, of any room.
THEOREM RoomInvariant == Spec => [](TypeOK /\ RoomInv)
<1>1. Init => TypeOK /\ JobsInv /\ TurnsInv /\ OriginsInv
    BY InitTypeOK, InitJobsInv, InitTurnsInv
<1>2. /\ TypeOK /\ JobsInv /\ TurnsInv /\ OriginsInv
      /\ [Next]_vars
      => (TypeOK /\ JobsInv /\ TurnsInv /\ OriginsInv)'
    BY StepTypeOK, StepJobsInv, StepTurnsInv
<1>3. TypeOK /\ JobsInv /\ TurnsInv /\ OriginsInv => TypeOK /\ RoomInv
    BY DEF RoomInv
<1> QED BY <1>1, <1>2, <1>3, PTL DEF Spec

\* turns.jsonl stays in order, but for the repeated line of a commit cut
\* short, and current_turn names its last line unless a handler stopped
\* between the two, whatever rollbacks, resumes of old jobs and edits do.
THEOREM TurnsInOrder == Spec => [](TurnIdsIncrease /\ CurrentTurnIsLast)
<1>1. RoomInv => TurnIdsIncrease /\ CurrentTurnIsLast
    BY DEF RoomInv, TurnsInv
<1> QED BY <1>1, RoomInvariant, PTL

\* current_turn of the manifest is the id of the last turn of turns.jsonl
\* (applyGMOutput, rollbackStoryToTurn), whatever is rolled back and resumed,
\* and after a handler cut short again with the next commit or rollback.
THEOREM CurrentTurnLast == Spec => []CurrentTurnIsLast
BY TurnsInOrder, PTL

\* An input becomes at most one turn, with any number of workers, and after a
\* commit cut short copies of that one turn (applyGMOutput, resumeFailedJob).
THEOREM CommittedOnce == Spec => []InputCommittedOnce
<1>1. RoomInv => InputCommittedOnce
    BY DEF RoomInv, OriginsInv
<1> QED BY <1>1, RoomInvariant, PTL

\* Nothing is cut from the story while the active job is live, and no turn is
\* changed (rollbackStoryToTurn, storyHasBlockingGMJob).
THEOREM CommittedStays == Spec => CommittedTurnsKept
<1> DEFINE Kept == \A i \in 1..Len(turns) :
                     \/ i <= Len(turns') /\ SameTurn(turns[i], turns'[i])
                     \/ /\ Len(turns') < i
                        /\ \A j \in JobIds :
                             Live(j) => j \in halfDone \ {manifest.activeJob}
<1>1. TypeOK /\ RoomInv /\ [Next]_vars => [Kept]_vars
  <2> SUFFICES ASSUME TypeOK, RoomInv, [Next]_vars PROVE Kept
      OBVIOUS
  <2>1. CASE turns' = turns
      BY <2>1 DEF SameTurn, TypeOK
  <2>2. ASSUME NEW w \in Workers, MayApply(w), AppendTurn(hand[w]) PROVE Kept
    <3>1. hand[w] \in JobIds
        BY <2>2 DEF MayApply, TypeOK
    <3>2. TurnOf(jobs[hand[w]]) \in Turn
        BY <3>1 DEF TurnOf, Turn, TypeOK, GMJob
    <3>3. turns' = Append(turns, TurnOf(jobs[hand[w]]))
        BY <2>2 DEF AppendTurn
    <3>4. /\ Len(turns) \in Nat
          /\ Len(turns') = Len(turns) + 1
          /\ \A i \in 1..Len(turns) : turns'[i] = turns[i]
        BY <3>2, <3>3, AppendProperties DEF TypeOK
    <3> QED BY <3>4 DEF SameTurn
  <2>3. ASSUME ~HasBlockingGMJob,
               \E i \in 1..Len(turns) : turns' = SubSeq(turns, 1, i)
        PROVE  Kept
    <3>1. PICK i \in 1..Len(turns) : turns' = SubSeq(turns, 1, i)
        BY <2>3
    <3>2. /\ Len(turns) \in Nat
          /\ i \in Nat
          /\ \A k \in 1..i : turns[k] \in Turn
        BY ElementOfSeq DEF TypeOK
    <3>3. /\ Len(turns') = i
          /\ \A k \in 1..i : turns'[k] = turns[k]
        BY <3>1, <3>2, SubSeqProperties
    <3>4. \A j \in JobIds : Live(j) => j \in halfDone \ {manifest.activeJob}
        BY <2>3, RoomAssumption
           DEF HasBlockingGMJob, RoomInv, JobsInv, SingleFlight, StillActive, Live
    <3>5. \A k \in 1..Len(turns) : k \in 1..i \/ i < k
        BY <3>2
    <3> QED BY <3>2, <3>3, <3>4, <3>5 DEF SameTurn
  <2>4. \/ turns' = turns
        \/ \E w \in Workers : MayApply(w) /\ AppendTurn(hand[w])
        \/ /\ ~HasBlockingGMJob
           /\ \E i \in 1..Len(turns) : turns' = SubSeq(turns, 1, i)
      BY DEF Next, UserRequest, AdminRequest, WorkerStep, HandlerCutShort,
             SubmitStoryInput, SubmitQuestion, ResumeFailedJob, CancelFailedJob,
             ClaimDriver, ReleaseDriver, ChangeLifecycleStatus, AdminUpdateStory,
             EditCurrentTurn, RollbackStoryToTurn, PickJob, MarkJobStarted,
             MarkRefused, GenerationFails, ApplyGMOutput, ApplyQuestionOutput,
             ApplyRefused, FailGMJob, FailureLost, HoldLock, ReleaseLock, Crash,
             StaleLockRemoved, SubmitCutShort, ResumeCutShort, LeaveOrphan,
             RollbackCutShort, MarkCutShort, ApplyCutShort, QuestionCutShort,
             FailCutShort, vars
  <2> QED BY <2>1, <2>2, <2>3, <2>4
<1> QED BY <1>1, RoomInvariant, PTL DEF Spec, CommittedTurnsKept

----------------------------------------------------------------------------
(* The job files that a step writes                                        *)

\* A new job file, under a name nobody uses.
NewJob(j, job) ==
  /\ jobs[j].status = "absent"
  /\ job.status = "queued"
  /\ jobs' = [jobs EXCEPT ![j] = job]
  /\ ~KeyUsed(job.type, job.key)

\* A request asks for a turn within the bound, and jobs keep what they ask.
JobTurnsBounded ==
  \A j \in JobIds : /\ jobs[j].turn \in 0..MaxTurn
                    /\ Known(j) /\ Exclusive(j) => jobs[j].turn # 0

\* The step adds one new job, or sets the status of one that a worker holds.
AddsJob ==
  \E j \in JobIds, job \in GMJob :
    /\ NewJob(j, job)
    /\ JobTurnsBounded => /\ job.turn \in 0..MaxTurn
                          /\ job.type # "question_answer" => job.turn # 0

SetsStatus ==
  \E w \in Workers, st \in {"running", "completed", "failed"} :
    pc[w] # "idle" /\ jobs' = JobsWith(hand[w], st)

LEMMA InputIsAdded ==
  ASSUME TypeOK, NEW u \in Users, NEW k \in Keys \cup {NoKey}, NEW t \in 0..MaxTurn,
         MaySubmit(u, k, t),
         NEW j \in JobIds, jobs[j].status = "absent",
         jobs' = [jobs EXCEPT ![j] = InputJob(u, k, t, j)]
  PROVE  AddsJob
<1> DEFINE job == InputJob(u, k, t, j)
<1>1. /\ job \in GMJob /\ job.type = "story_turn" /\ job.status = "queued"
      /\ job.key = k /\ job.turn = t + 1
    BY InputJobIsJob
<1>2. job.turn \in 1..MaxTurn /\ ~KeyUsed(job.type, job.key)
    BY <1>1, RoomAssumption DEF MaySubmit
<1>2a. job.turn \in 0..MaxTurn /\ job.turn # 0
    BY <1>2, RoomAssumption
<1>3. jobs' = [jobs EXCEPT ![j] = job]
    OBVIOUS
<1> HIDE DEF job
<1> QED BY <1>1, <1>2, <1>2a, <1>3 DEF AddsJob, NewJob

LEMMA ResumedIsAdded ==
  ASSUME TypeOK, JobsInv, NEW u \in Users, MayResume(u),
         NEW j \in JobIds, jobs[j].status = "absent",
         jobs' = [jobs EXCEPT ![j] = ResumedJob]
  PROVE  AddsJob
<1>1. /\ manifest.activeJob \in JobIds /\ ResumedJob \in GMJob
      /\ ResumedJob.status = "queued" /\ ResumedJob.key = NoKey
      /\ ResumedJob.turn = jobs[manifest.activeJob].turn
    BY ResumedJobIsJob
<1>2. ~KeyUsed(ResumedJob.type, ResumedJob.key)
    BY <1>1 DEF KeyUsed
<1>3. JobTurnsBounded => ResumedJob.turn \in 0..MaxTurn /\ ResumedJob.turn # 0
    BY <1>1, ActiveIsKnown DEF JobTurnsBounded, MayResume, MayRecover
<1> QED BY <1>1, <1>2, <1>3 DEF AddsJob, NewJob

LEMMA RequestAddsJob ==
  ASSUME TypeOK, JobsInv,
         \/ \E u \in Users, k \in Keys \cup {NoKey}, t \in 0..MaxTurn :
              \/ SubmitStoryInput(u, k, t) \/ SubmitCutShort(u, k, t)
              \/ SubmitQuestion(u, k, t)
         \/ \E u \in Users : ResumeFailedJob(u) \/ ResumeCutShort(u)
  PROVE  AddsJob
<1>1. ASSUME NEW u \in Users, NEW k \in Keys \cup {NoKey}, NEW t \in 0..MaxTurn,
             SubmitStoryInput(u, k, t) \/ SubmitCutShort(u, k, t)
      PROVE  AddsJob
    BY <1>1, InputIsAdded
       DEF SubmitStoryInput, SubmitCutShort, LeaveOrphan, ActivateJob
<1>2. ASSUME NEW u \in Users, ResumeFailedJob(u) \/ ResumeCutShort(u)
      PROVE  AddsJob
    BY <1>2, ResumedIsAdded
       DEF ResumeFailedJob, ResumeCutShort, LeaveOrphan, ActivateJob
<1>3. ASSUME NEW u \in Users, NEW k \in Keys \cup {NoKey}, NEW t \in 0..MaxTurn,
             SubmitQuestion(u, k, t)
      PROVE  AddsJob
  <2> DEFINE job(j) == QueuedJob("question_answer", u, k, t, t, j)
  <2>1. PICK j \in JobIds : /\ jobs[j].status = "absent"
                            /\ jobs' = [jobs EXCEPT ![j] = job(j)]
      BY <1>3 DEF SubmitQuestion
  <2>2. /\ job(j) \in GMJob /\ job(j).type = "question_answer"
        /\ job(j).status = "queued" /\ job(j).key = k /\ job(j).turn = t
      BY RoomAssumption DEF QueuedJob, GMJob, JobStatuses
  <2>3. ~KeyUsed("question_answer", k)
      BY <1>3 DEF SubmitQuestion
  <2> HIDE DEF job
  <2> QED BY <2>1, <2>2, <2>3 DEF AddsJob, NewJob
<1> QED BY <1>1, <1>2, <1>3

LEMMA StepOfJobs ==
  ASSUME TypeOK, JobsInv, [Next]_vars
  PROVE  jobs' = jobs \/ AddsJob \/ SetsStatus
<1>1. ASSUME NEW w \in Workers,
             \/ MarkJobStarted(w) \/ MarkCutShort(w)
             \/ ApplyGMOutput(w) \/ ApplyCutShort(w)
             \/ ApplyQuestionOutput(w) \/ QuestionCutShort(w)
             \/ FailGMJob(w) \/ FailCutShort(w)
      PROVE  jobs' = jobs \/ SetsStatus
    BY <1>1 DEF MarkJobStarted, MarkCutShort, MayMark, ApplyGMOutput, ApplyCutShort,
                MayApply, ApplyQuestionOutput, QuestionCutShort, FailGMJob,
                FailCutShort, SetsStatus
<1>2. ASSUME \/ \E u \in Users :
                  CancelFailedJob(u) \/ ClaimDriver(u) \/ ReleaseDriver(u)
             \/ AdminRequest
             \/ \E t \in 1..MaxTurn : RollbackCutShort(t)
             \/ \E w \in Workers :
                  \/ PickJob(w) \/ MarkRefused(w) \/ GenerationFails(w)
                  \/ ApplyRefused(w) \/ FailureLost(w) \/ Crash(w)
             \/ HoldLock \/ ReleaseLock \/ StaleLockRemoved \/ UNCHANGED vars
      PROVE  jobs' = jobs
    BY <1>2 DEF CancelFailedJob, ClaimDriver, ReleaseDriver, AdminRequest,
                ChangeLifecycleStatus, AdminUpdateStory, EditCurrentTurn,
                RollbackStoryToTurn, RollbackCutShort, PickJob, MarkRefused,
                GenerationFails, ApplyRefused, FailureLost, Crash, HoldLock,
                ReleaseLock, StaleLockRemoved, vars
<1> QED BY <1>1, <1>2, RequestAddsJob
        DEF Next, UserRequest, WorkerStep, HandlerCutShort

\* So nothing but its status changes in a job file that is there.
LEMMA OnlyStatusesChange ==
  ASSUME TypeOK, JobsInv, [Next]_vars, NEW i \in JobIds, Known(i)
  PROVE  /\ jobs'[i].status # "absent"
         /\ jobs'[i].type = jobs[i].type
         /\ jobs'[i].key = jobs[i].key
         /\ jobs'[i].turn = jobs[i].turn
         /\ jobs'[i].origin = jobs[i].origin
<1>1. CASE jobs' = jobs
    BY <1>1 DEF Known
<1>2. CASE AddsJob
    BY <1>2 DEF AddsJob, NewJob, Known, TypeOK
<1>3. CASE SetsStatus
  <2>1. PICK w \in Workers, st \in {"running", "completed", "failed"} :
          pc[w] # "idle" /\ jobs' = JobsWith(hand[w], st)
      BY <1>3 DEF SetsStatus
  <2>2. hand[w] \in JobIds
      BY <2>1 DEF TypeOK
  <2> QED BY <2>1, <2>2, StatusSet DEF Known
<1> QED BY <1>1, <1>2, <1>3, StepOfJobs

LEMMA ActiveOriginKept ==
  ASSUME TypeOK, RoomInv, [Next]_vars, manifest.activeJob # NoJob
  PROVE  jobs'[manifest.activeJob].origin = jobs[manifest.activeJob].origin
<1>1. manifest.activeJob \in JobIds /\ Known(manifest.activeJob)
    BY ActiveIsKnown DEF RoomInv
<1> QED BY <1>1, OnlyStatusesChange DEF RoomInv

----------------------------------------------------------------------------
(* Idempotency keys *)

LEMMA StepOneJobPerKey ==
  TypeOK /\ JobsInv /\ OneJobPerKey /\ [Next]_vars => OneJobPerKey'
<1> SUFFICES ASSUME TypeOK, JobsInv, OneJobPerKey, [Next]_vars
             PROVE  OneJobPerKey'
    OBVIOUS
<1>1. CASE jobs' = jobs
    BY <1>1 DEF OneJobPerKey
<1>2. CASE AddsJob
    BY <1>2 DEF AddsJob, NewJob, TypeOK, OneJobPerKey, KeyUsed
<1>3. CASE SetsStatus
  <2>1. PICK w \in Workers, st \in {"running", "completed", "failed"} :
          pc[w] # "idle" /\ jobs' = JobsWith(hand[w], st)
      BY <1>3 DEF SetsStatus
  <2>2. hand[w] \in JobIds /\ Known(hand[w])
      BY <2>1 DEF TypeOK, JobsInv, HandKnown
  <2>3. \A i \in JobIds : /\ jobs'[i].status # "absent" => jobs[i].status # "absent"
                          /\ jobs'[i].type = jobs[i].type
                          /\ jobs'[i].key = jobs[i].key
      BY <2>1, <2>2, StatusSet DEF Known
  <2> QED BY <2>3 DEF OneJobPerKey
<1> QED BY <1>1, <1>2, <1>3, StepOfJobs

\* A repeated request never queues a second job, not even after resumes of
\* the first, which carry no key (findJobByIdempotencyKey).
THEOREM KeysUnique == Spec => []OneJobPerKey
<1>1. Init => OneJobPerKey
  <2>1. ASSUME Init PROVE \A i \in JobIds : jobs[i].key = NoKey
      BY <2>1 DEF Init, StoryCreatedWithPrologue, StoryImported, QueuedJob, Absent
  <2> QED BY <2>1 DEF OneJobPerKey
<1>2. RoomInv => JobsInv
    BY DEF RoomInv
<1>3. TypeOK /\ JobsInv /\ OneJobPerKey /\ [Next]_vars => OneJobPerKey'
    BY StepOneJobPerKey
<1> QED BY <1>1, <1>2, <1>3, RoomInvariant, PTL DEF Spec

----------------------------------------------------------------------------
(* StoryRoom implements StoryProgress: Commit is ApplyGMOutput, Slip is    *)
(* ApplyCutShort while the manifest stays, Cut is RollbackStoryToTurn or   *)
(* RollbackCutShort, Ask, Retry and GiveUp are the requests of that        *)
(* meaning, Fail is the first FailGMJob of the active job, Spare is a      *)
(* fault that leaves what a reader sees alone, as every other step does.   *)

LEMMA StepJobTurnsBounded ==
  TypeOK /\ JobsInv /\ JobTurnsBounded /\ [Next]_vars => JobTurnsBounded'
<1> SUFFICES ASSUME TypeOK, JobsInv, JobTurnsBounded, [Next]_vars
             PROVE  JobTurnsBounded'
    OBVIOUS
<1>1. CASE jobs' = jobs
    BY <1>1 DEF JobTurnsBounded, Known, Exclusive
<1>2. CASE AddsJob
    BY <1>2 DEF AddsJob, NewJob, JobTurnsBounded, Known, Exclusive, TypeOK
<1>3. CASE SetsStatus
  <2>1. PICK w \in Workers, st \in {"running", "completed", "failed"} :
          pc[w] # "idle" /\ jobs' = JobsWith(hand[w], st)
      BY <1>3 DEF SetsStatus
  <2>2. hand[w] \in JobIds /\ Known(hand[w])
      BY <2>1 DEF TypeOK, JobsInv, HandKnown
  <2> QED BY <2>1, <2>2, StatusSet DEF JobTurnsBounded, Known, Exclusive
<1> QED BY <1>1, <1>2, <1>3, StepOfJobs

----------------------------------------------------------------------------
(* What a reader sees *)

SeenTurn == [id: Nat, origin: JobIds \cup {NoJob}]

Seen(t) == [id |-> t.id, origin |-> t.origin]

LogSeen ==
  /\ StoryLog \in Seq(SeenTurn)
  /\ Len(StoryLog) = Len(turns)
  /\ \A i \in 1..Len(turns) : StoryLog[i] = Seen(turns[i])

\* The log is the sequence of the turns, without their parents.
LEMMA TurnsSeen == TypeOK => LogSeen
<1> SUFFICES ASSUME TypeOK PROVE LogSeen
    OBVIOUS
<1>1. Len(turns) \in Nat
    BY DEF TypeOK
<1>2. \A i \in 1..Len(turns) :
        StoryLog[i] = Seen(turns[i])
    BY DEF StoryLog, Seen
<1>3. \A i \in 1..Len(turns) : StoryLog[i] \in SeenTurn
  <2> SUFFICES ASSUME NEW i \in 1..Len(turns) PROVE StoryLog[i] \in SeenTurn
      OBVIOUS
  <2>1. turns[i] \in Turn
      BY ElementOfSeq DEF TypeOK
  <2>2. Seen(turns[i]) \in SeenTurn
      BY <2>1 DEF Seen, SeenTurn, Turn
  <2> QED BY <1>2, <2>2
<1>4. DOMAIN StoryLog = 1..Len(turns)
    BY DEF StoryLog
<1>5. StoryLog \in [1..Len(turns) -> SeenTurn]
    BY <1>3 DEF StoryLog
<1>6. StoryLog \in Seq(SeenTurn)
    BY <1>1, <1>5, SeqDef
<1>7. Len(StoryLog) = Len(turns)
    BY <1>1, <1>4, <1>6, LenProperties
<1> QED BY <1>2, <1>6, <1>7 DEF LogSeen

LEMMA TurnsSeenNext == TypeOK' => LogSeen'
BY TurnsSeen, PTL

LEMMA LogIsSeen ==
  ASSUME TypeOK
  PROVE  /\ StoryLog \in Seq(SeenTurn)
         /\ Len(StoryLog) = Len(turns)
         /\ \A i \in 1..Len(turns) : StoryLog[i] = Seen(turns[i])
BY TurnsSeen DEF LogSeen

LEMMA LogIsSeenNext ==
  ASSUME TypeOK'
  PROVE  /\ StoryLog' \in Seq(SeenTurn)
         /\ Len(StoryLog') = Len(turns')
         /\ \A i \in 1..Len(turns') : StoryLog'[i] = Seen(turns'[i])
BY TurnsSeenNext DEF LogSeen, Seen

LEMMA LastSeen ==
  ASSUME TypeOK
  PROVE  Progress!LastId = LastTurnId
<1>1. CASE turns = <<>>
  <2>1. StoryLog = <<>>
      BY <1>1, LogIsSeen, EmptySeq
  <2> QED BY <1>1, <2>1 DEF Progress!LastId, LastTurnId
<1>2. CASE turns # <<>>
  <2>1. StoryLog # <<>> /\ Len(turns) \in 1..Len(turns)
      BY <1>2, LogIsSeen, EmptySeq, LastTurn
  <2>2. Len(StoryLog) = Len(turns)
      BY LogIsSeen
  <2>3. StoryLog[Len(turns)] = Seen(turns[Len(turns)])
      BY <2>1, LogIsSeen
  <2>4. Seen(turns[Len(turns)]).id = turns[Len(turns)].id
      BY DEF Seen
  <2> QED BY <1>2, <2>1, <2>2, <2>3, <2>4 DEF Progress!LastId, LastTurnId
<1> QED BY <1>1, <1>2

\* What a reader sees of the phase.
LEMMA PendingSeen ==
  /\ manifest.phase = "waiting_for_choice" => StoryPending = "none"
  /\ manifest.phase = "gm_generating" => StoryPending = "working"
  /\ manifest.phase = "failed_waiting_retry" => StoryPending = "failed"
BY DEF StoryPending

\* What the slips count: the faults to come.
LEMMA FaultsLeft ==
  ASSUME TypeOK, Fault \/ faults' = faults
  PROVE  /\ MaxFaults - faults' \in 0..(MaxFaults - faults)
         /\ Fault => /\ MaxFaults - faults > 0
                     /\ MaxFaults - faults' \in 0..((MaxFaults - faults) - 1)
BY RoomAssumption DEF TypeOK, Fault

\* Steps a reader does not see, but perhaps that something went wrong.
LEMMA Unseen ==
  ASSUME TypeOK, RoomInv, [Next]_vars,
         turns' = turns,
         manifest'.phase = manifest.phase,
         manifest'.activeJob = manifest.activeJob,
         Fault \/ faults' = faults
  PROVE  Progress!Next \/ UNCHANGED Progress!vars
<1>1. UNCHANGED <<StoryLog, StoryPending, StoryInput>>
    BY ActiveOriginKept DEF StoryLog, StoryPending, StoryInput
<1>2. CASE Fault
    BY <1>1, <1>2, FaultsLeft DEF Progress!Spare, Progress!Next
<1>3. CASE faults' = faults
    BY <1>1, <1>3 DEF Progress!vars
<1> QED BY <1>2, <1>3

LEMMA InitSeen == Init => Progress!Init
<1> SUFFICES ASSUME Init PROVE Progress!Init
    OBVIOUS
<1>1. TypeOK
    BY InitTypeOK
<1>2. MaxFaults - faults = MaxFaults
    BY RoomAssumption DEF Init
<1>3. ASSUME NEW u \in Users, NEW j \in JobIds, StoryCreatedWithPrologue(u, j)
      PROVE  Progress!Init
  <2>1. turns = <<>> /\ manifest.phase = "gm_generating" /\ manifest.activeJob = j
      BY <1>3 DEF StoryCreatedWithPrologue
  <2>2. StoryLog = <<>>
      BY <1>1, <2>1, LogIsSeen, EmptySeq
  <2>3. StoryInput \in JobIds
      BY <1>1, <2>1, RoomAssumption DEF StoryInput, TypeOK, GMJob
  <2> QED BY <1>2, <2>1, <2>2, <2>3, PendingSeen DEF Progress!Init
<1>4. ASSUME NEW u \in Users, NEW n \in ImportSizes, StoryImported(u, n)
      PROVE  Progress!Init
  <2>1. /\ manifest.phase = "waiting_for_choice"
        /\ manifest.activeJob = NoJob
      BY <1>4 DEF StoryImported
  <2>2. n \in 1..MaxTurn
      BY RoomAssumption
  <2>3. /\ Len(turns) = n
        /\ \A i \in 1..n : turns[i].id = i /\ turns[i].origin = NoJob
      BY <1>4, ImportedTurns
  <2>4. StoryLog = [i \in 1..n |-> [id |-> i, origin |-> NoJob]]
      BY <2>3 DEF StoryLog
  <2>5. StoryInput = NoJob
      BY <2>1 DEF StoryInput
  <2> QED BY <1>2, <2>1, <2>2, <2>4, <2>5, PendingSeen DEF Progress!Init
<1> QED BY <1>3, <1>4 DEF Init

\* An input is asked of the story.
LEMMA SubmitIsAsk ==
  ASSUME TypeOK, RoomInv,
         NEW u \in Users, NEW k \in Keys \cup {NoKey}, NEW t \in 0..MaxTurn,
         SubmitStoryInput(u, k, t)
  PROVE  Progress!Ask
<1>1. PICK j \in JobIds : /\ jobs[j].status = "absent"
                          /\ ActivateJob(j, InputJob(u, k, t, j))
    BY DEF SubmitStoryInput
<1>2. /\ turns' = turns
      /\ faults' = faults
      /\ manifest.phase = "waiting_for_choice"
      /\ manifest'.phase = "gm_generating"
      /\ manifest'.activeJob = j
      /\ jobs'[j].origin = j
    BY <1>1, InputJobIsJob
       DEF SubmitStoryInput, MaySubmit, AwaitsInput, ActivateJob, TypeOK, Manifest,
           envVars, faultVars
<1>3. StoryInput' = j
    BY <1>1, <1>2, RoomAssumption DEF StoryInput
<1>4. ~Progress!Answered(j)
  <2>1. \A i \in 1..Len(turns) : turns[i].origin # j
      BY <1>1, RoomAssumption DEF RoomInv, OriginsInv, OriginsKnown, Known
  <2>2. Len(StoryLog) = Len(turns)
      BY LogIsSeen
  <2>3. ASSUME NEW i \in 1..Len(turns) PROVE StoryLog[i].origin = turns[i].origin
    <3>1. StoryLog[i] = Seen(turns[i])
        BY LogIsSeen
    <3> QED BY <3>1 DEF Seen
  <2> QED BY <2>1, <2>2, <2>3 DEF Progress!Answered
<1>5. StoryPending = "none"
    BY <1>2, PendingSeen
<1>6. StoryPending' = "working" /\ StoryLog' = StoryLog
    BY <1>2 DEF StoryPending, StoryLog
<1> QED BY <1>2, <1>3, <1>4, <1>5, <1>6 DEF Progress!Ask

LEMMA ResumeIsRetry ==
  ASSUME TypeOK, RoomInv, NEW u \in Users, ResumeFailedJob(u)
  PROVE  Progress!Retry
<1>1. PICK j \in JobIds : ActivateJob(j, ResumedJob)
    BY DEF ResumeFailedJob
<1>2. manifest.activeJob # NoJob /\ manifest.phase = "failed_waiting_retry"
    BY DEF ResumeFailedJob, MayResume, MayRecover
<1>3. ResumedJob.origin = jobs[manifest.activeJob].origin
    BY ResumedJobIsJob DEF ResumeFailedJob
<1>4. /\ turns' = turns
      /\ faults' = faults
      /\ manifest'.phase = "gm_generating"
      /\ manifest'.activeJob = j
      /\ jobs'[j] = ResumedJob
    BY <1>1 DEF ResumeFailedJob, ActivateJob, TypeOK, Manifest, envVars, faultVars
<1>5. StoryInput' = StoryInput
    BY <1>2, <1>3, <1>4, RoomAssumption DEF StoryInput
<1>6. StoryPending = "failed"
    BY <1>2, PendingSeen
<1>7. StoryPending' = "working" /\ StoryLog' = StoryLog
    BY <1>4 DEF StoryPending, StoryLog
<1> QED BY <1>4, <1>5, <1>6, <1>7 DEF Progress!Retry

LEMMA CancelIsGiveUp ==
  ASSUME TypeOK, NEW u \in Users, CancelFailedJob(u)
  PROVE  Progress!GiveUp
<1>1. /\ turns' = turns
      /\ faults' = faults
      /\ manifest.phase = "failed_waiting_retry"
      /\ manifest'.phase = "waiting_for_choice"
      /\ manifest'.activeJob = NoJob
    BY DEF CancelFailedJob, MayRecover, TypeOK, Manifest, envVars, faultVars
<1>2. StoryPending = "failed"
    BY <1>1, PendingSeen
<1>3. StoryPending' = "none" /\ StoryInput' = NoJob /\ StoryLog' = StoryLog
    BY <1>1 DEF StoryPending, StoryInput, StoryLog
<1> QED BY <1>1, <1>2, <1>3 DEF Progress!GiveUp

\* The target of a rollback is where the log is cut, in both its ways.
LEMMA RollbackIsCut ==
  ASSUME TypeOK, TypeOK', RoomInv,
         NEW t \in 1..MaxTurn, RollbackStoryToTurn(t) \/ RollbackCutShort(t)
  PROVE  Progress!Cut
<1>1. PICK i \in 1..Len(turns) : turns' = SubSeq(turns, 1, i)
    BY DEF RollbackStoryToTurn, RollbackCutShort
<1>2. /\ jobs' = jobs
      /\ manifest.phase # "gm_generating"
      /\ manifest'.phase = manifest.phase
      /\ manifest'.activeJob = manifest.activeJob
      /\ Fault \/ faults' = faults
    BY DEF RollbackStoryToTurn, RollbackCutShort, RolledBackManifest,
           HasBlockingGMJob, TypeOK, Manifest, faultVars
<1>3. /\ Len(turns) \in Nat
      /\ i \in Nat
      /\ \A k \in 1..i : turns[k] \in Turn
    BY ElementOfSeq DEF TypeOK
<1>4. /\ Len(turns') = i
      /\ \A k \in 1..i : turns'[k] = turns[k]
    BY <1>1, <1>3, SubSeqProperties
<1>5. /\ StoryLog' \in Seq(SeenTurn)
      /\ Len(StoryLog') = i
      /\ \A k \in 1..i : StoryLog'[k] = Seen(turns[k])
  <2>1. /\ StoryLog' \in Seq(SeenTurn)
        /\ Len(StoryLog') = Len(turns')
        /\ \A k \in 1..Len(turns') : StoryLog'[k] = Seen(turns'[k])
      BY LogIsSeenNext
  <2> QED BY <1>4, <2>1
<1>6. /\ SubSeq(StoryLog, 1, i) \in Seq(SeenTurn)
      /\ Len(SubSeq(StoryLog, 1, i)) = i
      /\ \A k \in 1..i : SubSeq(StoryLog, 1, i)[k] = Seen(turns[k])
  <2>1. /\ StoryLog \in Seq(SeenTurn)
        /\ Len(StoryLog) = Len(turns)
        /\ \A k \in 1..Len(turns) : StoryLog[k] = Seen(turns[k])
      BY LogIsSeen
  <2>2. \A k \in 1..i : k \in 1..Len(turns)
      BY <1>3
  <2>3. \A k \in 1..i : StoryLog[k] = Seen(turns[k]) /\ StoryLog[k] \in SeenTurn
      BY <2>1, <2>2, ElementOfSeq
  <2>4. 1 \in Int /\ i \in Int /\ 1 <= i /\ i - 1 + 1 = i
      BY <1>3
  <2>5. /\ SubSeq(StoryLog, 1, i) \in Seq(SeenTurn)
        /\ Len(SubSeq(StoryLog, 1, i)) = i
        /\ \A k \in 1..i : SubSeq(StoryLog, 1, i)[k] = StoryLog[1 + k - 1]
      BY <2>3, <2>4, SubSeqProperties
  <2>6. \A k \in 1..i : 1 + k - 1 = k
      BY <2>4
  <2> QED BY <2>3, <2>5, <2>6
<1>7. StoryLog' = SubSeq(StoryLog, 1, i)
    BY <1>5, <1>6, SeqEqual
<1>8. i \in 1..Len(StoryLog)
    BY LogIsSeen
<1>9. StoryPending # "working"
    BY <1>2 DEF StoryPending, TypeOK, Manifest, Phases
<1>10. UNCHANGED <<StoryPending, StoryInput>>
    BY <1>2 DEF StoryPending, StoryInput
<1> QED BY <1>2, <1>7, <1>8, <1>9, <1>10, FaultsLeft DEF Progress!Cut

\* An appended turn answers the pending input, under a larger id, or it
\* repeats the turn that has slipped.
LEMMA AppendIsAnswer ==
  ASSUME TypeOK, TypeOK', RoomInv, JobTurnsBounded,
         NEW w \in Workers, MayApply(w), AppendTurn(hand[w])
  PROVE  Progress!Answer
<1> DEFINE j == hand[w]
           turn == TurnOf(jobs[j])
           n == Len(turns)
<1>1. /\ j \in JobIds
      /\ manifest.activeJob = j
      /\ manifest.phase = "gm_generating"
      /\ turns' = Append(turns, turn)
    BY DEF MayApply, AppendTurn, StillActive, TypeOK
<1>2. /\ turn \in Turn
      /\ turn.id = jobs[j].turn /\ turn.origin = jobs[j].origin
    BY <1>1 DEF TurnOf, Turn, TypeOK, GMJob
<1>3. j # NoJob
    BY <1>1, RoomAssumption
<1>4. Seen(turn) = [id |-> jobs[j].turn, origin |-> StoryInput]
    BY <1>1, <1>2, <1>3 DEF Seen, StoryInput
<1>5. jobs[j].turn \in 1..MaxTurn
    BY <1>1, <1>3, ActiveIsKnown, RoomAssumption
       DEF JobTurnsBounded, RoomInv, MayApply
<1>6. jobs[j].turn > Progress!LastId \/ Progress!Slipped(jobs[j].turn)
  <2>1. CASE jobs[j].turn > LastTurnId
      BY <2>1, LastSeen
  <2>2. CASE turns # <<>> /\ LeftByActive(turns[n])
    <3>1. turns[n].id = jobs[j].turn /\ turns[n].origin = jobs[j].origin
        BY <1>1, <2>2 DEF LeftByActive, SameTurn, TurnOf
    <3>2. n \in 1..n
        BY <2>2, LastTurn, EmptySeq DEF TypeOK
    <3>3. StoryLog # <<>> /\ Len(StoryLog) = n /\ StoryLog[n] = Seen(turns[n])
        BY <3>2, LogIsSeen, EmptySeq
    <3>4. StoryLog[n] = [id |-> jobs[j].turn, origin |-> StoryInput]
        BY <1>1, <1>3, <3>1, <3>3 DEF Seen, StoryInput
    <3> QED BY <3>3, <3>4 DEF Progress!Slipped
  <2>3. PendingAhead
      BY DEF RoomInv, TurnsInv
  <2> QED BY <1>1, <1>3, <2>1, <2>2, <2>3 DEF PendingAhead
<1> HIDE DEF turn, n, j
<1>7. /\ n \in Nat
      /\ Len(turns') = n + 1
      /\ \A i \in 1..n : turns'[i] = turns[i]
      /\ turns'[n + 1] = turn
    BY <1>1, <1>2, AppendProperties DEF TypeOK, n
<1>8. /\ StoryLog' \in Seq(SeenTurn)
      /\ Len(StoryLog') = n + 1
      /\ \A i \in 1..n : StoryLog'[i] = Seen(turns[i])
      /\ StoryLog'[n + 1] = Seen(turn)
  <2>1. \A i \in 1..(n + 1) : StoryLog'[i] = Seen(turns'[i])
      BY <1>7, LogIsSeenNext
  <2> QED BY <1>7, <2>1, LogIsSeenNext
<1>9. Seen(turn) \in SeenTurn
    BY <1>2 DEF Seen, SeenTurn, Turn
<1>10. /\ Append(StoryLog, Seen(turn)) \in Seq(SeenTurn)
       /\ Len(Append(StoryLog, Seen(turn))) = n + 1
       /\ \A i \in 1..n : Append(StoryLog, Seen(turn))[i] = Seen(turns[i])
       /\ Append(StoryLog, Seen(turn))[n + 1] = Seen(turn)
    BY <1>9, LogIsSeen, AppendProperties DEF n
<1>11. StoryLog' = Append(StoryLog, Seen(turn))
  <2>1. \A i \in 1..(n + 1) : StoryLog'[i] = Append(StoryLog, Seen(turn))[i]
    <3>1. \A i \in 1..(n + 1) : i \in 1..n \/ i = n + 1
        BY <1>7
    <3> QED BY <1>8, <1>10, <3>1
  <2> QED BY <1>8, <1>10, <2>1, SeqEqual
<1>12. StoryPending = "working"
    BY <1>1, PendingSeen
<1> QED BY <1>4, <1>5, <1>6, <1>11, <1>12 DEF Progress!Answer

\* A whole commit is a Commit; one cut short is that too once the manifest is
\* written, and before that a Slip.
LEMMA ApplyIsCommit ==
  ASSUME TypeOK, TypeOK', RoomInv, JobTurnsBounded, [Next]_vars,
         NEW w \in Workers, ApplyGMOutput(w) \/ ApplyCutShort(w)
  PROVE  Progress!Commit \/ Progress!Slip
<1>1. MayApply(w) /\ AppendTurn(hand[w])
    BY DEF ApplyGMOutput, ApplyCutShort
<1>2. Progress!Answer
    BY <1>1, AppendIsAnswer
<1>3. Fault \/ faults' = faults
    BY DEF ApplyGMOutput, ApplyCutShort, faultVars
<1>4. CASE manifest' = CommittedManifest(hand[w])
  <2>1. manifest'.phase = "waiting_for_choice" /\ manifest'.activeJob = NoJob
      BY <1>4 DEF CommittedManifest, TypeOK, Manifest
  <2>2. StoryPending' = "none" /\ StoryInput' = NoJob
      BY <2>1 DEF StoryPending, StoryInput
  <2> QED BY <1>2, <1>3, <2>2, FaultsLeft DEF Progress!Commit
<1>5. CASE Fault /\ UNCHANGED manifest
  <2>1. UNCHANGED <<StoryPending, StoryInput>>
      BY <1>5, ActiveOriginKept DEF StoryPending, StoryInput
  <2> QED BY <1>2, <1>5, <2>1, FaultsLeft DEF Progress!Slip
<1> QED BY <1>4, <1>5 DEF ApplyGMOutput, ApplyCutShort

\* A recorded failure of the active job is a failure, or the same failure
\* again; any other failure is not seen.
LEMMA FailIsFail ==
  ASSUME TypeOK, RoomInv, [Next]_vars,
         NEW w \in Workers, FailGMJob(w) \/ FailCutShort(w)
  PROVE  Progress!Next \/ UNCHANGED Progress!vars
<1> DEFINE j == hand[w]
<1>1. /\ j \in JobIds
      /\ manifest' \in {manifest, FailedManifest(j)}
      /\ turns' = turns
      /\ Fault \/ faults' = faults
    BY DEF FailGMJob, FailCutShort, TypeOK, envVars, faultVars
<1>2. manifest'.activeJob = manifest.activeJob
    BY <1>1 DEF FailedManifest, TypeOK, Manifest
<1>3. CASE manifest'.phase = manifest.phase
    BY <1>1, <1>2, <1>3, Unseen
<1>4. CASE manifest'.phase # manifest.phase
  <2>1. /\ manifest.activeJob = j
        /\ manifest'.phase = "failed_waiting_retry"
      BY <1>1, <1>4 DEF FailedManifest, TypeOK, Manifest
  <2>2. manifest.phase = "gm_generating"
      BY <1>1, <1>4, <2>1, RoomAssumption
         DEF RoomInv, JobsInv, PhaseMatchesJob, TypeOK, Manifest, Phases
  <2>3. StoryPending = "working"
      BY <2>2, PendingSeen
  <2>4. StoryPending' = "failed" /\ StoryLog' = StoryLog
      BY <1>1, <2>1 DEF StoryPending, StoryLog
  <2>5. StoryInput' = StoryInput
      BY <1>2, ActiveOriginKept DEF StoryInput
  <2> QED BY <1>1, <2>3, <2>4, <2>5, FaultsLeft DEF Progress!Fail, Progress!Next
<1> QED BY <1>3, <1>4

LEMMA StepSeen ==
  TypeOK /\ TypeOK' /\ RoomInv /\ JobTurnsBounded /\ [Next]_vars
    => [Progress!Next]_(Progress!vars)
<1> SUFFICES ASSUME TypeOK, TypeOK', RoomInv, JobTurnsBounded, [Next]_vars
             PROVE  Progress!Next \/ UNCHANGED Progress!vars
    OBVIOUS
<1>1. ASSUME NEW u \in Users, NEW k \in Keys \cup {NoKey}, NEW t \in 0..MaxTurn,
             SubmitStoryInput(u, k, t)
      PROVE  Progress!Next
    BY <1>1, SubmitIsAsk DEF Progress!Next
<1>2. ASSUME NEW u \in Users, ResumeFailedJob(u) \/ CancelFailedJob(u)
      PROVE  Progress!Next
    BY <1>2, ResumeIsRetry, CancelIsGiveUp DEF Progress!Next
<1>3. ASSUME NEW t \in 1..MaxTurn, RollbackStoryToTurn(t) \/ RollbackCutShort(t)
      PROVE  Progress!Next
    BY <1>3, RollbackIsCut DEF Progress!Next
<1>4. ASSUME NEW w \in Workers, ApplyGMOutput(w) \/ ApplyCutShort(w)
      PROVE  Progress!Next
    BY <1>4, ApplyIsCommit DEF Progress!Next
<1>5. ASSUME NEW w \in Workers, FailGMJob(w) \/ FailCutShort(w)
      PROVE  Progress!Next \/ UNCHANGED Progress!vars
    BY <1>5, FailIsFail
<1>6. ASSUME turns' = turns, manifest' = manifest, Fault \/ faults' = faults
      PROVE  Progress!Next \/ UNCHANGED Progress!vars
    BY <1>6, Unseen
<1>7. ASSUME \/ \E w \in Workers :
                  \/ PickJob(w) \/ MarkJobStarted(w) \/ MarkRefused(w)
                  \/ MarkCutShort(w) \/ GenerationFails(w) \/ ApplyRefused(w)
                  \/ ApplyQuestionOutput(w) \/ QuestionCutShort(w)
                  \/ FailureLost(w) \/ Crash(w)
             \/ \E u \in Users, k \in Keys \cup {NoKey}, t \in 0..MaxTurn :
                  SubmitQuestion(u, k, t) \/ SubmitCutShort(u, k, t)
             \/ \E u \in Users : ResumeCutShort(u)
             \/ HoldLock \/ ReleaseLock \/ StaleLockRemoved \/ UNCHANGED vars
      PROVE  Progress!Next \/ UNCHANGED Progress!vars
    BY <1>6, <1>7
       DEF PickJob, MarkJobStarted, MarkRefused, MarkCutShort, GenerationFails,
           ApplyRefused, ApplyQuestionOutput, QuestionCutShort, FailureLost, Crash,
           SubmitQuestion, SubmitCutShort, ResumeCutShort, LeaveOrphan, HoldLock,
           ReleaseLock, StaleLockRemoved, envVars, faultVars, vars
<1>8. ASSUME \/ \E u \in Users : ClaimDriver(u) \/ ReleaseDriver(u)
             \/ \E s \in SetStatuses : ChangeLifecycleStatus(s)
             \/ \E s \in {manifest.status} \cup (SetStatuses \ {"deleted"}),
                   d \in {manifest.driver, NoUser} \cup Users :
                     AdminUpdateStory(s, d)
             \/ EditCurrentTurn
      PROVE  Progress!Next \/ UNCHANGED Progress!vars
  <2>1. /\ turns' = turns /\ faults' = faults
        /\ manifest'.phase = manifest.phase
        /\ manifest'.activeJob = manifest.activeJob
      BY <1>8 DEF ClaimDriver, ReleaseDriver, ChangeLifecycleStatus,
                  AdminUpdateStory, EditCurrentTurn, TypeOK, Manifest,
                  envVars, faultVars
  <2> QED BY <2>1, Unseen
<1> QED
    BY <1>1, <1>2, <1>3, <1>4, <1>5, <1>7, <1>8
       DEF Next, UserRequest, AdminRequest, WorkerStep, HandlerCutShort

\* Whatever requests, workers, failures, crashes and handlers cut short do,
\* the story is told as StoryProgress says.
THEOREM RoomImplementsProgress == Spec => ImplementsStoryProgress
<1>1. Init => Progress!Init
    BY InitSeen
<1>2. TypeOK /\ TypeOK' /\ RoomInv /\ JobTurnsBounded /\ [Next]_vars
        => [Progress!Next]_(Progress!vars)
    BY StepSeen
<1>3. Init => JobTurnsBounded
    BY RoomAssumption DEF Init, JobTurnsBounded, StoryCreatedWithPrologue,
                          StoryImported, QueuedJob, Absent, Known
<1>4. TypeOK /\ JobsInv /\ JobTurnsBounded /\ [Next]_vars => JobTurnsBounded'
    BY StepJobTurnsBounded
<1>5. RoomInv => JobsInv
    BY DEF RoomInv
<1> QED BY <1>1, <1>2, <1>3, <1>4, <1>5, RoomInvariant, PTL
        DEF Spec, ImplementsStoryProgress, Progress!Spec
----------------------------------------------------------------------------
(* With a single worker *)

\* What a worker has in hand is where the worker is.  Only an error reported
\* behind the job file leaves a completed job to be failed.
HandMatchesJob ==
  \A w \in Workers :
    /\ pc[w] = "picked" => jobs[hand[w]].status = "queued"
    /\ pc[w] = "generating" => jobs[hand[w]].status = "running"
    /\ pc[w] = "failing" =>
         \/ jobs[hand[w]].status = "running"
         \/ jobs[hand[w]].status = "completed" /\ hand[w] \in halfDone

\* What JobsMoveForward allows one job in one step.
MovesForward(j) ==
  \/ jobs'[j].status = jobs[j].status
  \/ <<jobs[j].status, jobs'[j].status>> \in
       {<<"absent", "queued">>, <<"queued", "running">>,
        <<"running", "completed">>, <<"running", "failed">>}
  \/ /\ <<jobs[j].status, jobs'[j].status>> = <<"completed", "failed">>
     /\ j \in halfDone

AllForward == HandMatchesJob' /\ \A i \in JobIds : MovesForward(i)

\* The workers stay where they are, or lose what they have in hand.
WorkersStay ==
  /\ \A v \in Workers : pc'[v] # "idle" => pc'[v] = pc[v] /\ hand'[v] = hand[v]
  /\ halfDone \subseteq halfDone'

\* A request brings no job, or a new one, which no worker has in hand.
LEMMA RequestMovesForward ==
  ASSUME TypeOK, HandMatchesJob, WorkersStay,
         \/ jobs' = jobs
         \/ \E j \in JobIds, job \in GMJob :
              /\ jobs[j].status = "absent"
              /\ job.status = "queued"
              /\ jobs' = [jobs EXCEPT ![j] = job]
  PROVE  AllForward
<1>1. CASE jobs' = jobs
    BY <1>1 DEF AllForward, HandMatchesJob, WorkersStay, MovesForward
<1>2. CASE jobs' # jobs
  <2>1. PICK j \in JobIds, job \in GMJob :
          /\ jobs[j].status = "absent"
          /\ job.status = "queued"
          /\ jobs' = [jobs EXCEPT ![j] = job]
      BY <1>2
  <2>2. \A i \in JobIds : jobs'[i] = IF i = j THEN job ELSE jobs[i]
      BY <2>1 DEF TypeOK
  <2>3. \A i \in JobIds : MovesForward(i)
      BY <2>1, <2>2 DEF MovesForward
  <2>4. \A w \in Workers : pc[w] # "idle" => jobs'[hand[w]] = jobs[hand[w]]
      BY <2>1, <2>2 DEF TypeOK, HandMatchesJob
  <2>5. HandMatchesJob'
      BY <2>4 DEF HandMatchesJob, WorkersStay
  <2> QED BY <2>3, <2>5 DEF AllForward
<1> QED BY <1>1, <1>2

\* A worker that is alone finds its job as it has left it.
LEMMA WorkerMovesForward ==
  ASSUME TypeOK, HandMatchesJob, \A v, w \in Workers : v = w,
         NEW w \in Workers,
         \/ WorkerStep(w) \/ Crash(w)
         \/ MarkCutShort(w) \/ ApplyCutShort(w)
         \/ QuestionCutShort(w) \/ FailCutShort(w)
  PROVE  AllForward
<1>1. /\ pc \in [Workers -> {"idle", "picked", "generating", "failing"}]
      /\ hand \in [Workers -> JobIds \cup {NoJob}]
      /\ jobs \in [JobIds -> GMJob]
    BY DEF TypeOK
<1>2. pc[w] # "idle" => hand[w] \in JobIds
    BY DEF TypeOK
<1>3. ASSUME NEW place, Goto(w, place)
      PROVE  pc'[w] = place
    BY <1>1, <1>3 DEF Goto
<1>4. ASSUME \/ pc'[w] = "idle"
             \/ pc'[w] = "picked" /\ jobs'[hand'[w]].status = "queued"
             \/ pc'[w] = "generating" /\ jobs'[hand'[w]].status = "running"
             \/ pc'[w] = "failing" /\ jobs'[hand'[w]].status = "running"
             \/ /\ pc'[w] = "failing" /\ jobs'[hand'[w]].status = "completed"
                /\ hand'[w] \in halfDone'
      PROVE  HandMatchesJob'
  <2> SUFFICES ASSUME NEW v \in Workers
               PROVE  /\ pc'[v] = "picked" => jobs'[hand'[v]].status = "queued"
                      /\ pc'[v] = "generating" => jobs'[hand'[v]].status = "running"
                      /\ pc'[v] = "failing" =>
                           \/ jobs'[hand'[v]].status = "running"
                           \/ /\ jobs'[hand'[v]].status = "completed"
                              /\ hand'[v] \in halfDone'
      BY DEF HandMatchesJob
  <2>1. v = w
      OBVIOUS
  <2> QED BY <1>4, <2>1
<1>5. ASSUME jobs' = jobs
      PROVE  \A i \in JobIds : MovesForward(i)
    BY <1>5 DEF MovesForward
<1>6. ASSUME NEW s, jobs' = JobsWith(hand[w], s), hand[w] \in JobIds,
             \/ <<jobs[hand[w]].status, s>> \in
                  {<<"queued", "running">>, <<"running", "completed">>,
                   <<"running", "failed">>}
             \/ /\ <<jobs[hand[w]].status, s>> = <<"completed", "failed">>
                /\ hand[w] \in halfDone
      PROVE  jobs'[hand[w]].status = s /\ \A i \in JobIds : MovesForward(i)
  <2>1. /\ jobs'[hand[w]].status = s
        /\ \A i \in JobIds : i # hand[w] => jobs'[i] = jobs[i]
      BY <1>6, StatusSet
  <2> QED BY <1>6, <2>1 DEF MovesForward
<1>7. CASE PickJob(w)
  <2>1. PICK j \in JobIds : NextJob(j) /\ hand' = [hand EXCEPT ![w] = j]
      BY <1>7 DEF PickJob
  <2>2. hand'[w] = j /\ jobs' = jobs /\ pc'[w] = "picked"
      BY <1>1, <1>3, <1>7, <2>1 DEF PickJob
  <2>3. jobs[j].status = "queued"
      BY <2>1 DEF NextJob
  <2> QED BY <1>4, <1>5, <2>2, <2>3 DEF AllForward
<1>8. CASE MarkJobStarted(w) \/ MarkCutShort(w)
  <2>1. /\ pc[w] = "picked" /\ hand[w] \in JobIds
        /\ jobs[hand[w]].status = "queued"
      BY <1>2, <1>8 DEF MarkJobStarted, MarkCutShort, MayMark, HandMatchesJob
  <2>2. \/ jobs' = jobs /\ pc'[w] = "idle"
        \/ /\ jobs' = JobsWith(hand[w], "running")
           /\ pc'[w] = "idle" \/ (pc'[w] = "generating" /\ hand' = hand)
      BY <1>3, <1>8 DEF MarkJobStarted, MarkCutShort, Drop
  <2> QED BY <1>4, <1>5, <1>6, <2>1, <2>2 DEF AllForward
<1>9. CASE GenerationFails(w) \/ ApplyRefused(w)
  <2>1. pc[w] = "generating" /\ pc'[w] = "failing" /\ hand' = hand /\ jobs' = jobs
      BY <1>3, <1>9 DEF GenerationFails, ApplyRefused
  <2>2. jobs[hand[w]].status = "running"
      BY <2>1 DEF HandMatchesJob
  <2> QED BY <1>4, <1>5, <2>1, <2>2 DEF AllForward
<1>10. CASE MarkRefused(w) \/ FailureLost(w) \/ Crash(w)
  <2>1. pc'[w] = "idle" /\ jobs' = jobs
      BY <1>3, <1>10 DEF MarkRefused, FailureLost, Crash, Drop
  <2> QED BY <1>4, <1>5, <2>1 DEF AllForward
<1>11. CASE ApplyGMOutput(w) \/ ApplyQuestionOutput(w)
  <2>1. /\ pc[w] = "generating" /\ pc'[w] = "idle"
        /\ jobs' = JobsWith(hand[w], "completed")
      BY <1>3, <1>11 DEF ApplyGMOutput, ApplyQuestionOutput, MayApply, Drop
  <2>2. jobs[hand[w]].status = "running" /\ hand[w] \in JobIds
      BY <1>2, <2>1 DEF HandMatchesJob
  <2> QED BY <1>4, <1>6, <2>1, <2>2 DEF AllForward
<1>12. CASE ApplyCutShort(w) \/ QuestionCutShort(w)
  <2>1. /\ pc[w] = "generating"
        /\ pc'[w] = "idle" \/ (pc'[w] = "failing" /\ hand' = hand)
        /\ jobs' \in {jobs, JobsWith(hand[w], "completed")}
        /\ hand[w] \in halfDone'
      BY <1>3, <1>12 DEF ApplyCutShort, QuestionCutShort, MayApply,
                         GenerationEnds, DiesLocked, Drop
  <2>2. jobs[hand[w]].status = "running" /\ hand[w] \in JobIds
      BY <1>2, <2>1 DEF HandMatchesJob
  <2>3. CASE jobs' = jobs
      BY <1>4, <1>5, <2>1, <2>2, <2>3 DEF AllForward
  <2>4. CASE jobs' = JobsWith(hand[w], "completed")
      BY <1>4, <1>6, <2>1, <2>2, <2>4 DEF AllForward
  <2> QED BY <2>1, <2>3, <2>4
<1>13. CASE FailGMJob(w) \/ FailCutShort(w)
  <2>1. /\ pc[w] = "failing" /\ pc'[w] = "idle"
        /\ jobs' \in {jobs, JobsWith(hand[w], "failed")}
      BY <1>3, <1>13 DEF FailGMJob, FailCutShort, Drop
  <2>2. /\ hand[w] \in JobIds
        /\ \/ jobs[hand[w]].status = "running"
           \/ jobs[hand[w]].status = "completed" /\ hand[w] \in halfDone
      BY <1>2, <2>1 DEF HandMatchesJob
  <2>3. CASE jobs' = jobs
      BY <1>4, <1>5, <2>1, <2>3 DEF AllForward
  <2>4. CASE jobs' = JobsWith(hand[w], "failed")
      BY <1>4, <1>6, <2>1, <2>2, <2>4 DEF AllForward
  <2> QED BY <2>1, <2>3, <2>4
<1> QED BY <1>7, <1>8, <1>9, <1>10, <1>11, <1>12, <1>13 DEF WorkerStep

LEMMA StepMovesForward ==
  ASSUME TypeOK, JobsInv, HandMatchesJob, \A v, w \in Workers : v = w, [Next]_vars
  PROVE  AllForward
<1>1. UNCHANGED workerVars /\ UNCHANGED halfDone => WorkersStay
    BY DEF WorkersStay, workerVars
<1>2. ASSUME RequestEnds, halfDone \subseteq halfDone' PROVE WorkersStay
    BY <1>2 DEF WorkersStay, RequestEnds, DiesLocked, Drop, Goto, workerVars, TypeOK
<1>3. ASSUME \/ UNCHANGED vars \/ HoldLock \/ ReleaseLock \/ StaleLockRemoved
             \/ AdminRequest
             \/ \E t \in 1..MaxTurn : RollbackCutShort(t)
             \/ \E u \in Users : CancelFailedJob(u) \/ ClaimDriver(u) \/ ReleaseDriver(u)
      PROVE  AllForward
  <2>1. jobs' = jobs
      BY <1>3 DEF vars, HoldLock, ReleaseLock, StaleLockRemoved, AdminRequest,
                  ChangeLifecycleStatus, AdminUpdateStory, EditCurrentTurn,
                  RollbackStoryToTurn, RollbackCutShort, CancelFailedJob,
                  ClaimDriver, ReleaseDriver
  <2>2. WorkersStay
      BY <1>1, <1>2, <1>3
         DEF vars, envVars, faultVars, HoldLock, ReleaseLock, StaleLockRemoved,
             AdminRequest, ChangeLifecycleStatus, AdminUpdateStory, EditCurrentTurn,
             RollbackStoryToTurn, RollbackCutShort, CancelFailedJob, ClaimDriver,
             ReleaseDriver
  <2> QED BY <2>1, <2>2, RequestMovesForward
<1>4. ASSUME \/ \E u \in Users, k \in Keys \cup {NoKey}, t \in 0..MaxTurn :
                  \/ SubmitStoryInput(u, k, t) \/ SubmitCutShort(u, k, t)
                  \/ SubmitQuestion(u, k, t)
             \/ \E u \in Users : ResumeFailedJob(u) \/ ResumeCutShort(u)
      PROVE  AllForward
  <2>1. WorkersStay
      BY <1>1, <1>2, <1>4
         DEF SubmitStoryInput, SubmitCutShort, SubmitQuestion, ResumeFailedJob,
             ResumeCutShort, LeaveOrphan, envVars, faultVars
  <2>2. AddsJob
      BY <1>4, RequestAddsJob
  <2> QED BY <2>1, <2>2, RequestMovesForward DEF AddsJob, NewJob
<1>5. ASSUME NEW w \in Workers,
             \/ WorkerStep(w) \/ Crash(w)
             \/ MarkCutShort(w) \/ ApplyCutShort(w)
             \/ QuestionCutShort(w) \/ FailCutShort(w)
      PROVE  AllForward
    BY <1>5, WorkerMovesForward
<1> QED BY <1>3, <1>4, <1>5 DEF Next, UserRequest, HandlerCutShort

\* With one worker, and any number of users, jobs, holds, crashes of it and
\* handlers cut short: a job file moves from queued to running to completed
\* or failed, and back only when an error follows its completion.
THEOREM OneWorkerForward ==
  (\A v, w \in Workers : v = w) => (Spec => JobsMoveForward)
<1> SUFFICES ASSUME \A v, w \in Workers : v = w PROVE Spec => JobsMoveForward
    OBVIOUS
<1>1. Init => HandMatchesJob
    BY DEF Init, HandMatchesJob
<1>2. TypeOK /\ JobsInv /\ HandMatchesJob /\ [Next]_vars => HandMatchesJob'
    BY StepMovesForward DEF AllForward
<1>3. TypeOK /\ JobsInv /\ HandMatchesJob /\ [Next]_vars
        => [\A j \in JobIds : MovesForward(j)]_vars
    BY StepMovesForward DEF AllForward
<1>4. RoomInv => JobsInv
    BY DEF RoomInv
<1>5. Spec => [][\A j \in JobIds : MovesForward(j)]_vars
    BY <1>1, <1>2, <1>3, <1>4, RoomInvariant, PTL DEF Spec
<1> QED BY <1>5 DEF JobsMoveForward, MovesForward
============================================================================
