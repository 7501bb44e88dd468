----------------------------- MODULE StoryRoom -----------------------------
(***************************************************************************)
(* One story of the story room: its manifest, its committed turns, its GM  *)
(* jobs, the per-story lock, the HTTP handlers that change them and the    *)
(* background GM worker (src/internal/harness/story).                      *)
(*                                                                         *)
(* Every handler runs under the story lock and is one action here: the     *)
(* lock is never waited for, a busy lock is an error, and what a handler   *)
(* does between acquireLock and unlock is invisible to every other holder. *)
(* How long a request holds the lock matters to those it turns away: that  *)
(* is HoldLock ... ReleaseLock, which also stands for the rejected         *)
(* requests, that change nothing.                                          *)
(*                                                                         *)
(* A handler that writes two files or more may stop between them: a write  *)
(* returns an error and the handler returns it, or the process dies.  What *)
(* it then leaves is an action ...CutShort next to the action of the whole *)
(* handler.  A write that returns an error may still have been done.       *)
(*                                                                         *)
(* The worker is not one step.  It picks a job from files read without the *)
(* lock, marks it started under the lock, generates for up to ten minutes  *)
(* without the lock, and takes the lock again to apply the answer or to    *)
(* record the failure.  Each of those is an action, and so is each way a   *)
(* busy lock or a changed manifest turns it away.                          *)
(***************************************************************************)
EXTENDS Naturals, Sequences

CONSTANTS
  Users,       \* the accounts that send requests
  Admins,      \* those of them whose role is admin
  Keys,        \* idempotency keys a browser may send
  JobIds,      \* names for GM jobs ("job_" + random)
  Workers,     \* GM workers, one in each server process
  NoUser,      \* an empty active_driver_id
  NoKey,       \* an empty idempotency key
  NoJob,       \* an empty active_job_id
  SetStatuses, \* bound: the statuses that admins set
  ImportSizes, \* bound: how many turns an imported story comes with
  MaxTurn,     \* bound: the largest turn a request asks for
  MaxHolds,    \* bound: how often the lock is held for a while
  MaxFaults    \* bound: how many crashes and handlers cut short

ASSUME RoomAssumption ==
  /\ Admins \subseteq Users
  /\ NoUser \notin Users
  /\ NoKey \notin Keys
  /\ NoJob \notin JobIds
  /\ SetStatuses \subseteq {"active", "paused", "completed", "archived", "deleted"}
  /\ MaxTurn \in Nat \ {0}
  /\ ImportSizes \subseteq 1..MaxTurn
  /\ MaxHolds \in Nat
  /\ MaxFaults \in Nat

VARIABLES
  manifest,    \* manifest.json
  turns,       \* turns.jsonl
  jobs,        \* jobs/<id>.json, "absent" while there is no such file
  lock,        \* lock.json: "free", "held" by a request, "leaked" by a crash
  pc,          \* where each worker is
  hand,        \* the job each worker holds in memory
  holds,       \* counts HoldLock, up to MaxHolds
  faults       \* counts crashes and handlers cut short, up to MaxFaults

\* What the handlers that were cut short have left, for the properties only.
VARIABLES
  halfDone,    \* jobs of handlers that stopped with some of their writes
  cutShort,    \* inputs with a turn whose commit stopped behind the append
  drift        \* turns.jsonl has changed and current_turn did not follow

workerVars == <<pc, hand>>
lockVars == <<lock, holds>>
faultVars == <<faults, halfDone, cutShort>>
envVars == <<lockVars, faultVars, drift>>
vars == <<manifest, turns, jobs, workerVars, envVars>>

----------------------------------------------------------------------------
(* The records in the files *)

Ended == {"completed", "archived", "deleted"}
Statuses == {"active", "paused"} \cup Ended

\* validating_output and applying_turn are named by the readers of the
\* manifest and written by nobody.
Phases == {"waiting_for_choice", "gm_generating", "failed_waiting_retry"}

Manifest == [status: Statuses, phase: Phases, currentTurn: Nat,
             driver: Users \cup {NoUser}, activeJob: JobIds \cup {NoJob}]

\* origin stands for the input (or the setup) of the turn: the first job
\* created for it, NoJob for a turn that came with an import.  A resumed job
\* keeps the input, hence the origin.  The text of a turn is left out.
Turn == [id: Nat, parent: Nat, origin: JobIds \cup {NoJob}]

JobStatuses == {"absent", "queued", "running", "completed", "failed"}
GMJob == [type: {"prologue", "story_turn", "question_answer"},
          status: JobStatuses, actor: Users \cup {NoUser},
          key: Keys \cup {NoKey}, turn: Nat, parent: Nat, origin: JobIds]

Absent(j) == [type |-> "prologue", status |-> "absent", actor |-> NoUser,
              key |-> NoKey, turn |-> 0, parent |-> 0, origin |-> j]

QueuedJob(type, u, k, t, p, j) ==
  [type |-> type, status |-> "queued", actor |-> u, key |-> k,
   turn |-> t, parent |-> p, origin |-> j]

\* ExclusiveProgression: every job type but a question.
Exclusive(j) == jobs[j].type # "question_answer"

LastTurnId == IF turns = <<>> THEN 0 ELSE turns[Len(turns)].id

\* Mutant: only jobs in flight are searched for the key.
KeyInFlight(type, k) ==
  /\ k # NoKey
  /\ \E j \in JobIds : /\ jobs[j].status \in {"queued", "running"}
                       /\ jobs[j].type = type
                       /\ jobs[j].key = k

\* findJobByIdempotencyKey; an empty key never matches.
KeyUsed(type, k) ==
  /\ k # NoKey
  /\ \E j \in JobIds : /\ jobs[j].status # "absent"
                       /\ jobs[j].type = type
                       /\ jobs[j].key = k

\* Mutant: a job that is running does not block.
HasQueuedGMJob ==
  /\ manifest.activeJob # NoJob
  /\ jobs[manifest.activeJob].status = "queued"

\* storyHasBlockingGMJob
HasBlockingGMJob ==
  \/ manifest.phase = "gm_generating"
  \/ /\ manifest.activeJob # NoJob
     /\ jobs[manifest.activeJob].status \in {"queued", "running"}

\* acquireLock succeeds, for a caller that releases it in the same step.
LockFree == lock = "free"

----------------------------------------------------------------------------
(* A story begins with a queued prologue, or imported with its turns       *)

StoryCreatedWithPrologue(u, j) ==
  /\ manifest = [status |-> "active", phase |-> "gm_generating",
                 currentTurn |-> 0, driver |-> u, activeJob |-> j]
  /\ turns = <<>>
  /\ jobs = [i \in JobIds |->
               IF i = j THEN QueuedJob("prologue", u, NoKey, 1, 0, j)
                        ELSE Absent(i)]

\* The n turns of an imported story come with the draft, without parents.
StoryImported(u, n) ==
  /\ manifest = [status |-> "active", phase |-> "waiting_for_choice",
                 currentTurn |-> n, driver |-> u, activeJob |-> NoJob]
  /\ turns = [i \in 1..n |-> [id |-> i, parent |-> 0, origin |-> NoJob]]
  /\ jobs = [i \in JobIds |-> Absent(i)]

Init ==
  /\ \E u \in Users : \/ \E j \in JobIds : StoryCreatedWithPrologue(u, j)
                       \/ \E n \in ImportSizes : StoryImported(u, n)
  /\ lock = "free"
  /\ pc = [w \in Workers |-> "idle"]
  /\ hand = [w \in Workers |-> NoJob]
  /\ holds = 0
  /\ faults = 0
  /\ halfDone = {}
  /\ cutShort = {}
  /\ drift = FALSE

----------------------------------------------------------------------------
(* Requests that queue a GM job *)

Goto(w, place) == pc' = [pc EXCEPT ![w] = place]

\* Mutant: the job is forgotten, the step is not.
ForgetJob(w) == hand' = [hand EXCEPT ![w] = NoJob] /\ UNCHANGED pc

Drop(w) ==
  /\ Goto(w, "idle")
  /\ hand' = [hand EXCEPT ![w] = NoJob]

\* A process dies, or a handler stops between its writes.
Fault ==
  /\ faults < MaxFaults
  /\ faults' = faults + 1
  /\ UNCHANGED holds

\* The process of worker w dies with the story locked.
DiesLocked(w) == Drop(w) /\ lock' = "leaked"

\* A request cut short returns an error, or one of the processes dies.
RequestEnds ==
  \/ UNCHANGED <<lock, workerVars>>
  \/ \E w \in Workers : DiesLocked(w)

\* Adds job file j and makes it the active job of the manifest.
ActivateJob(j, job) ==
  /\ jobs' = [jobs EXCEPT ![j] = job]
  /\ manifest' = [manifest EXCEPT !.phase = "gm_generating", !.activeJob = j]

MayProgress(u) == u \in Admins \/ u = manifest.driver

\* Mutant: the phase is not checked.
AwaitsInputInAnyPhase(u, t) ==
  turns # <<>> /\ manifest.status = "active" /\ MayProgress(u) /\ t = LastTurnId

\* Mutant: an input for an earlier turn is not refused.
AwaitsInputForAnyTurn(u, t) ==
  /\ turns # <<>>
  /\ manifest.status = "active"
  /\ manifest.phase = "waiting_for_choice"
  /\ MayProgress(u)

\* u may answer turn t: the turn the page showed when it was rendered.
AwaitsInput(u, t) ==
  /\ turns # <<>>
  /\ manifest.status = "active"
  /\ manifest.phase = "waiting_for_choice"
  /\ MayProgress(u)
  /\ t = LastTurnId

MaySubmit(u, k, t) ==
  /\ LockFree
  /\ ~KeyUsed("story_turn", k)
  /\ AwaitsInput(u, t)
  /\ t < MaxTurn

InputJob(u, k, t, j) == QueuedJob("story_turn", u, k, t + 1, t, j)

\* submitStoryInput
SubmitStoryInput(u, k, t) ==
  /\ MaySubmit(u, k, t)
  /\ \E j \in JobIds :
       /\ jobs[j].status = "absent"
       /\ ActivateJob(j, InputJob(u, k, t, j))
  /\ UNCHANGED <<turns, workerVars, envVars>>

\* The job file is there, the manifest knows nothing of it.
LeaveOrphan(j, job) ==
  /\ jobs[j].status = "absent"
  /\ jobs' = [jobs EXCEPT ![j] = job]
  /\ halfDone' = halfDone \cup {j}
  /\ UNCHANGED <<manifest, turns, cutShort, drift>>

SubmitCutShort(u, k, t) ==
  /\ MaySubmit(u, k, t)
  /\ Fault
  /\ \E j \in JobIds : LeaveOrphan(j, InputJob(u, k, t, j))
  /\ RequestEnds

\* submitQuestionJob: any user may ask, also while a failed job waits.
SubmitQuestion(u, k, t) ==
  /\ LockFree
  /\ ~KeyUsed("question_answer", k)
  /\ manifest.status \in {"active", "paused"}
  /\ manifest.phase # "gm_generating"
  /\ t = manifest.currentTurn
  /\ \E j \in JobIds :
       /\ jobs[j].status = "absent"
       /\ jobs' = [jobs EXCEPT
                     ![j] = QueuedJob("question_answer", u, k, t, t, j)]
  /\ UNCHANGED <<manifest, turns, workerVars, envVars>>

\* The active job has failed and u may decide what becomes of it.
MayRecover(u) ==
  /\ manifest.phase = "failed_waiting_retry"
  /\ manifest.activeJob # NoJob
  /\ u \in Admins \/ u = jobs[manifest.activeJob].actor

MayResume(u) ==
  /\ LockFree
  /\ MayRecover(u)
  /\ Exclusive(manifest.activeJob)

\* A new job with the turn, parent and input of the failed one, and no
\* idempotency key.
ResumedJob ==
  [jobs[manifest.activeJob] EXCEPT !.status = "queued", !.key = NoKey]

\* Mutant: the input of the resumed job is taken for a new one.
ResumeAsNewInput(u) ==
  /\ MayResume(u)
  /\ \E j \in JobIds :
       /\ jobs[j].status = "absent"
       /\ ActivateJob(j, [ResumedJob EXCEPT !.origin = j])
  /\ UNCHANGED <<turns, workerVars, envVars>>

\* resumeFailedJob
ResumeFailedJob(u) ==
  /\ MayResume(u)
  /\ \E j \in JobIds : jobs[j].status = "absent" /\ ActivateJob(j, ResumedJob)
  /\ UNCHANGED <<turns, workerVars, envVars>>

ResumeCutShort(u) ==
  /\ MayResume(u)
  /\ Fault
  /\ \E j \in JobIds : LeaveOrphan(j, ResumedJob)
  /\ RequestEnds

\* cancelFailedJob: the job file stays "failed".
CancelFailedJob(u) ==
  /\ LockFree
  /\ MayRecover(u)
  /\ manifest' = [manifest EXCEPT !.phase = "waiting_for_choice",
                                  !.activeJob = NoJob]
  /\ UNCHANGED <<turns, jobs, workerVars, envVars>>

----------------------------------------------------------------------------
(* Driver and administration *)

DriverMayChange ==
  /\ LockFree
  /\ manifest.status = "active"
  /\ manifest.phase = "waiting_for_choice"

ClaimDriver(u) ==
  /\ DriverMayChange
  /\ manifest.driver = NoUser \/ u \in Admins
  /\ manifest' = [manifest EXCEPT !.driver = u]
  /\ UNCHANGED <<turns, jobs, workerVars, envVars>>

ReleaseDriver(u) ==
  /\ DriverMayChange
  /\ u \in Admins \/ u = manifest.driver
  /\ manifest' = [manifest EXCEPT !.driver = NoUser]
  /\ UNCHANGED <<turns, jobs, workerVars, envVars>>

\* changeStoryLifecycleStatus: archive, restore, delete.
ChangeLifecycleStatus(s) ==
  /\ LockFree
  /\ ~HasBlockingGMJob
  /\ manifest.status # s
  /\ manifest' = [manifest EXCEPT !.status = s]
  /\ UNCHANGED <<turns, jobs, workerVars, envVars>>

\* adminUpdateStory: an empty field of the form keeps what is there.
AdminUpdateStory(s, d) ==
  /\ LockFree
  /\ ~HasBlockingGMJob
  /\ manifest' = [manifest EXCEPT !.status = s, !.driver = d]
  /\ UNCHANGED <<turns, jobs, workerVars, envVars>>

\* findStoryTurn: the first turn with that id.
FirstTurnWithId(i, t) ==
  /\ i \in 1..Len(turns)
  /\ turns[i].id = t
  /\ \A k \in 1..(i - 1) : turns[k].id # t

\* editCurrentTurn rewrites the text of the turn and current_turn.
EditCurrentTurn ==
  /\ LockFree
  /\ ~HasBlockingGMJob
  /\ \E i \in 1..Len(turns) :
       /\ FirstTurnWithId(i, manifest.currentTurn)
       /\ manifest' = [manifest EXCEPT !.currentTurn = turns[i].id]
  /\ UNCHANGED <<turns, jobs, workerVars, envVars>>

\* Mutant: current_turn is left alone.
KeepsCurrentTurn(t) == manifest

RolledBackManifest(t) == [manifest EXCEPT !.currentTurn = t]

\* rollbackStoryToTurn: keeps the turns up to the target.  phase and
\* activeJob stay, so a failed job survives the rollback.
RollbackStoryToTurn(t) ==
  /\ LockFree
  /\ ~HasBlockingGMJob
  /\ \E i \in 1..Len(turns) :
       /\ FirstTurnWithId(i, t)
       /\ turns' = SubSeq(turns, 1, i)
       /\ manifest' = RolledBackManifest(t)
  /\ drift' = FALSE
  /\ UNCHANGED <<jobs, workerVars, lockVars, faultVars>>

\* turns.jsonl is cut, current_turn is not.
RollbackCutShort(t) ==
  /\ LockFree
  /\ ~HasBlockingGMJob
  /\ Fault
  /\ \E i \in 1..Len(turns) :
       FirstTurnWithId(i, t) /\ turns' = SubSeq(turns, 1, i)
  /\ drift' = TRUE
  /\ UNCHANGED <<manifest, jobs, halfDone, cutShort>>
  /\ RequestEnds

----------------------------------------------------------------------------
(* The GM worker *)

\* Mutant: failed questions are run again.
NextUnfinishedJob(j) ==
  IF manifest.activeJob = NoJob \/ manifest.phase # "gm_generating"
  THEN jobs[j].status \in {"queued", "failed"} /\ ~Exclusive(j)
  ELSE jobs[j].status = "queued" /\ j = manifest.activeJob

\* processOneGMJob, for this story: the active job if one is generating,
\* else a queued question.  Nothing is locked.
NextJob(j) ==
  IF manifest.activeJob = NoJob \/ manifest.phase # "gm_generating"
  THEN jobs[j].status = "queued" /\ ~Exclusive(j)
  ELSE jobs[j].status = "queued" /\ j = manifest.activeJob

PickJob(w) ==
  /\ pc[w] = "idle"
  /\ \E j \in JobIds : NextJob(j) /\ hand' = [hand EXCEPT ![w] = j]
  /\ Goto(w, "picked")
  /\ UNCHANGED <<manifest, turns, jobs, envVars>>

\* What markJobStarted and applyGMOutput check again under the lock.
StillActive(j) ==
  manifest.activeJob = j /\ manifest.phase = "gm_generating"

MayMark(w) ==
  /\ pc[w] = "picked"
  /\ LockFree
  /\ Exclusive(hand[w]) => StillActive(hand[w])

JobsWith(j, status) == [jobs EXCEPT ![j].status = status]

MarkJobStarted(w) ==
  /\ MayMark(w)
  /\ jobs' = JobsWith(hand[w], "running")
  /\ Goto(w, "generating")
  /\ UNCHANGED <<manifest, turns, hand, envVars>>

\* The job file was written and markJobStarted returns an error all the
\* same, or it was not: the worker has dropped the job.
MarkCutShort(w) ==
  /\ MayMark(w)
  /\ Fault
  /\ jobs' \in {jobs, JobsWith(hand[w], "running")}
  /\ Drop(w)
  /\ lock' \in {"free", "leaked"}
  /\ UNCHANGED <<manifest, turns, halfDone, cutShort, drift>>

\* markJobStarted fails: the tick ends and the job is left as it is.
MarkRefused(w) ==
  /\ pc[w] = "picked"
  /\ ~LockFree \/ (Exclusive(hand[w]) /\ ~StillActive(hand[w]))
  /\ Drop(w)
  /\ UNCHANGED <<manifest, turns, jobs, envVars>>

\* Error, time-out or an answer ValidateGMOutput refuses.
GenerationFails(w) ==
  /\ pc[w] = "generating"
  /\ Goto(w, "failing")
  /\ UNCHANGED <<manifest, turns, jobs, hand, envVars>>

TurnOf(job) ==
  [id |-> job.turn, parent |-> job.parent, origin |-> job.origin]

\* applyGMOutput may write: lock and active job are as they should be.
MayApply(w) ==
  /\ pc[w] = "generating"
  /\ LockFree
  /\ Exclusive(hand[w])
  /\ StillActive(hand[w])

AppendTurn(j) == turns' = Append(turns, TurnOf(jobs[j]))

CommittedManifest(j) ==
  [manifest EXCEPT !.currentTurn = jobs[j].turn,
                   !.phase = "waiting_for_choice",
                   !.activeJob = NoJob]

\* Mutant: the turn is appended first and the answer refused behind it.
ValidateBehindAppend(w) ==
  /\ MayApply(w)
  /\ AppendTurn(hand[w])
  /\ Goto(w, "failing")
  /\ UNCHANGED <<manifest, jobs, hand, envVars>>

\* applyGMOutput for a turn or a prologue.
ApplyGMOutput(w) ==
  LET j == hand[w] IN
  /\ MayApply(w)
  /\ AppendTurn(j)
  /\ jobs' = JobsWith(j, "completed")
  /\ manifest' = CommittedManifest(j)
  /\ drift' = FALSE
  /\ Drop(w)
  /\ UNCHANGED <<lockVars, faultVars>>

\* An error goes to failGMJob with the job in hand; a death goes nowhere.
GenerationEnds(w) ==
  \/ Goto(w, "failing") /\ UNCHANGED <<hand, lock>>
  \/ DiesLocked(w)

\* It stops behind the append: with nothing else written, with the job file,
\* or with the manifest too and summary.md left.
ApplyCutShort(w) ==
  LET j == hand[w] IN
  /\ MayApply(w)
  /\ Fault
  /\ AppendTurn(j)
  /\ \/ /\ jobs' \in {jobs, JobsWith(j, "completed")}
        /\ cutShort' = cutShort \cup {jobs[j].origin}
        /\ drift' = TRUE
        /\ UNCHANGED manifest
     \/ /\ jobs' = JobsWith(j, "completed")
        /\ manifest' = CommittedManifest(j)
        /\ drift' = FALSE
        /\ UNCHANGED cutShort
  /\ halfDone' = halfDone \cup {j}
  /\ GenerationEnds(w)

\* applyQuestionOutput: neither the manifest nor the turns are looked at.
ApplyQuestionOutput(w) ==
  /\ pc[w] = "generating"
  /\ LockFree
  /\ ~Exclusive(hand[w])
  /\ jobs' = JobsWith(hand[w], "completed")
  /\ Drop(w)
  /\ UNCHANGED <<manifest, turns, envVars>>

\* The job file, the last write, is there and its error is reported.
QuestionCutShort(w) ==
  /\ pc[w] = "generating"
  /\ LockFree
  /\ ~Exclusive(hand[w])
  /\ Fault
  /\ jobs' = JobsWith(hand[w], "completed")
  /\ halfDone' = halfDone \cup {hand[w]}
  /\ UNCHANGED <<manifest, turns, cutShort, drift>>
  /\ GenerationEnds(w)

\* Either of them is turned away: busy lock, or the job lost its place.
ApplyRefused(w) ==
  /\ pc[w] = "generating"
  /\ ~LockFree \/ (Exclusive(hand[w]) /\ ~StillActive(hand[w]))
  /\ Goto(w, "failing")
  /\ UNCHANGED <<manifest, turns, jobs, hand, envVars>>

\* Mutant: a failure is recorded in the job file only.
ManifestNotFailed(j) == manifest

\* The phase is not looked at, only the active job.
FailedManifest(j) ==
  IF Exclusive(j) /\ manifest.activeJob = j
  THEN [manifest EXCEPT !.phase = "failed_waiting_retry"]
  ELSE manifest

\* failGMJob
FailGMJob(w) ==
  LET j == hand[w] IN
  /\ pc[w] = "failing"
  /\ LockFree
  /\ jobs' = JobsWith(j, "failed")
  /\ manifest' = FailedManifest(j)
  /\ Drop(w)
  /\ UNCHANGED <<turns, envVars>>

\* The error of the manifest is ignored, that of the job file ends the tick.
FailCutShort(w) ==
  LET j == hand[w] IN
  /\ pc[w] = "failing"
  /\ LockFree
  /\ Fault
  /\ jobs' \in {jobs, JobsWith(j, "failed")}
  /\ manifest' \in {manifest, FailedManifest(j)}
  /\ halfDone' = halfDone \cup {j}
  /\ Drop(w)
  /\ lock' \in {"free", "leaked"}
  /\ UNCHANGED <<turns, cutShort, drift>>

\* failGMJob finds the lock busy; runGMJob ignores its error.
FailureLost(w) ==
  /\ pc[w] = "failing"
  /\ ~LockFree
  /\ Drop(w)
  /\ UNCHANGED <<manifest, turns, jobs, envVars>>

----------------------------------------------------------------------------
(* The lock held for a while, and crashes *)

HoldLock ==
  /\ LockFree
  /\ holds < MaxHolds
  /\ lock' = "held"
  /\ holds' = holds + 1
  /\ UNCHANGED <<manifest, turns, jobs, workerVars, faultVars, drift>>

ReleaseLock ==
  /\ lock = "held"
  /\ lock' = "free"
  /\ UNCHANGED <<manifest, turns, jobs, workerVars, holds, faultVars, drift>>

\* The process of worker w dies between two critical sections, or in the
\* middle of a request that has written nothing but lock.json.  It starts
\* again with an empty memory.
Crash(w) ==
  /\ Fault
  /\ Drop(w)
  /\ lock' \in IF lock = "held" THEN {"held", "leaked"} ELSE {lock}
  /\ UNCHANGED <<manifest, turns, jobs, halfDone, cutShort, drift>>

\* More than StoryLockTimeout later the next acquireLock removes the file.
StaleLockRemoved ==
  /\ lock = "leaked"
  /\ lock' = "free"
  /\ UNCHANGED <<manifest, turns, jobs, workerVars, holds, faultVars, drift>>

----------------------------------------------------------------------------
UserRequest(u) ==
  \/ \E k \in Keys \cup {NoKey}, t \in 0..MaxTurn :
       SubmitStoryInput(u, k, t) \/ SubmitQuestion(u, k, t)
  \/ ResumeFailedJob(u) \/ CancelFailedJob(u)
  \/ ClaimDriver(u) \/ ReleaseDriver(u)

\* Sent by admins only: handleStoryAdmin checks the role.
AdminRequest ==
  \/ \E s \in SetStatuses \cap {"active", "archived", "deleted"} :
       ChangeLifecycleStatus(s)
  \/ \E s \in {manifest.status} \cup (SetStatuses \ {"deleted"}),
        d \in {manifest.driver, NoUser} \cup Users : AdminUpdateStory(s, d)
  \/ EditCurrentTurn
  \/ \E t \in 1..MaxTurn : RollbackStoryToTurn(t)

WorkerStep(w) ==
  \/ PickJob(w) \/ MarkJobStarted(w) \/ MarkRefused(w) \/ GenerationFails(w)
  \/ ApplyGMOutput(w) \/ ApplyQuestionOutput(w) \/ ApplyRefused(w)
  \/ FailGMJob(w) \/ FailureLost(w)

\* The handlers that stop between two writes.
HandlerCutShort ==
  \/ \E u \in Users, k \in Keys \cup {NoKey}, t \in 0..MaxTurn :
       SubmitCutShort(u, k, t)
  \/ \E u \in Users : ResumeCutShort(u)
  \/ Admins # {} /\ \E t \in 1..MaxTurn : RollbackCutShort(t)
  \/ \E w \in Workers : MarkCutShort(w) \/ ApplyCutShort(w)
                         \/ QuestionCutShort(w) \/ FailCutShort(w)

Next ==
  \/ \E u \in Users : UserRequest(u)
  \/ Admins # {} /\ AdminRequest
  \/ \E w \in Workers : WorkerStep(w) \/ Crash(w)
  \/ HandlerCutShort
  \/ HoldLock \/ ReleaseLock \/ StaleLockRemoved

Spec == Init /\ [][Next]_vars

\* The worker ticks every two seconds and gives up on a generation after
\* ten minutes; a request ends; a leaked lock is removed once it is stale.
\* Users are free to stay away.
Fairness ==
  /\ \A w \in Workers : WF_vars(WorkerStep(w))
  /\ WF_vars(ReleaseLock)
  /\ WF_vars(StaleLockRemoved)

FairSpec == Spec /\ Fairness

----------------------------------------------------------------------------
(* Properties *)

TypeOK ==
  /\ manifest \in Manifest
  /\ turns \in Seq(Turn)
  /\ jobs \in [JobIds -> GMJob]
  /\ lock \in {"free", "held", "leaked"}
  /\ pc \in [Workers -> {"idle", "picked", "generating", "failing"}]
  /\ hand \in [Workers -> JobIds \cup {NoJob}]
  /\ \A w \in Workers : pc[w] # "idle" => hand[w] \in JobIds
  /\ holds \in 0..MaxHolds
  /\ faults \in 0..MaxFaults
  /\ halfDone \subseteq JobIds
  /\ cutShort \subseteq JobIds
  /\ drift \in BOOLEAN

\* A job that may still add a turn.
Live(j) == Exclusive(j) /\ jobs[j].status \in {"queued", "running"}

Known(j) == jobs[j].status # "absent"

SameTurn(a, b) == a.id = b.id /\ a.parent = b.parent /\ a.origin = b.origin

\* The manifest and the job files agree, whatever the order in which
\* requests, the worker, its failures and crashes touch them: a story that
\* waits has no active job, the active job has a file and is no question,
\* and unless its own handler was cut short it is live while the story
\* generates and failed while the story waits for a retry.
PhaseMatchesJob ==
  LET j == manifest.activeJob IN
  /\ manifest.phase = "waiting_for_choice" <=> j = NoJob
  /\ j # NoJob => Known(j) /\ Exclusive(j)
  /\ manifest.phase = "gm_generating" => Live(j) \/ j \in halfDone
  /\ manifest.phase = "failed_waiting_retry" =>
       jobs[j].status = "failed" \/ j \in halfDone

\* At most one job can still add a turn, and it is the one the manifest
\* waits for: no second input is in flight.  What else is queued or running
\* was left by a handler cut short.
SingleFlight ==
  \A j \in JobIds : Live(j) => StillActive(j) \/ j \in halfDone

\* Turn ids grow along turns.jsonl, also after rollbacks and after resumes
\* of jobs created before a rollback.  A line may repeat an earlier one only
\* when the commit of its input was cut short and the job was resumed.
TurnIdsIncrease ==
  \A i, k \in 1..Len(turns) : i < k =>
    \/ turns[i].id < turns[k].id
    \/ SameTurn(turns[i], turns[k]) /\ turns[i].origin \in cutShort

\* current_turn, which questions, edits and the page are checked against,
\* names the last line of turns.jsonl, which inputs are checked against,
\* until a handler stops between the two files, and again as soon as a turn
\* is committed or a rollback made.
CurrentTurnIsLast == manifest.currentTurn = LastTurnId \/ drift

\* A request sent twice with one key queues one job, also when the first
\* copy has already been answered and the story has moved on.
OneJobPerKey ==
  \A i, j \in JobIds :
    /\ jobs[i].status # "absent" /\ jobs[j].status # "absent"
    /\ jobs[i].type = jobs[j].type
    /\ jobs[i].key = jobs[j].key /\ jobs[i].key # NoKey
    => i = j

\* One input becomes at most one turn, however often its job fails, is
\* resumed, or is run by another worker at the same time.  After a commit
\* cut short behind the append the resumed job adds the same turn again,
\* the same id and parent: no input ever becomes two different turns.
InputCommittedOnce ==
  \A i, k \in 1..Len(turns) :
    turns[i].origin = turns[k].origin /\ turns[i].origin # NoJob /\ i # k =>
      SameTurn(turns[i], turns[k]) /\ turns[i].origin \in cutShort

\* The invariant the proofs rest on: what is said above, and
\*  - a worker holds a job that has a file;
\*  - the turn of the active job lies after the last turn, even when a
\*    rollback moved the last turn while the job was failed, or it is that
\*    turn, left by a commit cut short;
\*  - the input of the active job has no turn yet, but for such a one;
\*  - an input has a job, so a new job has a new input.
HandKnown == \A w \in Workers : pc[w] # "idle" => Known(hand[w])

\* The active job is there for a turn that a commit cut short has appended.
LeftByActive(turn) ==
  /\ SameTurn(turn, TurnOf(jobs[manifest.activeJob]))
  /\ turn.origin \in cutShort

PendingAhead ==
  manifest.activeJob # NoJob =>
    \/ jobs[manifest.activeJob].turn > LastTurnId
    \/ turns # <<>> /\ LeftByActive(turns[Len(turns)])

PendingUnanswered ==
  manifest.activeJob # NoJob =>
    \A i \in 1..Len(turns) :
      turns[i].origin = jobs[manifest.activeJob].origin => LeftByActive(turns[i])

OriginsKnown ==
  /\ \A j \in JobIds : Known(j) => Known(jobs[j].origin)
  /\ \A i \in 1..Len(turns) :
       turns[i].origin # NoJob => Known(turns[i].origin)

JobsInv == PhaseMatchesJob /\ SingleFlight /\ HandKnown
TurnsInv == TurnIdsIncrease /\ CurrentTurnIsLast /\ PendingAhead
OriginsInv == InputCommittedOnce /\ PendingUnanswered /\ OriginsKnown

RoomInv == JobsInv /\ TurnsInv /\ OriginsInv

\* What was committed stays, except that a rollback may cut the end, and
\* never while the active job is live: a live job that is another one was
\* left by a handler cut short and adds nothing.
CommittedTurnsKept ==
  [][\A i \in 1..Len(turns) :
       \/ i <= Len(turns') /\ SameTurn(turns[i], turns'[i])
       \/ /\ Len(turns') < i
          /\ \A j \in JobIds : Live(j) => j \in halfDone \ {manifest.activeJob}]_vars

\* With a single worker a job file only moves forward: a finished job is
\* never run again, not even by a resume, which makes a new one.  Only a job
\* whose answer reported an error behind its job file fails when completed.
JobsMoveForward ==
  [][\A j \in JobIds :
       \/ jobs'[j].status = jobs[j].status
       \/ <<jobs[j].status, jobs'[j].status>> \in
            {<<"absent", "queued">>, <<"queued", "running">>,
             <<"running", "completed">>, <<"running", "failed">>}
       \/ /\ <<jobs[j].status, jobs'[j].status>> = <<"completed", "failed">>
          /\ j \in halfDone]_vars

\* The page says that the story is updated when the generation ends: it
\* does end, in a turn or in a failure somebody can resume or cancel.
GeneratingEnds ==
  manifest.phase = "gm_generating" ~> manifest.phase # "gm_generating"

\* The room implements StoryProgress: the pending input is the origin of the
\* active job.
StoryLog ==
  [i \in 1..Len(turns) |-> [id |-> turns[i].id, origin |-> turns[i].origin]]

StoryPending ==
  CASE manifest.phase = "waiting_for_choice" -> "none"
    [] manifest.phase = "gm_generating" -> "working"
    [] manifest.phase = "failed_waiting_retry" -> "failed"

StoryInput ==
  IF manifest.activeJob = NoJob THEN NoJob ELSE jobs[manifest.activeJob].origin

Progress == INSTANCE StoryProgress WITH
  Inputs <- JobIds, NoInput <- NoJob, Ids <- 1..MaxTurn,
  MaxSlips <- MaxFaults,
  log <- StoryLog, pending <- StoryPending, input <- StoryInput,
  slips <- MaxFaults - faults

\* Whatever requests, workers, failures and crashes do, a reader of the
\* story sees a behaviour of StoryProgress: above all, each handler cut
\* short costs one repeated turn at the most.
ImplementsStoryProgress == Progress!Spec

----------------------------------------------------------------------------
(* What the pages and tests say and the code does not keep *)

\* "stale turn": an input made for one turn is not applied after another.
\* RollbackStoryToTurn leaves the failed job, ResumeFailedJob its parent.
StaleInputNeverCommitted ==
  \A i \in 2..Len(turns) :
    turns[i].origin # NoJob => turns[i].parent = turns[i - 1].id

\* A waiting story accepts a new input.  After CancelFailedJob of the
\* prologue there is no turn to choose from, and never will be.
ReadyStoryHasTurns ==
  manifest.status = "active" /\ manifest.phase = "waiting_for_choice"
    => turns # <<>>

============================================================================
