------------------------------- MODULE GMRoom -------------------------------
(***************************************************************************)
(* The GM worker of a server with several stories: the order in which it   *)
(* serves them, what it keeps of an answer (GMAnswer), what a death in the *)
(* middle of a request or of an answer leaves behind, and whether the page *)
(* of a story ever stops asking (server/story_progress.go).                *)
(*                                                                         *)
(* StoryRoom has the requests of one story in full; here a story has one   *)
(* user and neither roles, keys, rollbacks nor statuses.  A request that   *)
(* is cut short by the death of the server has done the first of its       *)
(* writes, and leaves its lock.                                            *)
(***************************************************************************)
EXTENDS GMAnswer

CONSTANTS
  Stories,
  Jobs,        \* names for GM jobs
  None,        \* an empty active_job_id
  Providers,   \* what the server may be configured with
  Answers,     \* bound: the pairs of a text and an output a provider may give
  Seed,        \* the state of a new story
  MaxHolds,    \* bound: how often a request of another kind holds a lock
  MaxDeaths    \* bound: how often the server dies

ASSUME GMAssumption ==
  /\ None \notin Jobs
  /\ IsFiniteSet(Stories)
  /\ Seed \in StoryState
  /\ \A a \in Answers : a.output \in Output
  /\ MaxHolds \in Nat /\ MaxDeaths \in Nat

VARIABLES
  order,      \* the stories by updated_at, the newest first
  room,       \* manifest.json of each: phase and active job
  turns,      \* turns.jsonl of each
  state,      \* state.json of each
  qa,         \* qa.jsonl of each: the questions, and whether they are answered
  jobs,       \* the job files
  lock,       \* lock.json of each: "free", "held", or "dead" with its server
  hand,       \* the worker: its stage, its job, and whether it keeps a text
  provider,
  holds,
  deaths

vars == <<order, room, turns, state, qa, jobs, lock, hand, provider, holds, deaths>>

Phases == {"waiting_for_choice", "gm_generating", "failed_waiting_retry"}
Idle == [stage |-> "idle", job |-> None, raw |-> FALSE]
NoFile == [story |-> None, type |-> "story_turn", status |-> "absent", raw |-> "none"]
Queued(s, type) == [story |-> s, type |-> type, status |-> "queued", raw |-> "none"]
IsQuestion(j) == jobs[j].type = "question_answer"

Init ==
  /\ order \in {o \in [1..Cardinality(Stories) -> Stories] : Range(o) = Stories}
  /\ room = [s \in Stories |-> [phase |-> "waiting_for_choice", active |-> None]]
  /\ turns = [s \in Stories |->
                <<[job |-> None, choices |-> <<"A", "B", "C">>, patch |-> NoPatch]>>]
  /\ state = [s \in Stories |-> Seed]
  /\ qa = [s \in Stories |-> <<>>]
  /\ jobs = [j \in Jobs |-> NoFile]
  /\ lock = [s \in Stories |-> "free"]
  /\ hand = Idle
  /\ provider \in Providers
  /\ holds = 0 /\ deaths = 0

----------------------------------------------------------------------------
(* Requests *)

Free(s) == lock[s] = "free"

\* A random name that no file has: which one makes no difference.
NamesLeft == \E j \in Jobs : jobs[j].status = "absent"
NewJob == CHOOSE j \in Jobs : jobs[j].status = "absent"

\* Mutant: the story keeps its old place beside the new one.
TouchTwice(s, phase, active) ==
  /\ room' = [room EXCEPT ![s] = [phase |-> phase, active |-> active]]
  /\ order' = <<s>> \o order

\* The manifest is written: the story is the newest.
Touch(s, phase, active) ==
  /\ room' = [room EXCEPT ![s] = [phase |-> phase, active |-> active]]
  /\ order' = <<s>> \o Picked(order, {i \in DOMAIN order : order[i] # s})

\* The server dies under the lock of s; its worker dies with it.
DiesHolding(s) ==
  /\ deaths < MaxDeaths
  /\ deaths' = deaths + 1
  /\ lock' = [lock EXCEPT ![s] = "dead"]
  /\ hand' = Idle

LivesOn == UNCHANGED <<lock, hand, deaths>>

\* submitStoryInput: the job file, then the manifest.
SubmitStoryInput(s) ==
  /\ Free(s)
  /\ room[s].phase = "waiting_for_choice"
  /\ turns[s] # <<>>
  /\ NamesLeft
  /\ jobs' = [jobs EXCEPT ![NewJob] = Queued(s, "story_turn")]
  /\ \/ Touch(s, "gm_generating", NewJob) /\ LivesOn
     \/ DiesHolding(s) /\ UNCHANGED <<room, order>>
  /\ UNCHANGED <<turns, state, qa, provider, holds>>

\* submitQuestionJob: the job file, then the line of qa.jsonl.  The manifest
\* is not written, so that a question does not bring its story forward.
SubmitQuestion(s) ==
  /\ Free(s)
  /\ room[s].phase # "gm_generating"
  /\ NamesLeft
  /\ jobs' = [jobs EXCEPT ![NewJob] = Queued(s, "question_answer")]
  /\ \/ qa' = [qa EXCEPT ![s] = Append(@, [job |-> NewJob, answered |-> FALSE])] /\ LivesOn
     \/ DiesHolding(s) /\ UNCHANGED qa
  /\ UNCHANGED <<order, room, turns, state, provider, holds>>

FailedJobOf(s) == room[s].phase = "failed_waiting_retry" /\ room[s].active # None

\* resumeFailedJob
ResumeFailedJob(s) ==
  /\ Free(s)
  /\ FailedJobOf(s)
  /\ NamesLeft
  /\ jobs' = [jobs EXCEPT ![NewJob] = Queued(s, "story_turn")]
  /\ \/ Touch(s, "gm_generating", NewJob) /\ LivesOn
     \/ DiesHolding(s) /\ UNCHANGED <<room, order>>
  /\ UNCHANGED <<turns, state, qa, provider, holds>>

\* cancelFailedJob
CancelFailedJob(s) ==
  /\ Free(s)
  /\ FailedJobOf(s)
  /\ Touch(s, "waiting_for_choice", None)
  /\ UNCHANGED <<turns, state, qa, jobs, lock, hand, provider, holds, deaths>>

\* Some other request holds the lock for a while.
HoldLock(s) ==
  /\ Free(s) /\ holds < MaxHolds
  /\ lock' = [lock EXCEPT ![s] = "held"]
  /\ holds' = holds + 1
  /\ UNCHANGED <<order, room, turns, state, qa, jobs, hand, provider, deaths>>

\* The request ends, or acquireLock finds the lock older than fifteen minutes.
LockFreed(s) ==
  /\ ~Free(s)
  /\ lock' = [lock EXCEPT ![s] = "free"]
  /\ UNCHANGED <<order, room, turns, state, qa, jobs, hand, provider, holds, deaths>>

----------------------------------------------------------------------------
(* The worker *)

Generating(s) == room[s].phase = "gm_generating" /\ room[s].active # None

\* The jobs the worker would run of s: the active one, else the questions.
Servable(s) ==
  {j \in Jobs : /\ jobs[j].status = "queued" /\ jobs[j].story = s
                /\ IF Generating(s) THEN j = room[s].active ELSE IsQuestion(j)}

\* Mutant: a generating story ends the search even if its job is not queued.
StopsAtGenerating(i) ==
  \A k \in 1..(i - 1) : Servable(order[k]) = {} /\ ~Generating(order[k])

\* No newer story has anything to run.
FirstServable(i) == \A k \in 1..(i - 1) : Servable(order[k]) = {}

\* processOneGMJob: at most one job a tick.
PickJob ==
  /\ hand = Idle
  /\ \E i \in DOMAIN order :
       /\ FirstServable(i)
       /\ \E j \in Servable(order[i]) : hand' = [Idle EXCEPT !.stage = "picked", !.job = j]
  /\ UNCHANGED <<order, room, turns, state, qa, jobs, lock, provider, holds, deaths>>

Story == jobs[hand.job].story
StillActive == room[Story].active = hand.job /\ room[Story].phase = "gm_generating"
MayWrite == Free(Story) /\ (IsQuestion(hand.job) \/ StillActive)

\* markJobStarted; when it fails the tick is over.
MarkJobStarted ==
  /\ hand.stage = "picked"
  /\ IF MayWrite
     THEN /\ jobs' = [jobs EXCEPT ![hand.job].status = "running"]
          /\ hand' = [hand EXCEPT !.stage = "generating"]
     ELSE hand' = Idle /\ UNCHANGED jobs
  /\ UNCHANGED <<order, room, turns, state, qa, lock, provider, holds, deaths>>

\* runGMJob goes on to failGMJob; a text is kept only of a provider error.
GoFail(raw) ==
  /\ hand' = [hand EXCEPT !.stage = "failing", !.raw = raw]
  /\ UNCHANGED <<order, room, turns, state, qa, jobs, lock, deaths>>

TurnOf(out) == [job |-> hand.job, choices |-> out.choices, patch |-> out.patch]
Completed == [jobs[hand.job] EXCEPT !.status = "completed", !.raw = "raw"]

\* Mutant: the job file is written first.
JobFileFirst(n, lines, files) == lines = (n >= 2) /\ files = (n >= 1)

\* What an answer has written after n of its writes, in their order: the
\* line in turns.jsonl or qa.jsonl, then the job file.
Written(n, lines, files) == lines = (n >= 1) /\ files = (n >= 2)

\* applyGMOutput for a turn: turns.jsonl, the job file, state.json and the
\* manifest; the events come before and the summary after all of them.
ApplyTurn(out, n) ==
  LET s == Story IN
  /\ \E lines, files \in BOOLEAN :
       /\ Written(n, lines, files)
       /\ turns' = IF lines THEN [turns EXCEPT ![s] = Append(@, TurnOf(out))] ELSE turns
       /\ jobs' = IF files THEN [jobs EXCEPT ![hand.job] = Completed] ELSE jobs
  /\ state' = IF n >= 3 THEN [state EXCEPT ![s] = ApplyGMStatePatch(@, out.patch)] ELSE state
  /\ IF n = 4 THEN Touch(s, "waiting_for_choice", None) ELSE UNCHANGED <<room, order>>
  /\ UNCHANGED qa

AnsweredIn(s) == \E i \in DOMAIN qa[s] : qa[s][i].job = hand.job

\* RewriteQuestionProjection: the line of the question is replaced, or one is
\* added if its submission died before it wrote the line.
RewriteQuestionProjection(s) ==
  IF AnsweredIn(s)
  THEN [i \in DOMAIN qa[s] |->
          IF qa[s][i].job = hand.job THEN [qa[s][i] EXCEPT !.answered = TRUE] ELSE qa[s][i]]
  ELSE Append(qa[s], [job |-> hand.job, answered |-> TRUE])

\* applyQuestionOutput: qa.jsonl, then the job file.
ApplyAnswer(n) ==
  /\ \E lines, files \in BOOLEAN :
       /\ Written(n, lines, files)
       /\ qa' = IF lines THEN [qa EXCEPT ![Story] = RewriteQuestionProjection(Story)] ELSE qa
       /\ jobs' = IF files THEN [jobs EXCEPT ![hand.job] = Completed] ELSE jobs
  /\ UNCHANGED <<order, room, turns, state>>

Writes == IF IsQuestion(hand.job) THEN 2 ELSE 4
Valid(out) == IF IsQuestion(hand.job) THEN ValidAnswer(out) ELSE ValidateGMOutput(out)

ApplyOutput(out, n) ==
  IF IsQuestion(hand.job) THEN ApplyAnswer(n) ELSE ApplyTurn(out, n)

\* provider.Generate and what follows: an error, an output that is refused, a
\* lock that is busy or a job that has lost its place, or all the writes, or
\* the first of them and the death of the server.
Generate ==
  /\ hand.stage = "generating"
  /\ \E a \in Answers, ok \in BOOLEAN :
       LET outcome == Generates(provider, ok, a.text, a.output) IN
       CASE outcome.error -> GoFail(outcome.raw)
         [] ~outcome.error /\ (~Valid(outcome.output) \/ ~MayWrite) -> GoFail(FALSE)
         [] OTHER ->
              \/ /\ ApplyOutput(outcome.output, Writes)
                 /\ hand' = Idle
                 /\ UNCHANGED <<lock, deaths>>
              \/ \E n \in 0..(Writes - 1) :
                   ApplyOutput(outcome.output, n) /\ DiesHolding(Story)
  /\ UNCHANGED <<provider, holds>>

\* failGMJob; when the lock is busy the job stays as it is, for ever.
FailGMJob ==
  LET j == hand.job IN
  /\ hand.stage = "failing"
  /\ IF Free(Story)
     THEN /\ jobs' = [jobs EXCEPT ![j].status = "failed",
                                  ![j].raw = IF hand.raw THEN "failed" ELSE "none"]
          /\ IF ~IsQuestion(j) /\ room[Story].active = j
             THEN Touch(Story, "failed_waiting_retry", j)
             ELSE UNCHANGED <<room, order>>
     ELSE UNCHANGED <<jobs, room, order>>
  /\ hand' = Idle
  /\ UNCHANGED <<turns, state, qa, lock, provider, holds, deaths>>

\* The server dies between two requests, or while its worker generates.
Die ==
  /\ deaths < MaxDeaths
  /\ deaths' = deaths + 1
  /\ hand' = Idle
  /\ lock' = [s \in Stories |-> IF Free(s) THEN "free" ELSE "dead"]
  /\ UNCHANGED <<order, room, turns, state, qa, jobs, provider, holds>>

WorkerStep == PickJob \/ MarkJobStarted \/ Generate \/ FailGMJob

Next ==
  \/ \E s \in Stories :
       \/ SubmitStoryInput(s) \/ SubmitQuestion(s) \/ ResumeFailedJob(s)
       \/ CancelFailedJob(s) \/ HoldLock(s) \/ LockFreed(s)
  \/ WorkerStep \/ Die

\* The worker ticks every two seconds, a provider has ten minutes, a request
\* ends and a lock that was left grows old.
Spec ==
  /\ Init /\ [][Next]_vars
  /\ WF_vars(WorkerStep)
  /\ \A s \in Stories : WF_vars(LockFreed(s))

----------------------------------------------------------------------------
(* The page of a story *)

\* storyProgressPendingQuestions
PendingQuestions(s) ==
  {j \in Jobs : jobs[j].story = s /\ IsQuestion(j) /\ jobs[j].status \in {"queued", "running"}}

\* storyRoomProgressSnapshot asks the page to come back (next_poll_ms > 0).
Polls(s) ==
  IF room[s].active # None
  THEN room[s].phase # "failed_waiting_retry"
  ELSE PendingQuestions(s) # {}

----------------------------------------------------------------------------
(* Properties *)

Turn == [job : Jobs \cup {None}, choices : Seq(ChoiceIds), patch : StatePatch]
Question == [job : Jobs, answered : BOOLEAN]
Job == [story : Stories \cup {None}, type : {"story_turn", "question_answer"},
        status : {"absent", "queued", "running", "completed", "failed"},
        raw : {"none", "failed", "raw"}]

TypeOK ==
  /\ order \in Seq(Stories) /\ Range(order) = Stories /\ Len(order) = Cardinality(Stories)
  /\ room \in [Stories -> [phase : Phases, active : Jobs \cup {None}]]
  /\ turns \in [Stories -> Seq(Turn)]
  /\ state \in [Stories -> StoryState]
  /\ qa \in [Stories -> Seq(Question)]
  /\ jobs \in [Jobs -> Job]
  /\ lock \in [Stories -> {"free", "held", "dead"}]
  /\ hand \in [stage : {"idle", "picked", "generating", "failing"},
               job : Jobs \cup {None}, raw : BOOLEAN]
  /\ provider \in Providers /\ holds \in 0..MaxHolds /\ deaths \in 0..MaxDeaths

\* A job that says it is completed is shown to the players, wherever the
\* server died: its one turn is in the story and can be answered by three or
\* four choices that differ, or the one line of its question has the answer.
CompletedIsShown ==
  \A j \in Jobs : jobs[j].status = "completed" =>
    LET s == jobs[j].story
        mine == {i \in DOMAIN turns[s] : turns[s][i].job = j}
        lines == {i \in DOMAIN qa[s] : qa[s][i].job = j}
    IN IF IsQuestion(j)
       THEN Cardinality(lines) = 1 /\ \A i \in lines : qa[s][i].answered
       ELSE /\ Cardinality(mine) = 1
            /\ \A i \in mine : LET c == turns[s][i].choices IN
                 Len(c) \in 3..4 /\ Cardinality(Range(c)) = Len(c)

Kept(list) == {TrimmedTo[list[i]] : i \in DOMAIN list} \ {Empty}

\* The new state of s is the old one with the patch of its last turn.
AsPatched(s) ==
  LET p == Last(turns'[s]).patch
      facts == (Kept(state[s].facts) \cup Kept(p.revealed)) \ Kept(p.remove)
      threads == Kept(state[s].threads) \ Kept(p.remove)
  IN /\ Range(state'[s].facts) = facts \cup Kept(p.add)
     /\ Range(state'[s].threads) = threads \cup Kept(p.add)
     /\ Len(state'[s].facts) = Cardinality(Range(state'[s].facts))
     /\ Len(state'[s].threads) = Cardinality(Range(state'[s].threads))

\* The state of a story changes only with a turn, and as the patch of that
\* turn says: a fact that is added is there though the same patch removes it,
\* a fact revealed again after it was removed is back, one that is revealed
\* and removed at once is not, and no list holds a string twice or a blank.
PatchHonoured == [][\A s \in Stories : state'[s] # state[s] => AsPatched(s)]_vars

\* A job that nobody will finish: it was running when its server died, or
\* when its failure met a busy lock.
Orphan(j) ==
  /\ jobs[j].status \in {"running", "completed"}
  /\ hand.job # j
  /\ \/ IsQuestion(j) /\ jobs[j].status = "running"
     \/ room[jobs[j].story].active = j

\* The page of a story does not ask for ever: what it waits for ends, however
\* many stories share the worker and whatever lies queued or orphaned in the
\* others, unless a job of the story itself is an orphan.
PollingEnds ==
  \A s \in Stories :
    Polls(s) ~> (~Polls(s) \/ \E j \in Jobs : jobs[j].story = s /\ Orphan(j))

============================================================================
