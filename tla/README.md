# world-building-harness: specification, model checking and proofs

This directory is the formal model of the harness, a Go program
(`src/internal/harness`) that keeps a fictional world as Markdown documents and
lets people play stories in that world. A language model (the *GM*) writes the
turns of a story. Everything is kept in files: there is no database but SQLite
for the accounts, and several processes (the web server, the command line, a
Telegram bot) work on the same directory.

The model is written in TLA+, checked with TLC on small instances, and the
theorems are proved with TLAPS for all values of the constants.

1. [Inventory](#1-inventory) of the system
2. [Modules](#2-modules) and how they correspond to the code
3. [Runs](#3-runs), bounds and fairness
4. [Proofs](#4-proofs)
5. [What the code does not keep](#5-what-the-code-does-not-keep)
6. [Not modelled](#6-not-modelled)
7. [Plan](#7-plan)

Paths below are relative to `src/internal/harness/` unless they begin with
`src/`.

## 1. Inventory

| Component | State it keeps | Operations | Hard part | What makes it correct |
|---|---|---|---|---|
| **Story room** `story/story_gm_submit.go`, `story_jobs.go`, `story_lifecycle_status.go`, `story_admin_turns.go`, `story_store.go` | per story: `manifest.json` (status, phase, current turn, driver, active job), `turns.jsonl`, `jobs/<id>.json`, `state.json`, `events.jsonl`, `qa.jsonl` | submit an input, ask a question, resume or cancel a failed job, claim or release the driver role, change status, edit, rollback | requests of several users interleave with a worker that works for minutes without the lock; many files, no transaction | manifest and jobs agree; one input in flight; an input becomes at most one turn; turns stay and are ordered; a generation ends |
| **GM worker** `story/story_gm_worker.go` | which job it holds, in memory | pick, mark started, generate, apply, fail | reads without the lock; its errors are dropped; a process may die in each step; every server process runs one | a queued job is taken; a job is applied only while the manifest waits for it |
| **Story lock** `story/story_lock.go`, `story_recovery.go` | `lock.json` with a time | acquire (create exclusively, remove when stale), release, recover | several processes; unlock removes whoever's file is there | mutual exclusion; a crash does not block the story for ever |
| **Story files** `story/story_io.go` | JSONL files | append, read, repair a torn tail | readers repair without the lock | what was appended is read; a repair loses no whole line |
| **Hector import** `story/story_hector.go` | an imported story | import, refresh at start-up, import button | takes no lock, overwrites what it read earlier; the server may die while it replaces a story | one story is served and whole; what was played beyond the draft survives; turns stay in order |
| **Story export** `story/story_export.go`, `cli` `story-export` | none | reads manifest, state, turns | unlocked reads of several files | the bundle is one state of the story |
| **GM output** `story/story_gm_validate.go`, `story_gm_json.go` | none | find the JSON in a text, validate it, apply its state patch | pure functions with an order that matters | what is committed can be played on; the state is what the patches say |
| **GM providers** `story/story_gm_codex.go`, `story_gm_hermes.go`, `story_gm_mock.go`, `story_local_gm.go` | none | run a program or call an HTTP service, with a time-out of ten minutes | slow, fail | external |
| **HTTP handlers** `server/` | none of their own | check the session and the role, call the story functions, render pages | pages are read without the lock and are stale when the form comes back | a form made for an old page is refused |
| **Accounts** `auth/`, `cli/admin.go` | SQLite: users, sessions | login, create, disable, set role, reset, revoke, bootstrap the admin | a login is two statements; taking an account back is two requests; nothing keeps the last admin | an account taken back is out; the server comes up |
| **World documents** `world/packs.go`, `markdown.go`, `context.go` | Markdown under `world/` | read, format, choose context | pure | the format is kept |
| **Validation** `world/validation.go` | none | checks of a document against the others | each draft is validated alone, when it is accepted | canon is valid as a whole |
| **World transactions** `world/lock.go`, `runs.go`, `cli/draft*.go`, `approval.go`, `runs.go` | world lock file, drafts, attestations, canon documents, run records, recovery records | create, update, diff, attest, accept, reject, recover | many files, several processes, crashes; an approval is for a hash | only what was approved becomes canon; a half-done accept is recovered or refused, never continued by another command |
| **World registry** `world/registry.go`, `cli/registry.go` | a YAML file of worlds | add, remove, default | load, modify, save without a lock | a registration is not lost |
| **Telegram bot** `telegram/` | poll offset (memory), inbox files | poll, store, commands on drafts | delivery is at least once; its writes do not take the world lock | no idea is lost or overwritten; every update is handled |
| **Shared helpers** `core/` | none | atomic write by rename, ids | | |
| **Story progress** `server/story_progress.go` | none | what a page shows and whether it asks again | read without the lock | a page does not poll for ever |
| **Pages** `ui/` | none | templates | | say what the state is |
| **Scripts and data** `src/scripts`, `src/packs`, `src/schema` | none | one-off imports | | |

How they interact. A browser talks to `server`, which calls the `story`
functions; each of those takes the lock of the story, reads the files, decides,
writes the files one by one and releases the lock. A busy lock is an error for
the caller, nobody waits. The server also runs one goroutine per process
(`server/server.go:150`, `startGMWorker`) that looks for a queued job every two seconds. The
worker and the requests share nothing but the files. The command line and
Telegram share the world's files with each other, and the story reads the world
documents when a generation starts.

Hard behaviours, by line, are the `hazards` of `PROJECT.json`; the properties
below are aimed at them.

## 2. Modules

| Module | What it is |
|---|---|
| `StoryRoom` | one story with its files, the requests and the worker |
| `StoryProgress` | what a reader of a story may rely on; the abstract specification |
| `StoryRoomProofs` | invariants, action properties and the refinement of `StoryRoom`, proved |
| `StoryFiles` | the files of one story, write by write: lock file, JSONL appends, repair, jobs, rollback, recovery, export |
| `StoryFilesProofs` | the invariants and the recovery property of `StoryFiles`, proved |
| `GMAnswer` | from the text of a provider to an output, a verdict and a state patch: operators |
| `GMRoom` | the worker over several stories, with `GMAnswer`, deaths between writes, and the page |
| `Accounts` | users, sessions, the first administrator |
| `HectorStory` | the imported story, from one start of the server to the next, write by write |
| `StoryServer` | composes `Accounts` and `HectorStory` into the server |
| `WorldWrite` | the commands that write a world: drafts, approvals, accept, recovery, the lock |
| `CanonHistory` | what an approval promises about a document; the abstract specification |
| `WorldWriteProofs` | invariants, an action property and the refinement of `WorldWrite`, proved |
| `Documents` | what drafts and documents say of each other, and the validation |
| `TelegramBot` | polling, redelivery and the inbox of ideas |
| `TelegramBotProofs` | the invariants of `TelegramBot`, proved |
| `GMRoomProofs` | the invariants and the patch property of `GMRoom`, proved |
| `StoryServerProofs` | the invariants of `Accounts` and `HectorStory` as `StoryServer` composes them, proved |
| `DocumentsProofs` | `CanonValid` and who writes the canon, proved |
| `OrderLemmas` | least members, ranks and the list of a finite set of numbers in order, proved |
| `MC...` | the constants of the runs |

Each part of the system is seen at the grain at which it can go wrong. A request
is one step in `StoryRoom`, a list of writes in `StoryFiles`; a document is a
version in `WorldWrite`, frontmatter in `Documents`.

### StoryRoom

State:

| Variable | Code |
|---|---|
| `manifest` | `manifest.json`: `status`, `phase`, `current_turn`, `active_driver_id`, `active_job_id` |
| `turns` | `turns.jsonl`: `turn_id`, `parent_turn_id`; `origin` stands for the input the turn answers |
| `jobs` | `jobs/<id>.json`; `"absent"` while there is no file; `origin` is the job in which the input first appeared, a resume keeps it |
| `lock` | `lock.json`: no file, a file whose owner lives, a file whose owner died |
| `pc`, `hand` | where the worker of each process is in `processOneGMJob` → `runGMJob`, and the job it holds |
| `holds`, `faults` | counters of the two bounds |
| `halfDone`, `cutShort`, `drift` | history of the handlers that stopped between two writes: the jobs they were about, the inputs whose turn was appended and not committed, whether `current_turn` may be behind `turns.jsonl`. No guard reads them |

Actions, one for each handler or for each part of the worker between two
critical sections:

| Action | Code |
|---|---|
| `SubmitStoryInput` | `submitStoryInput` |
| `SubmitQuestion` | `submitQuestionJob` |
| `ResumeFailedJob`, `CancelFailedJob` | `resumeFailedJob`, `cancelFailedJob` |
| `ClaimDriver`, `ReleaseDriver` | `updateDriver` |
| `ChangeLifecycleStatus`, `AdminUpdateStory` | `changeStoryLifecycleStatus`, `adminUpdateStory` |
| `EditCurrentTurn`, `RollbackStoryToTurn` | `editCurrentTurn`, `rollbackStoryToTurn` |
| `PickJob` | the selection in `processOneGMJob`, for this story |
| `MarkJobStarted`, `MarkRefused` | `markJobStarted` |
| `GenerationFails` | an error, time-out or refused answer in `runGMJob` |
| `ApplyGMOutput`, `ApplyQuestionOutput`, `ApplyRefused` | `applyGMOutput`, `applyQuestionOutput` |
| `FailGMJob`, `FailureLost` | `failGMJob`, whose own error `runGMJob` ignores |
| `HoldLock`, `ReleaseLock` | a request that is inside its critical section, seen from those it turns away |
| `SubmitCutShort`, `ResumeCutShort`, `RollbackCutShort`, `MarkCutShort`, `ApplyCutShort`, `QuestionCutShort`, `FailCutShort` | the same handlers, stopped behind a write: an error they return, or the death of the process |
| `Crash`, `StaleLockRemoved` | a server process dies and starts again; the next `acquireLock` (or `recoverStory`) after `StoryLockTimeout` removes its lock |

Why these steps are the right ones:

- A request is one step because it runs under the lock of the story and because
  every writer in this module takes that lock. Holding it for a while shows only
  to those who find it busy, hence `HoldLock`. What the worker reads *without* the
  lock is a step of its own (`PickJob`). It reads the manifest and then the job
  file; the model reads both at once, which loses nothing: both are compared
  again under the lock, and the status, which is not, can have changed in
  between in either case.
- `Crash` strikes between critical sections or inside one that has written
  nothing yet but the lock. What stops a handler *between its writes* is an action
  `...CutShort`: a write returns an error, done or not, and the handler returns it,
  or the process dies and leaves the lock. An error of `applyGMOutput` or
  `applyQuestionOutput` goes on to `failGMJob` with the job in hand, as in
  `runGMJob`, whatever was written before it; so a turn may be appended, the job
  fail and be resumed, and the turn be appended again. `failGMJob` ignores the error of the
  manifest and ends at that of the job file. `cancelFailedJob`, `updateDriver`, the status handlers
  and `editCurrentTurn` write one file that this module has, and are whole. The writes
  one by one, with other processes between them, are in `StoryFiles`.
- A page is stale when its form comes back. `SubmitStoryInput` and
  `SubmitQuestion` therefore take the turn the page showed as a free parameter,
  and the same key may be sent at any later time.
- `turn_id` and `current_turn` are numbers, `MaxTurn` bounds what a request asks
  for. Texts, choices, summaries and events have no influence on control and are
  left out. `MayRecover` covers the check by role or by the actor of the job.

### StoryProgress

A log of answered inputs, a pending input, and six actions: `Ask`, `Commit`,
`Fail`, `Retry`, `GiveUp`, `Cut`. It has no jobs, locks, phases, users or
workers. It promises that an input is answered once, that ids grow, that a new
input is taken only when none is pending and that the log is not cut while an
answer is being written. A commit may `Slip`: the turn is in the log, the input stays
pending, and the same turn (its id and its input) may follow once more. `slips` counts how
often that may still happen, and is there so that a handler cut short costs no more
than one repeated turn. `StoryRoom` maps to it as

    log     <- the ids and origins of turns
    pending <- phase: waiting_for_choice "none", gm_generating "working",
               failed_waiting_retry "failed"
    input   <- the origin of the active job
    slips   <- MaxFaults - faults

### StoryFiles

One story directory as processes see it that do file operations. An operation
is a list of steps (`StartSteps`, `ApplySteps`, `FailSteps`, `SubmitSteps`,
`ResumeSteps`, `CancelSteps`, `RollbackSteps`, `RecoverSteps`, `ExportSteps`,
`ReadSteps`), each a read or a write of one file. `proc[p]` says which step of which
operation process `p` is at (`op`, `at`), what it does before it goes on (`first`:
remove a lock, cut a file, tell of the cut), and what it has read (`manifest`,
`lines`, `seen`, `turn`).

| Variable | Code |
|---|---|
| `file` | `turns.jsonl` and `events.jsonl`: whole lines, and what follows the last newline |
| `manifest` | `manifest.json`: the current turn and the active progression job |
| `lock` | `lock.json`: created empty, stamped with a time, stale; and who made it |
| `proc` | a process: its step, its variables, the append it is in |
| `acked`, `overtaken`, `bare` | history, see below |

| Action | Code |
|---|---|
| `BeginWork`, `BeginJob`, `BeginOther` | the tick of the worker, a request the page offers, an admin request, a command, a page |
| `LookLock`, `RemoveLock`, `CreateLock`, `StampLock`, `Unlock`, `AgeLock` | `acquireLock`, the closure it returns, time |
| `Scan`, `Cut` | `readStoryJSONL` and its truncation |
| `AppendLine`, `AppendPart`, `AppendRest` | `appendJSONL`: one write, or one met in part |
| `ReadManifest`, `Start`, `WriteManifest`, `Rewrite` | the manifest read with the checks that follow it, the job file, the atomic writes |
| `WriteBundle` | `exportStoryBundle` |
| `GenerationFails`, `WriteFails`, `Die` | an error of the provider, a full disk, the death of a process at any step |

A worker goes from `start` to `apply`, and from an error in it to `fail`, as
`runGMJob` does; a death takes its job with it, and the job stays `running`. The
status of the active job stands in `manifest` here, though the code keeps it in
the job file and in the phase: the two are written one after the other, and
`GMRoom` is about what lies between. `editCurrentTurn` is a rollback that keeps all
turns, seen from the files. A line is its turn id; `Bad` is a line that is not
JSON. An append and a truncation of one file wait for each other: the kernel locks
the file for each write.

Two histories mark what the code does not guard against. `overtaken`: a process
acted on a file another had changed since it read it (a truncation at an old
offset, or of a file a rollback has replaced; the removal of a lock that is
not the stale one any more). `bare`: an append to `turns.jsonl` ended exactly before
its newline, by a death or a full disk. The properties hold until one of the two
has happened; that nothing *else* breaks the files is what they say.

### GMAnswer and GMRoom

`GMAnswer` holds operators. A text is a sequence of pieces (braces, members,
prose, a line of back quotes) and `ExtractJSONText` finds the first valid object
in it as the code does. `CodexGenerates`, `HermesGenerates` and `MockGenerates`
say what becomes of it in each provider, `ValidateGMOutput` and `ValidAnswer` which
output is taken, `ApplyGMStatePatch` what a patch does to a state; trimming of
strings is a function. Lengths, blocked terms and required texts are yes or no.

| Variable of `GMRoom` | Code |
|---|---|
| `order` | the stories by `updated_at`, as `listStories` sorts them |
| `room`, `turns`, `state`, `qa`, `jobs`, `lock` | the files of each story |
| `hand` | the worker: stage, job, whether a text is kept |
| `provider` | `WORLD_HARNESS_GM_PROVIDER` |
| `holds`, `deaths` | counters of the bounds |

| Action | Code |
|---|---|
| `SubmitStoryInput`, `SubmitQuestion`, `ResumeFailedJob`, `CancelFailedJob` | the functions of these names, cut after the first write if the server dies |
| `PickJob` | `processOneGMJob`: newest story first, active job before questions |
| `MarkJobStarted` | `markJobStarted`, and the end of the tick when it refuses |
| `Generate` | `provider.Generate`, `applyGMOutput`, `applyQuestionOutput`: an error, a refusal, or the first *n* writes and a death, or all of them |
| `FailGMJob` | `failGMJob`, which a busy lock turns into nothing |
| `HoldLock`, `LockFreed`, `Die` | other requests, time, death |

`Polls` is `storyRoomProgressSnapshot`: whether the page is told to come back.

### Accounts, HectorStory and StoryServer

`Accounts`: `users`, `sessions` are the tables, `login` a login between
`Authenticate` and `CreateSession`. Every statement is atomic: there is one
connection. A login is the one handler cut in two, for its bcrypt comparison
lies between its statements. `MaxChanges` bounds the creations, updates and resets, not
the revocations. `Open` is `OpenStore` with `bootstrapAdmin`,
`UserPage` is `handleAdminUsers`, `AdminCommand` is `world-tool admin`.

`HectorStory`: `source` is the draft in its version, `dir` the directories of
imported stories (manifest, state, turns), `work` the writes a start has before
it, `edit` an import request between its reading and its writing. `ImportNew`
and `ImportAgain` are `importHector`, `Refresh` is `refreshHectorHistory`,
`WriteNext` one write of `createStory` or `replaceStory`; `adrift` records a start
that found a current turn which neither the turns nor the draft reach; `BeginImport` and `EndImport`
are the button of the lobby; `EditSource` and `RejectSource` what the
commands may do to the draft. Turns are their ids and where they come from. A version
of the draft is the list of its headings as they stand in the text: the current turn is
the last of them, not the largest, and `createStory` writes a turn for each, in
that order and with repetitions (`DraftTurns`), while the history of a refresh is sorted and has each
id once (`HistoryTurns`); `jumbled` records that a story was made of headings that do
not ascend. `Submit` takes the turn after the last line of `turns.jsonl`. A job may
`Fail`, and then `Rollback` may go on, and `ResumeFailedJob` brings the job back
with its old turn id. `outpaced` records that a refresh replaced the turns while a job
for one of the new ids was on its way, or that an import on a page wrote more than a new hash over what stood
there. `FirstDir` is the one directory whose name is fixed.

`StoryServer`: a start opens the accounts first and serves when the story is
written; pages need a session, the worker does not, the commands run beside.

### WorldWrite

State:

| Variable | Code |
|---|---|
| `canon`, `draft` | `content/<id>.md`, `drafts/<id>.md`: the run that wrote the text (`source_run_id`), and what control depends on |
| `archive` | `archive/accepted/<run>-<id>.md`, `archive/rejected/...` |
| `diffs`, `atts` | `runs/<run>/summary.json` of `draft diff`; `runs/inbox/*-approval-attestation.json` |
| `recovery` | `runs/<run>/recovery.json` |
| `lock` | `runs/.lock`: no file, a live owner's, a dead owner's |
| `pc`, `cmd`, `doc`, `rid` | a process of the command line: where it is, its command and arguments, the draft it read, the run of its accept |
| `usedRuns`, `published` | the run ids given out; history of the writes to `content/` |
| `telegrams`, `errors`, `crashes` | counters of the bounds |

Actions:

| Action | Code |
|---|---|
| `Begin` | the gate of `withWorld`, before the lock |
| `AcquireWorldLock`, `LockBusy`, `Unlock` | `AcquireWorldLock`, its error, the deferred unlock |
| `CommandFails` | every early return before the first write, a write that fails |
| `CreateChecked`, `CreateWritten`, `UpdateRead`, `UpdateWritten` | `cmdDraftCreate`, `cmdDraftUpdate` |
| `DraftRejected`, `DraftDiffed`, `Attested` | `cmdDraftReject`, `cmdDraftDiff`, `cmdApprovalAttest` |
| `AcceptChecked`, `AcceptWritten`, `AcceptArchived` | `cmdDraftAccept` up to its run, its content write, its rename |
| `ArchiveDirFails`, `ArchiveRenameFails` | its two errors after the content write |
| `RecoverArchived`, `RecoverResolved` | `cmdRunRecover`: rename, then the record |
| `TelegramDraft` | `cmdDraft` of the bot |
| `Crash` | a process dies at any point |
| `OperatorRemovesLock` | outside the program: nothing in it removes a dead owner's lock |

Why this is the program:

- Everything between two steps of a command that another process, an error or
  a crash could separate is a step of its own. Steps that only read what nobody
  but a lock holder writes are joined with the check that follows.
- Texts are named by the run that wrote them. Every writer puts its own run id
  into the front matter, so two files have equal hashes if and only if they come from
  the same write. Run ids are taken to be different (`core.RunID`: the second
  and 32 bits of a hash of the nanosecond and the process id).
- `sound` is the verdict of `validateDocument` on a text, chosen freely when the
  text is written. That the verdict also depends on other documents is left out;
  each draft comes in both kinds.
- The attestation binds the hash of the draft, the hash of the target, and
  `--force`; the fields that only have to equal each other (actor, channel,
  reason, diff run) are equal, and a mismatch is a `CommandFails`. Expiry
  likewise: an attestation may expire at any time, or never.
- An approval is asked for after a diff: `Askable` takes its hashes from there.
  `--draft` names a file under `drafts/`, which the commands do not check.
- What a diff or an accept refuses because of the document type (storylets) or a
  missing related document is a `CommandFails`.
- `result.json` and `summary.json` of a run are read by nobody but people.

### CanonHistory

Each document has a current version. `Approve` gives an approval for a version,
`Publish` replaces the version an approval is for by a new one and spends the
approval. `WorldWrite` maps to it as

    current  <- for each id, the run that wrote content/<id>.md
    approved <- atts
    spent    <- the attestations of published

### Documents

`file` maps a path (area, type of the directory, id) to a document: id, type,
status, change, target, relations, the two years that can contradict each other,
a body. One action per command: `CreateDraft`, `CreateChange` (`draft create` in its
three forms), `WriteDraft` (the bot's `/draft` and `story export-draft`, which look
at nothing), `UpdateDraft`, `RejectDraft`, `AcceptDraft`, and `EditDraft`: one field
of the frontmatter changed by hand (id, type, relations, a year), or the change type
together with its target, to anything. A draft may therefore be aimed at a document of another type,
which `ValidateDocument` does not compare; `retyped` are the documents that an accepted
update has given another type than they had. `Issues` is `ValidateDocument` in accept mode,
`Passes` what `cmdDraftAccept` makes of it, `AcceptedContent` what it writes. Commands
are single steps, as they hold the world lock; approvals and their hashes are
in `WorldWrite`. `Given` says which areas the paths on the command line lie in.

### TelegramBot

Telegram keeps `updates` until a poll with a higher offset has confirmed them
(`forgotten`); this is external and modelled from how `getUpdates` uses it. `Poll`,
`PollFails`, `TakeUpdate` and `Handle` are the loop of `transport.go`; `Die` loses
`offset` and `batch`. `inbox` maps names to words: the number of the message,
and the hash of the text when the name is taken (`IdeaName`). All messages come
in one second, the worst case for names. Message numbers are counted per chat.

## 3. Runs

Passing runs:

| Run | Question | Instance |
|---|---|---|
| `room_safety` | do manifest, turns and jobs stay consistent, and is the room a `StoryProgress`, under every order of requests, worker steps, busy locks, and a crash or a handler cut short? | 2 users (one admin), 1 worker, 2 jobs, 3 turns, imported stories of 2, 1 hold, 1 fault; jobs symmetric; 0.7 M states |
| `story_files` | do the files of a story survive processes that append, repair, submit, resume, cancel, roll back, recover and export at once, die and run out of disk? | 2 processes, 2 turns, 1 fault, any number of operations; 0.4 M states |
| `gm` | does a completed job show, does the state follow the patches, does every page stop asking? | 2 stories, 2 jobs, 3 providers, 10 answers, 1 hold, 1 death; 75 k states |
| `server` | are the accounts and the imported story right from one start to the next? | 2 names, 1 session, 2 passwords, 1 change; 2 directories, 2 versions of the draft, 2 turns, 2 lines, 1 death; 0.8 M states |
| `world_safety` | do documents change only as approved, whatever two processes do? | 1 document, 2 processes, 3 runs, 1 failure of archiving; runs and processes symmetric; 2.8 M states |
| `world_crash` | and when processes die between any two writes, and the bot writes too: is it still a `CanonHistory`, and does the inductive invariant of the proofs hold? | 1 process, 3 runs, 1 failure, 1 draft of the bot, 1 crash; 0.6 M states |
| `documents` | is canon valid as a whole? | 2 ids (symmetric), 3 types, 6 commands; 1.8 M states |
| `telegram` | are ideas kept and updates handled? | 2 chats, 1 pack, 2 words, 3 messages, 1 death; 0.3 M states |

Violations (section 5): `room_stale_input`, `room_crash`, `world_telegram`,
`documents_update`.

The properties of the room, and what would have to go wrong to violate them:

- `PhaseMatchesJob`, `SingleFlight`: a request changes manifest or job behind the
  back of a worker, a failure is recorded in one file only, a late worker applies
  or fails a job that is not the active one any more. Jobs whose own handler was cut
  short (`halfDone`) are excepted, no others.
- `TurnIdsIncrease`, `CurrentTurnIsLast`: a job created before a rollback is
  resumed after it and its turn appended to a shorter story. A commit cut short behind
  the append (`cutShort`) may have its line twice, the same line; `current_turn` may
  lag behind it (`drift`) until the next commit or rollback, which put it right.
- `InputCommittedOnce`: two workers, or a failed job and its resume, both append. After
  a commit cut short they do (section 5), the same id and parent and no other turn.
- `OneJobPerKey`: the same form is sent again after the first copy was answered.
- `CommittedTurnsKept`: a rollback while a generation is on its way. A live job that is
  not the active one was left by a handler cut short and nobody picks it.
- `JobsMoveForward` (one worker only: with two, the second one sets a completed
  job to running again, which the code does not exclude and which does no harm to
  manifest and turns, as the theorems show for any number of workers). `completed` to
  `failed` is allowed only for a job whose answer reported an error behind its job file.
- `GeneratingEnds`: liveness, refuted by `room_crash`; its counterpart that holds
  is `PollingEnds` of `GMRoom`.
- `RoomInv` is the inductive invariant of the proofs.

The properties of `StoryFiles`, `GMRoom`, `StoryServer`, `Documents` and `TelegramBot`:

- `TurnsSurvive`: a torn append, a repair by a reader, a rollback or a recovery
  takes a committed turn away or makes the file unreadable.
- `BundleHasCurrentTurn`: an export between the writes of a commit gets a
  manifest that names a turn the bundle has not. What saves it is the order of
  the writes of `applyGMOutput`.
  A rollback may take the turn away between the two reads: then it claims nothing.
- `RecoveryRepairs`: `recoverStory` reports while a torn tail is left.
- `DeadLockGoes`: the lock of a dead process with a time in it is removed in the
  end, as long as a queued job waits for the worker. An empty lock file never is:
  section 5.
- `CompletedIsShown`: a death between the writes of an answer leaves a job
  that says completed without its turn or its answer, with two of them, or with
  choices a player cannot choose from.
- `PatchHonoured`: the order of reveal, add and remove; blanks; repetitions.
- `PollingEnds`: a story hidden from the worker by another one, by a question that
  is refused, or by a queued job nobody owns. The exception is stated: an
  `Orphan` of the story itself.
- `AccountTakenBack`: a session opened with the old password outlives a reset
  followed by a revocation.
- `ServedStoryIsWhole`, `TurnsStayInOrder`, `PlayedOnSurvives`: a start that dies
  anywhere, and starts again; an edit of the draft; an import request that
  writes what it read long ago; a job that fails, waits out a rollback and is
  resumed. `outpaced`, `adrift` and `halved` mark the three ways in
  which the code does break them, see section 5. Turns that are still those of headings
  out of order are excepted from the order (`AsWritten`), and only until a refresh has
  sorted them: what is played on them is not said to be in order either.
- `ServerComesUp`: no death, and no change of users, keeps the server down for
  good, unless the name of the bootstrap administrator is taken.
- `CanonValid`: drafts that are valid one by one, in an order nobody tried,
  leave two documents of one id, a document with another id than its path, a relation to nothing or to a wrong type, or a
  document in a wrong directory. The last two may come of an update whose type is not
  that of its target, and of nothing else (`retyped`, section 5).
- `IdeasKept`, `HandledOnce`, `EveryUpdateHandled`: updates that come again after
  a death, in other groups, beside messages of other chats with the same number.

The properties of `WorldWrite`:

- `OneWriter`: two commands in their section, or one beside the lock of a dead
  process.
- `CanonOnlyApproved`: a draft or a document changes between the diff and the
  accept, or between the checks of the accept and its write, and is published
  all the same; a draft that is not sound without an approval to force it.
- `AttestationUsedOnce`: archiving fails or the process dies after the content
  was written, the draft is still there, and so is its attestation. Nothing marks
  it as used. What saves the code is that the write has changed the document
  the attestation is bound to, for a deprecation too.
- `AcceptedIsPublished`, `ResolvedIsDone`: recoveries that meet drafts written,
  rejected or accepted since, die half way, and are repeated.
- `WorldInv` is the inductive invariant of the proofs, `WorldImplementsCanon` the
  refinement.

Bounds of `WorldWrite`. Three runs are a draft, its accept and one more write: an
update, a reject, the next draft or a second accept, each in both orders with a
recovery. One document is enough, as no property relates two and
every command works on one; attestations and diffs are not limited. Two
processes, because the gate, the lock and the section concern pairs.
`world_crash` has one process beside the bot: a dead process begins again as a
new one, with all it knew gone, while files and lock stay.

Bounds of `StoryRoom`. Two jobs are an input and a second job: its resume, a question
beside it, or the next input. A job and its resume are enough for a commit cut short
whose turn comes twice. Three turns and stories imported with two allow to roll back by one, to go on,
and to resume a job that lies two turns ahead. One fault is one crash or one handler cut
short; the theorems hold for any number. One hold is enough to turn away a worker at one of its
critical sections, two at apply and again at fail. Two users, one of them admin,
give both sides of each permission check. Statuses set by admins are
`active` and `archived` in the runs: handlers distinguish `active`, `paused`
(as `active` for questions only) and the rest.

Bounds of the others. `StoryFiles`: every hazard of its files takes two
processes, one in an append and one that reads or repairs, and one death or
full disk that leaves a torn file. Two turns make the difference between a line
lost and the last line lost. The operations are not counted. Behaviours are not
followed beyond the step that sets `overtaken` or `bare` (`CONSTRAINT Clean`): the
invariants except them, and the theorems hold for them too; `DeadLockGoes` is
only checked where neither has happened. `GMRoom`: two stories are needed to hide one
behind the other, two jobs for a question beside an input or a resume beside
its failed job; the answers are one good and one for every way to be
bad. `StoryServer`: two versions of the draft, the first with turn 2 only, the second with
two headings of turn 1, and one inbox turn give a draft that goes past what was played, one that does not,
a current turn that a draft had and has no more, and a story made of jumbled headings. With two turns a job that lies more
than one turn beyond the current one is not reached; that is left to the theorems, which hold for any drafts and turns. Two directories are a
half-made story and the one that is served; two names, an administrator and a
friend; one change is a reset, whose revocation is not counted, or a change of role or state. `Documents`: six commands are
two documents with a relation between them (create, edit, accept, twice), or one
document, a draft that is edited twice to be an update of it, and the accept of both. `TelegramBot`: three messages are two of one chat and one of
another, with the same number.

Deadlock is not checked where the system may come to rest: in the rooms when
all jobs or turns of the instance are used up or a worker was lost,
in `StoryServer` when an account database without administrator or a
rejected draft keeps it down, in `Documents` and `TelegramBot` when the bound on
commands or messages is reached and all is done.

`WorldWrite` and `Documents` are checked for safety only and state no fairness:
nothing in them waits.

Fairness of `StoryRoom` (`FairSpec`). Weak fairness of each worker: its loop
ticks every two seconds (`startGMWorker`) and a generation is given up after ten minutes, so a
worker that can take a step takes one. Weak fairness of the release of a lock,
as a request ends, and of the removal of a stale lock: the worker's own tick
calls `acquireLock`, which removes it. None for the users. Weak fairness of
`WorkerStep` does not promise that the lock is free at the moment the worker
tries: a run with `MaxHolds > 0` has every such coincidence in it.
With holds or crashes a generation does not always end, see `room_crash` in
section 5.

Fairness of the others. `StoryFiles`: a process that runs goes on, time passes
(`AgeLock`), the worker ticks (`BeginWork`, strongly fair: the worker is no process of
its own in the model, and one that is busy with a request is not always free to
begin; in the code it is a goroutine that ticks whatever the requests do). `GMRoom`: the worker and the release of
locks, as above. `StoryServer`: the container is started again (`restart:
unless-stopped`) and a start goes on; nobody must log in. `TelegramBot`: weak
fairness of the loop, strong fairness of `Poll`: the network fails and comes
back.

## 4. Proofs

`StoryRoomProofs` proves, from `RoomAssumption` only (an
admin is a user, the "empty" values are not members of the sets they stand
outside of, the bounds are numbers), for any number of users, keys, jobs,
workers, turns, holds, crashes and handlers cut short:

| Theorem | Statement |
|---|---|
| `TypeCorrect` | `Spec => []TypeOK` |
| `RoomInvariant` | `Spec => []RoomInv` |
| `JobsCorrect` | `Spec => [](PhaseMatchesJob /\ SingleFlight)` |
| `TurnsInOrder` | `Spec => [](TurnIdsIncrease /\ CurrentTurnIsLast)` |
| `CommittedOnce` | `Spec => []InputCommittedOnce` |
| `CommittedStays` | `Spec => CommittedTurnsKept` |
| `KeysUnique` | `Spec => []OneJobPerKey` |
| `PhaseFitsJob`, `CurrentTurnLast` | `Spec => []PhaseMatchesJob`, `Spec => []CurrentTurnIsLast` |
| `RoomImplementsProgress` | `Spec => ImplementsStoryProgress` |
| `OneWorkerForward` | `(\A v, w \in Workers : v = w) => (Spec => JobsMoveForward)` |

The argument. Hardly any of the safety properties is inductive by itself.

- *Jobs* (`JobsInv`). `PhaseMatchesJob` and `SingleFlight` hold each other up: a
  worker that applies its job finds the manifest waiting for it, and because
  at most that job is live nothing else can be. `HandKnown` is needed because a
  worker writes to the job it holds: without it a step could bring a job into
  being that no request made. A handler that stops between job file and manifest
  breaks both for its own job, which goes into `halfDone`; that it breaks them for no other job is
  what is shown. `ActivateKeepsJobsInv`, `StatusKeepsJobsInv`, `CommitKeepsJobsInv` and
  `FailKeepsJobsInv` are the four ways a step touches these files, with and without
  a cut, so that each action is one citation.
- *Turns* (`TurnsInv`). `TurnIdsIncrease` survives a commit only if the turn of
  the active job lies after the last one: `PendingAhead`. A rollback keeps a
  failed job, so this must hold for failed jobs too; it does, as a rollback only
  lowers the last id. Submitting establishes it through the
  comparison with the last line, not through the manifest: `CurrentTurnIsLast` has its
  exception. After a commit cut short the last line may *be* the turn of the active job
  (`LeftByActive`): then the next append repeats it. Another input can only be
  submitted after the job is given up, and takes the turn after that line.
- *Origins* (`OriginsInv`). `InputCommittedOnce` survives a commit only if the
  active job's input has no turn but such a one (`PendingUnanswered`). A resume keeps the
  input, and the old job is then no longer the active one. A new job has an
  input of its own because every input in use belongs to a job that has a file
  (`OriginsKnown`).
- *Keys*. A step adds one job, or sets the status of one, or leaves the job files alone
  (`StepOfJobs`, `RequestAddsJob`); what a job is about never changes
  (`OnlyStatusesChange`). `OneJobPerKey` and the refinement both stand on that.
- *Refinement*. The mapped variables need `RoomInv`, and `JobTurnsBounded`
  (a job asks for a turn up to `MaxTurn`) for the ids of the log. `ApplyGMOutput`
  is `Commit`, `RollbackStoryToTurn` is `Cut`, `SubmitStoryInput`,
  `ResumeFailedJob` and `CancelFailedJob` are `Ask`, `Retry` and `GiveUp`, the
  first `FailGMJob` of the active job is `Fail`. `ApplyCutShort` is `Slip` when it
  stops before the manifest and `Commit` when it stops behind it; `RollbackCutShort` is `Cut`
  as well. What else is cut short is seen as nothing, but for its fault (`Spare`): `faults` gives the
  slips that are left (`FaultsLeft`). Everything else stutters, as does a
  second `FailGMJob` of the same job, by another worker.
- *Forward*. A worker that is alone finds the job it holds as it has left it
  (`HandMatchesJob`): queued when it has just picked it, running while it
  generates. A request writes to a job file only to make a new one, and a
  worker that dies forgets its job and leaves the file. The job may be one the worker has
  completed, with an error behind it (`QuestionCutShort`, `ApplyCutShort`), and then it is in
  `halfDone` and may fail. A server starts
  one worker; nothing in the code keeps a second server off the same world, so
  the one worker is a hypothesis of the theorem, not of the specification.

`StoryFilesProofs` proves, from `FilesAssumption` and `NoneAssumption` (what marks
that there is nothing is no process, job or line), for any number of processes, turns,
operations, deaths and full disks:

| Theorem | Statement |
|---|---|
| `FilesTypes` | `Spec => []TypeOK` |
| `FilesInvariant` | `Spec => []FilesInv` |
| `NamedTurnsSurvive` | `Spec => []TurnsSurvive` |
| `BundleIsWhole` | `Spec => []BundleHasCurrentTurn` |
| `RecoveryLeavesNoRest` | `Spec => RecoveryRepairs` |

The argument. Types first, and they are not for free: the lists of steps are data, so
`Places` says what stands where in them, `Place` and `Holds` where in its list a process
with a mark can be and what it must have read by then. Then, as long as nobody
has overtaken anybody and no append has ended just before its newline (`Clean`):
who is past `create` in its list owns the lock file (`Owns`), so at most one process is;
what it has read of the manifest and of the lines is still so (`Knows`), because only an
owner writes either, and a reader without the lock cuts nothing but what follows the
last newline, which an owner in the middle of an append does not let it touch. What
follows the last newline is whole only while it is being written; therefore a repair takes
no line. The file is in order because a job is given the turn after the last line read
under the lock, and no line lies beyond the turn of the active job (`LinesOK`, with
`Runs`: the job a worker applies is still the running one). A bundle is whole because a
line is there before the manifest names it, and a turn an export has read the
name of either stands in the file when its lines are read or was taken by a rollback.
`RecoveryRepairs` is the part of `Knows` about a recovery, and the lemma that says which
steps lead from its report to its unlock.

`WorldWriteProofs` proves, from `WorldAssumption` and `NoneAssumption` (the
"empty" values are no runs, no documents and no commands, the bounds are
numbers), for any number of documents, processes, runs, drafts of the bot,
failures and crashes:

| Theorem | Statement |
|---|---|
| `WorldTypes` | `Spec => []TypeOK` |
| `WorldInvariant` | `Spec => []WorldInv` |
| `WritersExclude` | `Spec => []OneWriter` |
| `AttestationsSingleUse` | `Spec => []AttestationUsedOnce` |
| `ArchiveJustified` | `Spec => []AcceptedIsPublished` |
| `RecoveryCompletes` | `Spec => []ResolvedIsDone` |
| `ChangesApproved` | `Spec => CanonOnlyApproved` |
| `WorldRefinesCanon` | `Spec => WorldImplementsCanon` |

The argument. `OneWriter` is inductive. `Frame` draws from it what a command may
rely on: while it is in its section, all it depends on is kept by the others,
drafts excepted, which the bot may overwrite. Therefore an accept that has
checked its binding still has it when it writes (`ReadyToPublish`), and that is
`CanonOnlyApproved`. `AttestationUsedOnce` needs `NothingToReplay`: no document is
at the version a used attestation was given for. A write preserves it because its
run is in no file yet (`Unspent`, from `RunsKnown`), so the new version is one that
no attestation names. `AcceptedIsPublished` and `ResolvedIsDone` rest on what is
recorded having been published (`HasPublished`, `RecoveryOfPublished`) and
on `ArchivedIsGone`: a draft that has left `drafts/` never comes back, as each
writer takes a new run (`DraftsMove`, `GoneStays`). Publishing is `Publish` of
`CanonHistory`, attesting is `Approve`, everything else stutters.

`TelegramBotProofs` proves, from `TelegramAssumption` (`None` is no chat, no pack, no
word and no update, the bounds are numbers), for any number of chats, packs,
messages and deaths:

| Theorem | Statement |
|---|---|
| `BotInvariant` | `Spec => []BotInv` |
| `TelegramTypes` | `Spec => []TypeOK` |
| `HandledOncePerLife` | `Spec => []HandledOnce` |
| `IdeasSurvive` | `Spec => []IdeasKept` |

The argument. `HandledOnce` counts, and what it needs is the place of the bot: every
update below the one this life deals with next (`Passed`) may have been dealt with
once more than there were deaths, every other one not (`CountInv`). `PlaceInv` says
where that place is: a batch begins at the offset of the bot or at what Telegram has
not forgotten, whichever is greater, and the offset is one past the update in hand.
`IdeasKept` needs that nothing below the offset was left out (`DealtInv`) and that
an idea dealt with is in the inbox under its plain name or under the one with the
hash (`SavedInv`). A later idea does not take its place, because a name that is
taken by another text gets the hash of the text (`InboxKeeps`).

`DocumentsProofs` proves, from `NoneAssumption` (a path without a file holds no
document) and `DocumentsAssumption`, for any ids, bodies, relations, years and any number of
commands:

| Theorem | Statement |
|---|---|
| `DocumentTypes` | `Spec => []TypeOK` |
| `CanonStaysValid` | `"content" \notin Given => (Spec => []CanonValid)` |
| `OnlyAcceptWritesCanon` | `"content" \notin Given => (Spec => CanonOnlyAccepted)` |

The argument. `CanonValid` is about several documents and a draft is validated alone,
so what must be shown is that an accept, which replaces or adds one document, takes
nothing away from the others: an id in use stays in use and keeps its type, and those two
are all that a relation needs of its target. Nothing need be known of a draft before it is accepted:
what `ValidateDocument` has no issue with (`NoIssues`) and `targetForDraft` finds a place for says where it goes
(`AcceptAims`) and what it says of itself (`AcceptSound`). The id is kept because an update
must have the id of its target, and the document found by an id is the only one that has it; the type is kept or
the document is `retyped`, and a relation may then lead to a document whose type it may
not lead to, but still to one. After a forced accept nothing is claimed. The last
theorem is the counterpart of the run `documents_update`: with no path under `content/`
given to `draft update` and `draft reject`, nothing but an accept writes the canon, so
that path is all that is missing.

`GMRoomProofs` proves, from `AnswerAssumption` (choices A to D are among the
ids, trimming twice is trimming once) and `GMAssumption`, for any
stories, jobs, answers, texts, holds and deaths:

| Theorem | Statement |
|---|---|
| `GMInvariant` | `Spec => []GMInv` |
| `GMTypes` | `Spec => []TypeOK` |
| `CompletedShown` | `Spec => []CompletedIsShown` |
| `PatchAsSaid` | `Spec => PatchHonoured` |

The argument. An answer is several writes and the server may die after each, so
`CompletedIsShown` says of the last write what the earlier ones must have done, whatever
the job files left by earlier deaths say. `HandInv` says what a worker has in hand (a job that was
queued when it was picked and runs while it generates or fails). `TurnsInv` says of a
turn that came from a job that the job runs or is completed, that no worker has it in hand
any more and that it added no other turn, and of a completed progression that it has its
turn; `QaInv` says the same of the lines of questions, whose answered line is written over
the one the submission appended. No job is answered twice
then: one that was running when its server died is not queued, so nobody picks it, and
only the job in hand fails, which has no turn yet, and a resume makes a new job.
`PatchHonoured` rests on lemmas about the lists: `Picked`, the operator behind
`appendUnique` and `removeStrings`, takes the places at which something holds, in
order, and therefore returns each value it should, no other one, and none twice.

`StoryServerProofs` proves, from `AccountsAssumption`, `RowAssumption`,
`HectorAssumption` and `NilAssumption`, for any names, slugs, passwords and tokens,
any contents the draft takes one after the other, any inbox, and any number of
directories, turns, changes and deaths:

| Theorem | Statement |
|---|---|
| `AccountsInvariant`, `StoryInvariant` | `Spec => []AccountsInv`, `Spec => []StoryInv` |
| `ServerTypes` | `Spec => []TypeOK` |
| `TakenBack` | `Spec => []AccountTakenBack` |
| `ServedWhole` | `Spec => []ServedStoryIsWhole` |
| `TurnsOrdered` | `Spec => []TurnsStayInOrder` |
| `PlayedOnKept` | `Spec => PlayedOnSurvives` |

The argument. `AccountTakenBack` speaks of the sessions that serve, `AccountsInv` of
every row and of a login on its way, and of who a reset was for.
`ServedStoryIsWhole` is about a server that is up and says nothing of a start, which
writes up to six kinds of files and may die before each. `WorkInv` says what is still
to be written *together with* what stands in the directory: of a replaced story the
turns before the first write have none beyond the history (that is `PlayedOnSurvives`),
of a story on its way the turns written and those to come make the list the manifest
will be about. `StartInv` has that at most one story is listed, also after a death that
left a directory without a manifest. `StoriesInv` is what makes a played turn fit: no
turn lies beyond the current one and a job is for a later one than all of them
(`JobAhead`; after a rollback beside a failed job it need not be the next), unless a replacement or an import has
`outpaced` it, or the turns are still those of the headings as they came (`AsWritten`). Such turns begin
with one that only `createStory` writes, and keep it through appends and rollbacks until
a refresh replaces them all. `ServedStoryIsWhole` does not follow without `adrift`: an earlier version
of the model had no such exception, TLC refuted it with a draft that grows at one start
and shrinks before the refresh, and the proof attempt had asked for exactly that draft.

`OrderLemmas` is where the proofs get what they need of order and of finite sets without an
induction of their own: a set of numbers that is not empty has a least member
(from the library's theorem that strict inclusion of finite sets is well founded), the rank of a member of a finite set
grows with it, and the function that takes each place to the member of that rank is a
sequence in order. `InAscent` of `HectorStory` and `Nth` of `GMAnswer` are such functions.

Only model-checked: the liveness properties `GeneratingEnds`, `PollingEnds`,
`ServerComesUp`, `DeadLockGoes` and `EveryUpdateHandled` (TLAPS does not reason about
fairness and `ENABLED` here), what the recursive scanner of `ExtractJSONText` finds
in a text (it is tried on the texts of the run), and of course the violations.

## 5. What the code does not keep

Refuted by a run, with a shortest behaviour, and told by a finding in
`PROJECT.json` that quotes the text the code contradicts:

- `room_stale_input`: fail turn 3, roll back to turn 1, resume. The answer to
  turn 2 is appended to turn 1, its parent is gone.
- `room_crash`: the process dies while it generates. The job stays `running`:
  nobody takes it, fails it or lets it be cancelled. The same standstill follows
  without a crash when the lock is busy as the worker applies its answer and
  busy again as it records the failure (`RoomCrash.cfg` with `MaxFaults = 0` and
  `MaxHolds = 2`), because `runGMJob` ignores the error of `failGMJob`.
- `world_telegram`: the bot replaces a draft between the two writes of its accept. The
  replacement is archived as accepted and the accepted draft is lost.
- `documents_update`: `draft update --draft content/...` writes a document of the
  canon, and `draft reject` moves one to the archive.

Stated in the modules without a run in this project (give TLC a cfg with the
definition named):

- `ReadyStoryHasTurns` (`StoryRoom`): cancel the failed prologue. The story waits
  for a choice and has no turn to choose from; every input is refused, and the mock
  provider panics when it is asked to go on from no turn.
- `RecoveryBlocksWriters` (`WorldWrite`): two commands pass the gate; the first, an
  accept, fails to archive and leaves an unresolved recovery; the second takes the
  lock and works.
- `CanonInItsDirectory` (`Documents`): draft `a` as a character, edit its id to `b`, its
  change to an update of `b`, a place in canon, and accept it without force. `content/places/b.md` is a
  character then, and what is located in it leads to a wrong type.
- `PartialAcceptRecorded` (`WorldWrite`): `archive/accepted` cannot be made after the
  content was written. The draft stays, and nothing is on record for `run recover`.
  The next accept with the same attestation is refused, so the world is consistent
  but the draft must be rejected by hand.

Met while modelling; the exceptions in the properties name them:

- *Writes that fail.* A write of `applyGMOutput` that fails behind the append fails the
  job, and its resume appends the same turn again; until then `current_turn` is behind
  `turns.jsonl`, and that is what questions and edits go by. If the job file was written by
  then, it goes from `completed` to `failed`. A submission or resume that fails between job file and
  manifest leaves a queued job that nobody serves and, for a submission, a key that is used up. A story
  stays `gm_generating` for ever when `failGMJob` cannot write the manifest, or
  `markJobStarted` returns an error behind its first write.
- *Story lock.* Two processes that see one stale lock can both hold it after the
  second removal; `unlock` removes whoever's file is there. A lock file left empty
  by a death between create and write has no time in it and never goes stale.
- *Bundle.* A rollback between the two reads of an export, or an export between the two
  writes of a rollback, leaves a bundle whose manifest names a turn it has not: the export
  looks for an active job only, and a rollback is none.
- *JSONL.* A reader that meets an append in part truncates the finished line
  later. A last line without its newline counts as good, and the next append
  makes one malformed line of two, for ever. A torn `events.jsonl` that is
  appended to becomes malformed, and `recoverStory` then fails for good.
- *Imported story.* The import button writes a manifest it read before, and can
  raise `current_turn` above the turns there are; the refresh passes a pending job
  by. A start that raised `current_turn` to a turn the draft had, and died or was
  overtaken by an edit that takes the turn away, leaves a current turn that no turn has,
  and every later start keeps it (`maxInt` in `refreshHectorHistory`). A draft whose headings
do not ascend becomes a story whose turns do not, with the last heading as the current turn, until the refresh
of the same start sorts them; when that start dies before, or something played keeps the refresh away, they stay. A death between `manifest.json` and `state.json` loses the state: the next
  refresh writes an empty one. Rejecting the imported draft keeps the server
  from starting.
- *Accounts.* The last administrator can demote himself; the next start makes
  another one, unless the bootstrap name, or a name with the same slug, is
  taken, and then neither the server nor `world-tool admin` opens the store. A login
  between its two statements survives a revocation. A password reset keeps the
  sessions, and re-enabling a user revives them.
- *GM worker.* A question left `running` by a death, or by a busy lock at its
  failure, is never taken up, and its page polls for ever. While a story
  is failed, its pending questions are not polled for. A submission cut between job file and
  manifest leaves a queued job nobody serves. A truncated answer of Hermes can
  yield an inner object, which is refused as invalid and not kept.
- *Idempotency.* `submitStoryInput` compares the turn of the job with the turn
  before it, so a story input sent twice with one key is told of a conflict.
- *Documents.* A second update draft replaces the first, `/draft` and
  `story export-draft` replace any. An update brings a deprecated document back to
  canon. What a deprecation merges is not validated. Two new documents that refer
  to each other can only be accepted without the reference first. A forced accept
  of a draft whose id was edited leaves relations to nothing. Type and path of
  a document in `content/` are not compared, nor the types of an update and of its target.
- *Telegram.* A redelivered `/draft` overwrites the draft edited meanwhile, or
  brings back one that was accepted. An idea that could not be saved is only
  reported to its sender; the update is confirmed.

## 6. Not modelled

- `world/registry.go`: load, modify and save of one YAML file without a lock; of
  two registrations at once one is lost. Planned.
- A death, or an I/O error, between the writes of
  `changeStoryLifecycleStatus`, `adminUpdateStory` and `updateDriver`: they write the
  manifest and an event, and an event is read by nobody. `summary.md` is derived; an error
  of its write counts (`ApplyCutShort`).
- Where a write error strikes, module by module: `StoryRoom` has it behind every write of the
  handlers that change turns, jobs or both, but takes an append for done or not done; the
  torn append, and what a reader makes of it, is in `StoryFiles`, whose order of turns is not strict for the
  turn that comes twice. `GMRoom.Generate` dies between the writes of an answer but has
  no error that goes on to `failGMJob`. `HectorStory` has every handler whole and the start write by write.
- `HectorStory` keeps of a job only its turn and whether it failed; title and
  summary of a manifest are not state, an import may write them though nothing changes in the model. Headings have positive
  numbers, and a version without any (`no turn heading`) fails the start as a draft that is gone does, so `source = 0`, from which the model does not come back, stands for both.
- A rollback leaves `state.json` as it was, which no property speaks of.
- `input stage`, `draft validate`, `content validate`, `content migrate`,
  and `world init`: they write reports, staged inputs or a new tree. A write of
  one file is one step; the `.tmp` file that two writers of one draft would share
  is left out.
- Reading, searching and formatting of packs and documents; the required texts,
  headings and tags of the validation.
- Prompts, the context of a generation (`story_gm.go`) and the scenes of the local
  GM: text only, nothing depends on it but what a person reads.
- `appendChoice` and `createDemoStory` are called by no handler.
- Pages, styles and view models (`ui/`, `server/story_room_view_models.go`):
  rendering of what the modules hold. Import scripts, packs and schemas: data.

## 7. Plan

Done: all modules of section 2. Next, in this order:

1. `Registry`: two processes that load, change and save.
2. `StoryFiles` refines the critical section of `StoryRoom` while nothing is
   `overtaken`.
3. `state.json` and the summary under rollback.
