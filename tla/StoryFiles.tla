----------------------------- MODULE StoryFiles -----------------------------
(***************************************************************************)
(* The directory of one story as its operations see it, file operation by  *)
(* file operation: lock.json, turns.jsonl, events.jsonl and manifest.json  *)
(* (src/internal/harness/story: story_lock.go, story_io.go,                *)
(* story_gm_submit.go, story_gm_worker.go, story_jobs.go,                  *)
(* story_recovery.go, story_export.go, story_admin_turns.go).              *)
(*                                                                         *)
(* An operation is a list of steps.  A step reads or writes one file, and  *)
(* between two steps another process can come, or this one can die.  An    *)
(* append is one write, but a reader can meet it in part, and the death of *)
(* the process or a full disk can leave it in part.  An append and a       *)
(* truncation of one file wait for each other.  The job files are not told *)
(* apart from the active job of the manifest (see GMRoom for them).        *)
(***************************************************************************)
EXTENDS Naturals, Sequences, SequencesExt

CONSTANTS
  Procs,       \* requests, commands and the worker
  None,        \* no lock file, no rest of a line, no job
  Bad,         \* a line that is not JSON
  MaxTurns,    \* bound: the turns of the story
  MaxFaults    \* bound: processes that die, and writes that fail

ASSUME FilesAssumption ==
  /\ Bad \notin 0..MaxTurns
  /\ MaxTurns \in Nat \ {0}
  /\ MaxFaults \in Nat

VARIABLES
  file,       \* turns.jsonl and events.jsonl
  manifest,   \* the current turn and the active job
  lock,       \* lock.json
  proc,       \* what each process does, and what it has read
  acked,      \* history: the turns the manifest has named and no rollback took
  overtaken,  \* history: a process has acted on a file that is no more as read
  bare,       \* history: an append has ended just before its newline
  faults      \* counter of the bound

files == <<file, manifest>>
history == <<acked, overtaken, bare>>
vars == <<files, lock, proc, history, faults>>

----------------------------------------------------------------------------
(* Files *)

Turns == 1..MaxTurns

\* lines are whole lines; tail is what follows the last newline.  The good
\* lines of events.jsonl are not told apart, and not kept.
Rest == [rec : Turns \cup {0, Bad}, whole : BOOLEAN]
File == [lines : Seq(Turns \cup {Bad}), tail : Rest \cup {None}]

Damaged(f) == Bad \in ToSet(f.lines)

\* What a line becomes that is written behind the rest of another.
Joined(f, rec) == IF f.tail = None THEN rec ELSE Bad

WithLine(f, name, rec) ==
  [lines |-> IF name = "events" /\ rec # Bad THEN f.lines ELSE Append(f.lines, rec),
   tail  |-> None]

\* The progression job the manifest calls active: generating, or
\* failed_waiting_retry.
Job == [turn : Turns, status : {"queued", "running", "failed"}]
Manifest == [current : 0..MaxTurns, job : Job \cup {None}]

\* storyHasBlockingGMJob
Blocked(m) == m.job # None /\ m.job.status # "failed"
Failed(m) == m.job # None /\ m.job.status = "failed"

\* by is None when the process is dead.  empty: created and not yet written.
LockFile == [by : Procs \cup {None}, state : {"empty", "fresh", "stale"}]

ASSUME NoneAssumption == None \notin Procs \cup Rest \cup Job \cup LockFile

----------------------------------------------------------------------------
(* Operations *)

\* markJobStarted; a worker goes on with runGMJob.
StartSteps == <<"look", "create", "stamp", "manifest", "note", "start", "unlock">>

\* Mutant: the manifest names the turn before it is in the file.
PublishFirst ==
  <<"scan", "look", "create", "stamp", "manifest", "note", "publish", "append", "unlock">>

\* buildGMRequest, and applyGMOutput once the story is generated
ApplySteps ==
  <<"scan", "look", "create", "stamp", "manifest", "note", "append", "publish", "unlock">>

FailSteps == <<"look", "create", "stamp", "fail", "note", "unlock">>

\* The manifest is read before the turns and looked at after them: under the
\* lock it is the same.
SubmitSteps == <<"look", "create", "stamp", "scan", "manifest", "note", "queue", "unlock">>
ResumeSteps == <<"look", "create", "stamp", "manifest", "scan", "note", "queue", "unlock">>
CancelSteps == <<"look", "create", "stamp", "manifest", "note", "clear", "unlock">>

RollbackSteps ==
  <<"look", "create", "stamp", "manifest", "scan", "rewrite", "publish", "note", "unlock">>

\* Mutant: the turns are not read.
RecoverEventsOnly == <<"look", "create", "stamp", "scan_events", "note", "unlock">>

RecoverSteps == <<"look", "create", "stamp", "scan_events", "scan", "note", "unlock">>

ExportSteps == <<"manifest", "scan", "bundle", "note">>

\* A page, or the refresh of an imported story.
ReadSteps == <<"scan">>

Steps ==
  [start |-> StartSteps, apply |-> ApplySteps, fail |-> FailSteps,
   submit |-> SubmitSteps, resume |-> ResumeSteps, cancel |-> CancelSteps,
   rollback |-> RollbackSteps, recover |-> RecoverSteps, export |-> ExportSteps,
   read |-> ReadSteps]
Ops == DOMAIN Steps

\* A process: the step it is at; what it does before it goes on (remove a lock,
\* cut a file, tell of the cut in events.jsonl); whether it is in the middle of
\* an append, and whether it has met an error; the turn it writes or goes back
\* to; the manifest and the lines it has read, and how many it has seen in a file
\* that is torn.
Idle == [op |-> "none", at |-> 0, first |-> "nothing", writing |-> FALSE, error |-> FALSE,
         turn |-> 0, manifest |-> None, lines |-> <<>>, seen |-> 0]

At(p, s) == proc[p].op \in Ops /\ proc[p].first = "nothing" /\ Steps[proc[p].op][proc[p].at] = s
First(p, s) == proc[p].op \in Ops /\ proc[p].first = s
Does(p, m) == proc' = [proc EXCEPT ![p] = m]

Created(m) == \E i \in 1..(m.at - 1) : Steps[m.op][i] = "create"

\* The end of an operation: a started job is run, a job that met an error fails.
Ended(m) ==
  CASE m.op = "start" /\ ~m.error -> [Idle EXCEPT !.op = "apply", !.at = 1, !.turn = m.turn]
    [] m.op = "apply" /\ m.error  -> [Idle EXCEPT !.op = "fail", !.at = 1]
    [] OTHER                      -> Idle

Onward(m) ==
  IF m.at < Len(Steps[m.op]) THEN [m EXCEPT !.at = @ + 1, !.first = "nothing"] ELSE Ended(m)

\* An error: the deferred unlock if the lock is held, and the end.
Stopped(m) ==
  IF Created(m) THEN [m EXCEPT !.at = Len(Steps[m.op]), !.error = TRUE, !.first = "nothing",
                               !.writing = FALSE]
  ELSE Ended([m EXCEPT !.error = TRUE])

Init ==
  /\ file = [n \in {"turns", "events"} |-> [lines |-> <<>>, tail |-> None]]
  /\ manifest = [current |-> 0, job |-> [turn |-> 1, status |-> "queued"]]
  /\ lock = None
  /\ proc = [p \in Procs |-> Idle]
  /\ acked = {} /\ overtaken = FALSE /\ bare = FALSE
  /\ faults = 0

Begin(p, op) ==
  /\ proc[p] = Idle
  /\ Does(p, [Idle EXCEPT !.op = op, !.at = 1])
  /\ UNCHANGED <<files, lock, history, faults>>

Working == \E p \in Procs : proc[p].op \in {"start", "apply", "fail"}

Waiting == manifest.job # None /\ manifest.job.status = "queued"

\* processOneGMJob: the one worker finds a queued job.
BeginWork(p) ==
  /\ ~Working /\ Waiting
  /\ Begin(p, "start")

\* The page offers one or the other; the state may be another when they come.
Offered ==
  (IF manifest.job = None THEN {"submit"} ELSE {})
    \cup (IF Failed(manifest) THEN {"resume", "cancel"} ELSE {})

BeginJob(p) == \E op \in Offered : Begin(p, op)

BeginOther(p) == \E op \in {"rollback", "recover", "export", "read"} : Begin(p, op)

----------------------------------------------------------------------------
(* The lock file *)

\* acquireLock and recoverStory read it; an empty one has no time in it.  (A
\* recovery that finds a fresh one ends here in the code, at the creation in the
\* model, unless the lock has been removed by then.)
LookLock(p) ==
  /\ At(p, "look")
  /\ Does(p, IF lock # None /\ lock.state = "stale"
             THEN [proc[p] EXCEPT !.first = "remove"] ELSE Onward(proc[p]))
  /\ UNCHANGED <<files, lock, history, faults>>

Living == lock # None /\ lock.by # None

\* os.Remove takes away whatever file there is by now.
RemoveLock(p) ==
  /\ First(p, "remove")
  /\ overtaken' = (overtaken \/ Living)
  /\ lock' = None
  /\ Does(p, Onward(proc[p]))
  /\ UNCHANGED <<files, acked, bare, faults>>

\* O_CREATE|O_EXCL, or "story is locked".
CreateLock(p) ==
  /\ At(p, "create")
  /\ IF lock = None
     THEN lock' = [by |-> p, state |-> "empty"] /\ Does(p, Onward(proc[p]))
     ELSE Does(p, Stopped(proc[p])) /\ UNCHANGED lock
  /\ UNCHANGED <<files, history, faults>>

\* The write goes to the file it has opened, even if another stands there now.
StampLock(p) ==
  /\ At(p, "stamp")
  /\ lock' = IF lock # None /\ lock.by = p THEN [lock EXCEPT !.state = "fresh"] ELSE lock
  /\ Does(p, Onward(proc[p]))
  /\ UNCHANGED <<files, history, faults>>

\* It removes whatever lock is there.
Unlock(p) ==
  /\ At(p, "unlock")
  /\ lock' = None
  /\ Does(p, Ended(proc[p]))
  /\ UNCHANGED <<files, history, faults>>

\* Mutant: a lock is kept for ever.
LockKept == FALSE

\* StoryLockTimeout has passed since acquired_at.
MayAge == lock # None /\ lock.state = "fresh"

AgeLock ==
  /\ MayAge
  /\ lock' = [lock EXCEPT !.state = "stale"]
  /\ UNCHANGED <<files, proc, history, faults>>

----------------------------------------------------------------------------
(* readStoryJSONL and its repair *)

\* Mutant: the line being written counts as lost together with the one before.
GoodBeforeLast(n) == IF n = 0 THEN 0 ELSE n - 1

\* All n lines before the one that does not parse are good.
LastGood(n) == n

\* A whole last line without a newline is read as good.
LinesRead(f) == IF f.tail # None /\ f.tail.whole THEN Append(f.lines, f.tail.rec) ELSE f.lines

Torn(f) == f.tail # None /\ ~f.tail.whole

\* The file of the step a process is at.
On(p) ==
  IF proc[p].first # "tell" /\ Steps[proc[p].op][proc[p].at] \in {"scan", "append"}
  THEN "turns" ELSE "events"

\* buildGMRequest and resumeFailedJob take what they get.
Unreadable(m) == IF m.op \in {"apply", "resume"} THEN Onward(m) ELSE Stopped(m)

\* For BundleHasCurrentTurn: the turn, if no rollback has taken it.
Standing(turn) == IF turn \in acked THEN turn ELSE 0

Scan(p) ==
  /\ At(p, "scan") \/ At(p, "scan_events")
  /\ LET f == file[On(p)]
         op == proc[p].op
         read == [proc[p] EXCEPT
                    !.lines = IF op \in {"submit", "rollback", "export"} THEN LinesRead(f) ELSE <<>>,
                    !.turn = IF op = "export" THEN Standing(@) ELSE @]
     IN Does(p, IF Damaged(f) THEN Unreadable(proc[p])
                ELSE IF Torn(f) THEN [read EXCEPT !.first = "cut", !.seen = Len(f.lines)]
                ELSE Onward(read))
  /\ UNCHANGED <<files, lock, history, faults>>

\* Somebody else is in the middle of an append to the file.
InUse(p, name) == \E q \in Procs \ {p} : proc[q].writing /\ On(q) = name

\* truncateStoryJSONL, at an offset found earlier.  A file that has become
\* shorter is filled up with zeros.
Cut(p) ==
  /\ First(p, "cut") /\ ~InUse(p, On(p))
  /\ LET f == file[On(p)]
         good == LastGood(proc[p].seen)
     IN /\ overtaken' = (overtaken \/ proc[p].seen # Len(f.lines))
        /\ file' = [file EXCEPT ![On(p)] =
             [lines |-> IF good < Len(f.lines) THEN SubSeq(f.lines, 1, good) ELSE f.lines,
              tail  |-> IF good > Len(f.lines) THEN [rec |-> Bad, whole |-> FALSE] ELSE None]]
  /\ Does(p, [proc[p] EXCEPT !.first = "tell", !.seen = 0])
  /\ UNCHANGED <<manifest, lock, acked, bare, faults>>

----------------------------------------------------------------------------
(* appendJSONL and writeAtomic *)

Rec(p) == IF On(p) = "turns" THEN proc[p].turn ELSE 0

Appends(p) == At(p, "append") \/ At(p, "note") \/ First(p, "tell")
MayAppend(p) == Appends(p) /\ ~proc[p].writing /\ ~InUse(p, On(p))

AppendLine(p) ==
  /\ MayAppend(p)
  /\ file' = [file EXCEPT ![On(p)] = WithLine(@, On(p), Joined(@, Rec(p)))]
  /\ Does(p, Onward(proc[p]))
  /\ UNCHANGED <<manifest, lock, history, faults>>

\* All but the end of the line, or all but its newline, is in the file.
AppendPart(p) ==
  /\ MayAppend(p)
  /\ \E whole \in BOOLEAN :
       file' = [file EXCEPT ![On(p)].tail =
         [rec |-> Joined(file[On(p)], Rec(p)), whole |-> whole /\ file[On(p)].tail = None]]
  /\ Does(p, [proc[p] EXCEPT !.writing = TRUE])
  /\ UNCHANGED <<manifest, lock, history, faults>>

\* If the file was replaced meanwhile, the rest goes to the old one.
AppendRest(p) ==
  /\ proc[p].writing
  /\ file' = [file EXCEPT ![On(p)] =
       IF @.tail = None THEN @ ELSE WithLine(@, On(p), @.tail.rec)]
  /\ Does(p, [Onward(proc[p]) EXCEPT !.writing = FALSE])
  /\ UNCHANGED <<manifest, lock, history, faults>>

\* rollbackStoryToTurn, and editCurrentTurn with the last turn kept.  The lines
\* get another length: a reader that is to cut the file has overtaken it.
Rewrite(p) ==
  /\ At(p, "rewrite")
  /\ \E t \in Turns : LET read == proc[p].lines IN
       \/ /\ t \notin ToSet(read)
          /\ Does(p, Stopped(proc[p]))
          /\ UNCHANGED <<file, acked, overtaken>>
       \/ \E i \in DOMAIN read :
            /\ read[i] = t /\ \A k \in 1..(i - 1) : read[k] # t
            /\ file' = [file EXCEPT !["turns"] = [lines |-> SubSeq(read, 1, i), tail |-> None]]
            /\ overtaken' = (overtaken \/ \E q \in Procs : First(q, "cut") /\ On(q) = "turns")
            /\ acked' = acked \cap 1..t
            /\ Does(p, [Onward(proc[p]) EXCEPT !.turn = t, !.lines = <<>>])
  /\ UNCHANGED <<manifest, lock, bare, faults>>

\* Mutant: two turns further.
SkipsTurn(lines) == Last(lines) + 2

\* The turn a job is given.
NextTurn(lines) == Last(lines) + 1

\* What each operation makes of the manifest it reads: a rollback and an export
\* are refused while a job is active, a submission while one is not canceled,
\* a resume and a cancel without a failed one.
ReadManifest(p) ==
  LET m == proc[p]
      read == [Onward(m) EXCEPT !.manifest = manifest]
      goes ==
        CASE m.op \in {"start", "apply"}     -> Blocked(manifest)
          [] m.op = "submit"                 -> manifest.job = None /\ m.lines # <<>>
                                                /\ Last(m.lines) < MaxTurns
          [] m.op \in {"resume", "cancel"}   -> Failed(manifest)
          [] m.op \in {"rollback", "export"} -> ~Blocked(manifest)
      turn ==
        CASE m.op = "submit"              -> NextTurn(m.lines)
          [] m.op \in {"start", "resume"} -> manifest.job.turn
          [] m.op = "export"              -> manifest.current
          [] OTHER                        -> m.turn
  IN /\ At(p, "manifest")
     /\ Does(p, IF goes THEN [read EXCEPT !.turn = turn, !.lines = <<>>] ELSE Stopped(m))
     /\ UNCHANGED <<files, lock, history, faults>>

\* The job file says running.
Start(p) ==
  /\ At(p, "start")
  /\ manifest' = IF manifest.job = proc[p].manifest.job
                 THEN [manifest EXCEPT !.job.status = "running"] ELSE manifest
  /\ Does(p, Onward(proc[p]))
  /\ UNCHANGED <<file, lock, history, faults>>

\* manifest.json is written as it was read, but for what the operation changes.
WriteManifest(p) ==
  /\ \/ /\ At(p, "publish")
        /\ manifest' = [current |-> proc[p].turn,
                        job |-> IF proc[p].op = "apply" THEN None ELSE proc[p].manifest.job]
        /\ acked' = IF proc[p].op = "apply" THEN acked \cup {proc[p].turn} ELSE acked
     \/ /\ At(p, "queue")
        /\ manifest' = [proc[p].manifest EXCEPT !.job = [turn |-> proc[p].turn, status |-> "queued"]]
        /\ UNCHANGED acked
     \/ /\ At(p, "clear")
        /\ manifest' = [proc[p].manifest EXCEPT !.job = None]
        /\ UNCHANGED acked
     \/ /\ At(p, "fail")
        /\ manifest' = IF Blocked(manifest) THEN [manifest EXCEPT !.job.status = "failed"] ELSE manifest
        /\ UNCHANGED acked
  /\ Does(p, [Onward(proc[p]) EXCEPT !.manifest = None])
  /\ UNCHANGED <<file, lock, overtaken, bare, faults>>

WriteBundle(p) ==
  /\ At(p, "bundle")
  /\ Does(p, [Onward(proc[p]) EXCEPT !.lines = <<>>, !.manifest = None])
  /\ UNCHANGED <<files, lock, history, faults>>

----------------------------------------------------------------------------
(* Failures *)

\* provider.Generate returns an error.
GenerationFails(p) ==
  /\ proc[p].op = "apply" /\ At(p, "look")
  /\ Does(p, Ended([proc[p] EXCEPT !.error = TRUE]))
  /\ UNCHANGED <<files, lock, history, faults>>

\* An append to turns.jsonl ends just before its newline.
EndsShort(p) ==
  proc[p].writing /\ On(p) = "turns" /\ file["turns"].tail # None /\ file["turns"].tail.whole

\* The disk is full.
WriteFails(p) ==
  /\ proc[p].writing \/ \E s \in {"start", "rewrite", "publish", "queue", "clear"} : At(p, s)
  /\ faults < MaxFaults
  /\ faults' = faults + 1
  /\ bare' = (bare \/ EndsShort(p))
  /\ Does(p, IF proc[p].first = "tell" THEN Unreadable([proc[p] EXCEPT !.writing = FALSE])
             ELSE Stopped(proc[p]))
  /\ UNCHANGED <<files, lock, acked, overtaken>>

\* Everything but the files is gone.
Die(p) ==
  /\ proc[p] # Idle /\ faults < MaxFaults
  /\ faults' = faults + 1
  /\ bare' = (bare \/ EndsShort(p))
  /\ lock' = IF lock # None /\ lock.by = p THEN [lock EXCEPT !.by = None] ELSE lock
  /\ Does(p, Idle)
  /\ UNCHANGED <<files, acked, overtaken>>

----------------------------------------------------------------------------

Step(p) ==
  \/ LookLock(p) \/ RemoveLock(p) \/ CreateLock(p) \/ StampLock(p) \/ Unlock(p)
  \/ Scan(p) \/ Cut(p)
  \/ AppendLine(p) \/ AppendPart(p) \/ AppendRest(p)
  \/ Rewrite(p) \/ ReadManifest(p) \/ Start(p) \/ WriteManifest(p) \/ WriteBundle(p)

Next ==
  \/ AgeLock
  \/ \E p \in Procs :
       \/ BeginWork(p) \/ BeginJob(p) \/ BeginOther(p)
       \/ Step(p) \/ GenerationFails(p) \/ WriteFails(p) \/ Die(p)

\* A process that runs goes on, time passes, and the worker ticks again.
Fairness ==
  /\ WF_vars(AgeLock)
  /\ \A p \in Procs : WF_vars(Step(p))
  /\ SF_vars(\E p \in Procs : BeginWork(p))

Spec == Init /\ [][Next]_vars /\ Fairness

----------------------------------------------------------------------------
(* Properties *)

Process ==
  [op : Ops \cup {"none"}, at : Nat, first : {"nothing", "remove", "cut", "tell"},
   writing : BOOLEAN, error : BOOLEAN, turn : 0..MaxTurns,
   manifest : Manifest \cup {None}, lines : Seq(Turns), seen : Nat]

TypeOK ==
  /\ file \in [{"turns", "events"} -> File]
  /\ manifest \in Manifest
  /\ lock \in LockFile \cup {None}
  /\ proc \in [Procs -> Process]
  /\ acked \subseteq Turns /\ overtaken \in BOOLEAN /\ bare \in BOOLEAN
  /\ faults \in 0..MaxFaults

InOrder(lines) == \A i, k \in DOMAIN lines : i < k => lines[i] <= lines[k]

\* A turn the manifest has named stays in turns.jsonl, and the file stays
\* readable and in order, through deaths, full disks, retries and repairs - as
\* long as no process acts on a file another has changed since, and no append
\* ends just before its newline (readStoryJSONL, appendJSONL and the lock
\* together).
TurnsSurvive ==
  LET lines == file["turns"].lines IN
  overtaken \/ bare \/ (Bad \notin ToSet(lines) /\ InOrder(lines) /\ acked \subseteq ToSet(lines))

\* When recoverStory reports, turns.jsonl is read to its end and ends with a
\* newline, whatever the deaths before it have left: the report is true of
\* the file, not only of what was read.
RecoveryRepairs ==
  [][\A p \in Procs :
       proc[p].op = "recover" /\ At(p, "note") /\ At(p, "unlock")' /\ ~proc'[p].error
         => overtaken' \/ bare' \/ (file'["turns"].tail = None /\ ~Damaged(file'["turns"]))]_vars

\* A bundle holds the turn its manifest calls the current one, though export
\* takes no lock: the turn is in the file before the manifest names it.  Only
\* a rollback takes it away.
BundleHasCurrentTurn ==
  \A p \in Procs :
    At(p, "bundle") => overtaken \/ bare \/ proc[p].turn \in {0} \cup ToSet(proc[p].lines)

\* A lock that a dead process has left, with the time it was taken in it, goes
\* as long as a job waits for the worker: StoryLockTimeout passes, and the next
\* acquireLock removes it.  A lock file left empty stays for ever.
DeadLockGoes ==
  (lock # None /\ lock.by = None /\ lock.state # "empty" /\ Waiting)
    ~> (lock = None \/ lock.by # None \/ ~Waiting)
=============================================================================
