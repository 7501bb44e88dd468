----------------------------- MODULE WorldWrite -----------------------------
(***************************************************************************)
(* The write commands of world-tool on one world: drafts, diffs, approval  *)
(* attestations, the accept transaction and its recovery, the lock file    *)
(* runs/.lock (src/internal/harness/cli, world/lock.go), and the Telegram  *)
(* bot, that writes drafts too.                                            *)
(*                                                                         *)
(* Every command is a process of its own.  It looks for an unresolved      *)
(* recovery, takes the lock, works, removes the lock and ends.  A command  *)
(* is cut into the steps between which another process, a failing file     *)
(* operation or the death of the process can be noticed.                   *)
(*                                                                         *)
(* A text is named by the run that wrote it: each write puts its own run   *)
(* id into the front matter, so equal hashes mean the same run.  The diff  *)
(* run id is left out, because accept compares it with nothing but the     *)
(* attestation.  --draft is a path under drafts/.                          *)
(***************************************************************************)
EXTENDS Naturals

CONSTANTS
  Ids,          \* ids of documents, one path in drafts/ and content/ each
  Procs,        \* processes that run one command after the other
  Runs,         \* bound: the run ids there are
  NoRun,        \* the text a document came with
  None,         \* no document: the base hash "none"
  MaxTelegram,  \* bound: how many drafts the bot writes
  MaxErrors,    \* bound: how often archiving fails
  MaxCrashes    \* bound: how many processes die

ASSUME WorldAssumption ==
  /\ NoRun \notin Runs
  /\ None \notin Runs \cup {NoRun}
  /\ MaxTelegram \in Nat
  /\ MaxErrors \in Nat
  /\ MaxCrashes \in Nat

VARIABLES
  canon,      \* content/<id>.md
  draft,      \* drafts/<id>.md
  archive,    \* archive/accepted and archive/rejected
  diffs,      \* the results of draft diff
  atts,       \* runs/inbox/*-approval-attestation.json
  recovery,   \* runs/<run>/recovery.json
  lock,       \* runs/.lock: "free", "held", or "leaked" by a dead process
  pc,         \* where each process is in its command
  cmd,        \* the command and its arguments
  doc,        \* the draft it has read
  rid,        \* the run of an accept
  usedRuns,   \* the run ids given out
  published,  \* history: every write of accept to content/
  telegrams, errors, crashes   \* counters of the bounds

files == <<canon, draft, archive, diffs, atts, recovery>>
procVars == <<lock, pc, cmd, doc, rid>>
bounds == <<telegrams, errors, crashes>>
vars == <<files, procVars, usedRuns, published, bounds>>

----------------------------------------------------------------------------
(* The files *)

Texts == Runs \cup {NoRun}
Bases == Texts \cup {None}

Changes == {"create", "update", "deprecate"}

\* sound: whether validateDocument finds neither an error nor a conflict.
Draft == [run: Runs, change: Changes, sound: BOOLEAN]

\* body is the draft the text came from.
CanonDoc == [run: Texts, body: Texts, status: {"canon", "deprecated"}]

\* What a person has seen, and what is approved.
Diff == [id: Ids, draft: Runs, base: Bases]
Approval == [id: Ids, draft: Runs, base: Bases, force: BOOLEAN]

Archived == [run: Runs, kind: {"accepted", "rejected"}, id: Ids, draft: Draft]

Recovery == [id: Ids, draft: Runs, resolved: BOOLEAN]

\* The hash of the document an approval is for, "none" if there is none.
BaseOf(i) == IF canon[i] = None THEN None ELSE canon[i].run

Unresolved == {r \in Runs : recovery[r] # None /\ ~recovery[r].resolved}

----------------------------------------------------------------------------
(* Commands *)

Commands ==
       [op: {"create"}, id: Ids, change: Changes]
  \cup [op: {"update", "reject", "diff"}, id: Ids]
  \cup [op: {"attest"}, diff: Diff, force: BOOLEAN]
  \cup [op: {"accept"}, att: Approval]
  \cup [op: {"recover"}, run: Runs]

ASSUME NoneAssumption == None \notin CanonDoc \cup Draft \cup Recovery \cup Commands

\* What somebody at the command line can ask for: to approve what a diff
\* has shown, to accept with an attestation there is, to recover a run that
\* is known to be incomplete.
Askable ==
  {c \in Commands : /\ c.op = "attest" => c.diff \in diffs
                    /\ c.op = "accept" => c.att \in atts
                    /\ c.op = "recover" => recovery[c.run] # None}

Goto(p, place) == pc' = [pc EXCEPT ![p] = place]

\* The process is gone with all it knew.
End(p) ==
  /\ Goto(p, "idle")
  /\ cmd' = [cmd EXCEPT ![p] = None]
  /\ doc' = [doc EXCEPT ![p] = None]
  /\ rid' = [rid EXCEPT ![p] = NoRun]

\* withWorld: only run.recover passes while a recovery is unresolved.
PassesGate(c) == c.op = "recover" \/ Unresolved = {}

Begin(p) ==
  /\ pc[p] = "idle"
  /\ \E c \in Askable : PassesGate(c) /\ cmd' = [cmd EXCEPT ![p] = c]
  /\ Goto(p, "gated")
  /\ UNCHANGED <<files, lock, doc, rid, usedRuns, published, bounds>>

\* Mutant: the file is created whether it is there or not.
LockTaken == TRUE

\* O_CREATE|O_EXCL succeeds.
LockFree == lock = "free"

AcquireWorldLock(p) ==
  /\ pc[p] = "gated"
  /\ LockFree
  /\ lock' = "held"
  /\ Goto(p, "locked")
  /\ UNCHANGED <<files, cmd, doc, rid, usedRuns, published, bounds>>

\* LOCK_BUSY
LockBusy(p) ==
  /\ pc[p] = "gated"
  /\ ~LockFree
  /\ End(p)
  /\ UNCHANGED <<files, lock, usedRuns, published, bounds>>

\* The deferred unlock, after whatever the command has come to.
Unlock(p) ==
  /\ pc[p] = "closing"
  /\ lock' = "free"
  /\ End(p)
  /\ UNCHANGED <<files, usedRuns, published, bounds>>

\* A check says no, an attestation has expired, a file operation fails
\* before anything is written.
CommandFails(p) ==
  /\ pc[p] \in {"locked", "ready"}
  /\ Goto(p, "closing")
  /\ UNCHANGED <<files, lock, cmd, doc, rid, usedRuns, published, bounds>>

\* Command p is op and has got to place.
At(p, op, place) == pc[p] = place /\ cmd[p].op = op

Fresh == Runs \ usedRuns

----------------------------------------------------------------------------
(* draft create, update, reject, diff; approval attest *)

\* A create wants a new id; for update and deprecate a draft that is there
\* is overwritten.
CreateChecked(p) ==
  LET i == cmd[p].id IN
  /\ At(p, "create", "locked")
  /\ IF cmd[p].change = "create" THEN canon[i] = None /\ draft[i] = None
                                 ELSE canon[i] # None
  /\ Goto(p, "ready")
  /\ UNCHANGED <<files, lock, cmd, doc, rid, usedRuns, published, bounds>>

CreateWritten(p) ==
  /\ At(p, "create", "ready")
  /\ \E r \in Fresh, s \in BOOLEAN :
       /\ draft' = [draft EXCEPT ![cmd[p].id] =
                      [run |-> r, change |-> cmd[p].change, sound |-> s]]
       /\ usedRuns' = usedRuns \cup {r}
  /\ Goto(p, "closing")
  /\ UNCHANGED <<canon, archive, diffs, atts, recovery, lock, cmd, doc,
                 rid, published, bounds>>

UpdateRead(p) ==
  /\ At(p, "update", "locked")
  /\ draft[cmd[p].id] # None
  /\ doc' = [doc EXCEPT ![p] = draft[cmd[p].id]]
  /\ Goto(p, "ready")
  /\ UNCHANGED <<files, lock, cmd, rid, usedRuns, published, bounds>>

\* The front matter that was read, with the new body.
UpdateWritten(p) ==
  /\ At(p, "update", "ready")
  /\ \E r \in Fresh, s \in BOOLEAN :
       /\ draft' = [draft EXCEPT ![cmd[p].id] =
                      [doc[p] EXCEPT !.run = r, !.sound = s]]
       /\ usedRuns' = usedRuns \cup {r}
  /\ Goto(p, "closing")
  /\ UNCHANGED <<canon, archive, diffs, atts, recovery, lock, cmd, doc,
                 rid, published, bounds>>

DraftRejected(p) ==
  LET i == cmd[p].id IN
  /\ At(p, "reject", "locked")
  /\ draft[i] # None
  /\ \E r \in Fresh :
       /\ archive' = archive \cup {[run |-> r, kind |-> "rejected",
                                    id |-> i, draft |-> draft[i]]}
       /\ usedRuns' = usedRuns \cup {r}
  /\ draft' = [draft EXCEPT ![i] = None]
  /\ Goto(p, "closing")
  /\ UNCHANGED <<canon, diffs, atts, recovery, lock, cmd, doc, rid,
                 published, bounds>>

\* targetForDraft: a create has no target yet, the others have one.
HasTarget(d, i) ==
  IF d.change = "create" THEN canon[i] = None ELSE canon[i] # None

DraftDiffed(p) ==
  LET i == cmd[p].id IN
  /\ At(p, "diff", "locked")
  /\ draft[i] # None
  /\ HasTarget(draft[i], i)
  /\ diffs' = diffs \cup {[id |-> i, draft |-> draft[i].run,
                           base |-> BaseOf(i)]}
  /\ Goto(p, "closing")
  /\ UNCHANGED <<canon, draft, archive, atts, recovery, lock, cmd, doc,
                 rid, usedRuns, published, bounds>>

\* Nothing in drafts/ or content/ is looked at.
Attested(p) ==
  LET d == cmd[p].diff IN
  /\ At(p, "attest", "locked")
  /\ atts' = atts \cup {[id |-> d.id, draft |-> d.draft, base |-> d.base,
                         force |-> cmd[p].force]}
  /\ Goto(p, "closing")
  /\ UNCHANGED <<canon, draft, archive, diffs, recovery, lock, cmd, doc,
                 rid, usedRuns, published, bounds>>

----------------------------------------------------------------------------
(* draft accept *)

\* Mutant: the target is not compared with the one that was approved.
BoundToDraftOnly(a) ==
  /\ draft[a.id] # None
  /\ draft[a.id].run = a.draft
  /\ draft[a.id].sound \/ a.force

\* Mutant: the draft is not compared with the one that was approved.
BoundToTargetOnly(a) ==
  /\ draft[a.id] # None
  /\ HasTarget(draft[a.id], a.id)
  /\ BaseOf(a.id) = a.base
  /\ draft[a.id].sound \/ a.force

\* Draft and target are still what was approved.
Bound(a) ==
  /\ draft[a.id] # None
  /\ HasTarget(draft[a.id], a.id)
  /\ draft[a.id].run = a.draft
  /\ BaseOf(a.id) = a.base
  /\ draft[a.id].sound \/ a.force

AcceptChecked(p) ==
  LET a == cmd[p].att IN
  /\ At(p, "accept", "locked")
  /\ Bound(a)
  /\ doc' = [doc EXCEPT ![p] = draft[a.id]]
  /\ \E r \in Fresh : /\ rid' = [rid EXCEPT ![p] = r]
                      /\ usedRuns' = usedRuns \cup {r}
  /\ Goto(p, "ready")
  /\ UNCHANGED <<files, lock, cmd, published, bounds>>

\* Mutant: the status of the draft is kept.
StatusNotSet(d, i, r) ==
  [run |-> r, body |-> IF d.change = "deprecate" THEN canon[i].body ELSE d.run,
   status |-> "draft"]

\* acceptedContent: a deprecation keeps the text of its target.
AcceptedContent(d, i, r) ==
  IF d.change = "deprecate"
  THEN [run |-> r, body |-> canon[i].body, status |-> "deprecated"]
  ELSE [run |-> r, body |-> d.run, status |-> "canon"]

AcceptWritten(p) ==
  LET a == cmd[p].att IN
  /\ At(p, "accept", "ready")
  /\ canon' = [canon EXCEPT ![a.id] = AcceptedContent(doc[p], a.id, rid[p])]
  /\ published' = published \cup {[run |-> rid[p], att |-> a]}
  /\ Goto(p, "written")
  /\ UNCHANGED <<draft, archive, diffs, atts, recovery, lock, cmd, doc, rid,
                 usedRuns, bounds>>

\* What is at path drafts/<i>.md now goes to archive/accepted/.
MoveToAccepted(i, r) ==
  /\ draft[i] # None
  /\ archive' = archive \cup {[run |-> r, kind |-> "accepted",
                               id |-> i, draft |-> draft[i]]}
  /\ draft' = [draft EXCEPT ![i] = None]

\* Mutant: the draft is archived before the content is written.
ArchivedFirst(p) ==
  /\ pc[p] \in {"ready", "written"} /\ cmd[p].op = "accept"
  /\ MoveToAccepted(cmd[p].att.id, rid[p])
  /\ Goto(p, "closing")
  /\ UNCHANGED <<canon, diffs, atts, recovery, lock, cmd, doc, rid, usedRuns,
                 published, bounds>>

\* result.json, written last, is read by nobody.
AcceptArchived(p) ==
  /\ At(p, "accept", "written")
  /\ MoveToAccepted(cmd[p].att.id, rid[p])
  /\ Goto(p, "closing")
  /\ UNCHANGED <<canon, diffs, atts, recovery, lock, cmd, doc, rid, usedRuns,
                 published, bounds>>

\* ensureDir of archive/accepted fails: IO_ERROR, and nothing is recorded.
\* Nor is it when the rename fails and recovery.json cannot be written.
ArchiveDirFails(p) ==
  /\ At(p, "accept", "written")
  /\ errors < MaxErrors
  /\ errors' = errors + 1
  /\ Goto(p, "closing")
  /\ UNCHANGED <<files, lock, cmd, doc, rid, usedRuns, published, telegrams, crashes>>

\* The rename fails: createAcceptRecovery.
ArchiveRenameFails(p) ==
  LET a == cmd[p].att IN
  /\ At(p, "accept", "written")
  /\ errors < MaxErrors
  /\ errors' = errors + 1
  /\ recovery' = [recovery EXCEPT ![rid[p]] =
                    [id |-> a.id, draft |-> a.draft, resolved |-> FALSE]]
  /\ Goto(p, "closing")
  /\ UNCHANGED <<canon, draft, archive, diffs, atts, lock, cmd, doc, rid, usedRuns,
                 published, telegrams, crashes>>

----------------------------------------------------------------------------
(* run recover *)

\* Mutant: the rest of the transaction is left undone.
NothingLeftToDo(r) == UNCHANGED <<draft, archive>>

\* The archive path of run r is there.
ArchivedBy(r) == \E e \in archive : e.kind = "accepted" /\ e.run = r

\* What archiving has left undone; the hash of the draft is not looked at.
RestOfAccept(r) ==
  LET i == recovery[r].id IN
  IF ArchivedBy(r) \/ draft[i] = None THEN UNCHANGED <<draft, archive>>
                                      ELSE MoveToAccepted(i, r)

RecoverArchived(p) ==
  /\ At(p, "recover", "locked")
  /\ cmd[p].run \in Unresolved
  /\ RestOfAccept(cmd[p].run)
  /\ Goto(p, "ready")
  /\ UNCHANGED <<canon, diffs, atts, recovery, lock, cmd, doc, rid, usedRuns,
                 published, bounds>>

RecoverResolved(p) ==
  /\ At(p, "recover", "ready")
  /\ recovery' = [recovery EXCEPT ![cmd[p].run].resolved = TRUE]
  /\ Goto(p, "closing")
  /\ UNCHANGED <<canon, draft, archive, diffs, atts, lock, cmd, doc, rid, usedRuns,
                 published, bounds>>

----------------------------------------------------------------------------
(* Around the commands *)

\* /draft of the bot: no gate, no lock, no look at what is there.
TelegramDraft ==
  /\ telegrams < MaxTelegram
  /\ telegrams' = telegrams + 1
  /\ \E i \in Ids, r \in Fresh, s \in BOOLEAN :
       /\ draft' = [draft EXCEPT ![i] =
                      [run |-> r, change |-> "create", sound |-> s]]
       /\ usedRuns' = usedRuns \cup {r}
  /\ UNCHANGED <<canon, archive, diffs, atts, recovery, procVars, published,
                 errors, crashes>>

\* The process dies, and the lock file stays if it had made one.
Crash(p) ==
  /\ pc[p] # "idle"
  /\ crashes < MaxCrashes
  /\ crashes' = crashes + 1
  /\ lock' = IF pc[p] = "gated" THEN lock ELSE "leaked"
  /\ End(p)
  /\ UNCHANGED <<files, usedRuns, published, telegrams, errors>>

\* No command does it: somebody removes runs/.lock by hand.
OperatorRemovesLock ==
  /\ lock = "leaked"
  /\ lock' = "free"
  /\ UNCHANGED <<files, pc, cmd, doc, rid, usedRuns, published, bounds>>

----------------------------------------------------------------------------
\* Any documents, no drafts.
Init ==
  /\ canon \in [Ids -> {None, [run |-> NoRun, body |-> NoRun, status |-> "canon"]}]
  /\ draft = [i \in Ids |-> None]
  /\ archive = {} /\ diffs = {} /\ atts = {}
  /\ recovery = [r \in Runs |-> None]
  /\ lock = "free"
  /\ pc = [p \in Procs |-> "idle"]
  /\ cmd = [p \in Procs |-> None]
  /\ doc = [p \in Procs |-> None]
  /\ rid = [p \in Procs |-> NoRun]
  /\ usedRuns = {}
  /\ published = {}
  /\ telegrams = 0 /\ errors = 0 /\ crashes = 0

AcceptStep(p) ==
  \/ AcceptChecked(p) \/ AcceptWritten(p) \/ AcceptArchived(p)
  \/ ArchiveDirFails(p) \/ ArchiveRenameFails(p)

CommandStep(p) ==
  \/ AcquireWorldLock(p) \/ LockBusy(p) \/ CommandFails(p) \/ Unlock(p)
  \/ CreateChecked(p) \/ CreateWritten(p) \/ UpdateRead(p) \/ UpdateWritten(p)
  \/ DraftRejected(p) \/ DraftDiffed(p) \/ Attested(p)
  \/ AcceptStep(p) \/ RecoverArchived(p) \/ RecoverResolved(p)

Next ==
  \/ \E p \in Procs : Begin(p) \/ CommandStep(p) \/ Crash(p)
  \/ TelegramDraft \/ OperatorRemovesLock

Spec == Init /\ [][Next]_vars

----------------------------------------------------------------------------
(* Properties *)

InSection(p) == pc[p] \in {"locked", "ready", "written", "closing"}

TypeOK ==
  /\ canon \in [Ids -> CanonDoc \cup {None}]
  /\ draft \in [Ids -> Draft \cup {None}]
  /\ archive \subseteq Archived
  /\ diffs \subseteq Diff
  /\ atts \subseteq Approval
  /\ recovery \in [Runs -> Recovery \cup {None}]
  /\ lock \in {"free", "held", "leaked"}
  /\ pc \in [Procs -> {"idle", "gated", "locked", "ready", "written", "closing"}]
  /\ cmd \in [Procs -> Commands \cup {None}]
  /\ doc \in [Procs -> Draft \cup {None}]
  /\ rid \in [Procs -> Texts]
  /\ usedRuns \subseteq Runs
  /\ published \subseteq [run: Runs, att: Approval]
  /\ telegrams \in 0..MaxTelegram
  /\ errors \in 0..MaxErrors
  /\ crashes \in 0..MaxCrashes

\* One command at a time is between lock and unlock, and none while the
\* file of a dead one is there.
OneWriter ==
  \A p, q \in Procs :
    /\ InSection(p) => lock = "held"
    /\ InSection(p) /\ InSection(q) => p = q

\* A document changes only into what an attestation approves, and only from
\* the text the approver has seen: not when the draft or the document has
\* been changed, accepted or rejected since, however long ago the approval
\* was given.  A draft with errors needs an approval to force it.
CanonOnlyApproved ==
  [][\A i \in Ids :
       canon'[i] # canon[i] =>
         \E a \in atts, p \in Procs :
           /\ a.id = i /\ a.base = BaseOf(i)
           /\ doc[p] # None /\ a.draft = doc[p].run
           /\ doc[p].sound \/ a.force
           /\ canon'[i] = AcceptedContent(doc[p], i, rid[p])]_vars

\* An attestation is good for one write.  Nothing marks it as used: it is
\* the document it is bound to that is gone.
AttestationUsedOnce ==
  \A e, f \in published : e.att = f.att => e = f

\* A draft in archive/accepted belongs to a write of the content that has
\* been made, by the run in its name.
AcceptedIsPublished ==
  \A e \in archive : e.kind = "accepted" =>
    \E f \in published : f.run = e.run /\ f.att.id = e.id

\* The draft that run r has published is not in drafts/.
Gone(r) ==
  LET d == draft[recovery[r].id] IN d = None \/ d.run # recovery[r].draft

\* A recovery that is resolved has left nothing behind: the draft that was
\* published is not an active draft any more, whoever wrote, rejected or
\* accepted drafts in between.
ResolvedIsDone ==
  \A r \in Runs :
    recovery[r] # None /\ recovery[r].resolved => Gone(r)

----------------------------------------------------------------------------
(* What the properties rest on: the inductive invariant *)

\* Which commands are under way, and that what they name is there.
CommandsKnown ==
  \A p \in Procs : pc[p] # "idle" =>
    /\ cmd[p] # None
    /\ cmd[p] \in Askable

\* Every run id in a file was given out.
RunsKnown ==
  /\ \A i \in Ids : canon[i] # None => canon[i].run \in usedRuns \cup {NoRun}
  /\ \A i \in Ids : draft[i] # None => draft[i].run \in usedRuns
  /\ \A a \in diffs \cup atts :
       a.draft \in usedRuns /\ a.base \in usedRuns \cup {NoRun, None}
  /\ \A e \in archive : e.run \in usedRuns
  /\ \A e \in published : e.run \in usedRuns /\ e.att \in atts

\* Run r has been given out and nothing is done under it.
Unspent(r) ==
  /\ r \in usedRuns
  /\ \A i \in Ids : BaseOf(i) # r
  /\ \A a \in diffs \cup atts : a.base # r
  /\ \A e \in published : e.run # r
  /\ ~ArchivedBy(r)

\* An update has read a draft.
UpdateHasRead == \A p \in Procs : At(p, "update", "ready") => doc[p] # None

\* An accept that has passed its checks still writes what was approved.
ReadyToPublish ==
  \A p \in Procs : At(p, "accept", "ready") =>
    LET a == cmd[p].att IN
    /\ doc[p] # None
    /\ doc[p].run = a.draft
    /\ HasTarget(doc[p], a.id)
    /\ BaseOf(a.id) = a.base
    /\ doc[p].sound \/ a.force
    /\ Unspent(rid[p])

\* An accept that has written the content has neither archived the draft nor
\* been recorded.
HasPublished ==
  \A p \in Procs : pc[p] = "written" =>
    /\ cmd[p].op = "accept"
    /\ [run |-> rid[p], att |-> cmd[p].att] \in published
    /\ recovery[rid[p]] = None
    /\ ~ArchivedBy(rid[p])

\* No document is what a used attestation was given for, or ever will be.
NothingToReplay == \A e \in published : BaseOf(e.att.id) # e.att.base

\* What is recorded has been published.
RecoveryOfPublished ==
  \A r \in Runs : recovery[r] # None =>
    \E e \in published :
      e.run = r /\ e.att.id = recovery[r].id /\ e.att.draft = recovery[r].draft

\* Once its archive path is there, nothing is left of a recorded accept.
ArchivedIsGone ==
  /\ \A r \in Runs : recovery[r] # None /\ ArchivedBy(r) => Gone(r)
  /\ \A p \in Procs : At(p, "recover", "ready") => Gone(cmd[p].run)

WorldInv ==
  /\ TypeOK
  /\ OneWriter
  /\ CommandsKnown
  /\ RunsKnown
  /\ UpdateHasRead
  /\ ReadyToPublish
  /\ HasPublished
  /\ NothingToReplay
  /\ AttestationUsedOnce
  /\ AcceptedIsPublished
  /\ RecoveryOfPublished
  /\ ArchivedIsGone
  /\ ResolvedIsDone

----------------------------------------------------------------------------
(* The abstract specification *)

\* A version is the run that wrote it.
Canon ==
  INSTANCE CanonHistory
    WITH Versions <- Runs, Shipped <- NoRun, Texts <- Runs, Forced <- BOOLEAN,
         current <- [i \in Ids |-> BaseOf(i)],
         approved <- atts,
         spent <- {e.att : e \in published}

\* The commands do to the documents nothing but publish versions one after
\* the other, each with an approval for the one before it, not used yet.
WorldImplementsCanon == Canon!Spec

----------------------------------------------------------------------------
(* What the docs say and the code does not keep *)

\* No command but run recover works while a recovery is unresolved.  The
\* gate is passed before the lock is taken.
RecoveryBlocksWriters ==
  \A p \in Procs :
    pc[p] \in {"locked", "ready", "written"} /\ Unresolved # {}
      => cmd[p].op = "recover"

\* The draft that is archived as accepted is the draft that was accepted.
ArchivedIsAccepted ==
  \A e \in archive, f \in published :
    e.kind = "accepted" /\ e.run = f.run => e.draft.run = f.att.draft

\* A draft that has been published and is still there is on record to be
\* recovered, once the accept has ended.
PartialAcceptRecorded ==
  \A f \in published :
    LET i == f.att.id IN
    /\ draft[i] # None /\ draft[i].run = f.att.draft
    /\ \A p \in Procs : ~InSection(p)
    => recovery[f.run] # None

=============================================================================
