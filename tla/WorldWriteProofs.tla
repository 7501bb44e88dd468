-------------------------- MODULE WorldWriteProofs --------------------------
(***************************************************************************)
(* Theorems about WorldWrite for any number of documents, processes, runs, *)
(* Telegram drafts, failures of archiving and crashes.                     *)
(***************************************************************************)
EXTENDS WorldWrite, TLAPS

\* What the arguments of a command are.
LEMMA CommandFields ==
  ASSUME NEW c \in Commands
  PROVE  /\ c.op \in {"create", "update", "reject", "diff"} => c.id \in Ids
         /\ c.op = "create" => c.change \in Changes
         /\ c.op = "attest" => c.diff \in Diff /\ c.force \in BOOLEAN
         /\ c.op = "accept" => c.att \in Approval
         /\ c.op = "recover" => c.run \in Runs
BY DEF Commands

\* The same of the command of a process that is in it.
LEMMA CommandAt ==
  ASSUME TypeOK, CommandsKnown, NEW p \in Procs, pc[p] # "idle"
  PROVE  /\ cmd[p] \in Commands
         /\ cmd[p] \in Askable
         /\ cmd[p].op \in {"create", "update", "reject", "diff"} => cmd[p].id \in Ids
         /\ cmd[p].op = "create" => cmd[p].change \in Changes
         /\ cmd[p].op = "attest" =>
              cmd[p].diff \in Diff /\ cmd[p].diff \in diffs /\ cmd[p].force \in BOOLEAN
         /\ cmd[p].op = "accept" => cmd[p].att \in Approval /\ cmd[p].att \in atts
         /\ cmd[p].op = "recover" =>
              cmd[p].run \in Runs /\ recovery[cmd[p].run] \in Recovery
<1>1. cmd[p] \in Askable /\ cmd[p] \in Commands
    BY DEF CommandsKnown, Askable
<1>2. cmd[p].op = "recover" => recovery[cmd[p].run] # None
    BY <1>1 DEF Askable
<1>3. cmd[p].op = "recover" => recovery[cmd[p].run] \in Recovery
    BY <1>1, <1>2, CommandFields DEF TypeOK
<1> QED BY <1>1, <1>3, CommandFields DEF Askable

LEMMA InitTypeOK == Init => TypeOK
BY WorldAssumption DEF Init, TypeOK, CanonDoc, Texts

LEMMA EndTypes ==
  ASSUME TypeOK, NEW p \in Procs, End(p)
  PROVE  /\ pc' \in [Procs -> {"idle", "gated", "locked", "ready", "written", "closing"}]
         /\ cmd' \in [Procs -> Commands \cup {None}]
         /\ doc' \in [Procs -> Draft \cup {None}]
         /\ rid' \in [Procs -> Texts]
BY DEF TypeOK, End, Goto, Texts

\* A draft is archived as what it is.
LEMMA MoveTypes ==
  ASSUME TypeOK, NEW i \in Ids, NEW r \in Runs, MoveToAccepted(i, r)
  PROVE  /\ draft' \in [Ids -> Draft \cup {None}]
         /\ archive' \subseteq Archived
<1>1. draft[i] \in Draft
    BY DEF TypeOK, MoveToAccepted
<1>2. [run |-> r, kind |-> "accepted", id |-> i, draft |-> draft[i]] \in Archived
    BY <1>1 DEF Archived
<1> QED BY <1>2 DEF TypeOK, MoveToAccepted

\* An accept that has written the content has a run of its own.
LEMMA WrittenRun ==
  ASSUME TypeOK, HasPublished, NEW p \in Procs, pc[p] = "written"
  PROVE  rid[p] \in Runs
BY DEF TypeOK, HasPublished

LEMMA AcceptTypeOK ==
  ASSUME TypeOK, CommandsKnown, ReadyToPublish, HasPublished,
         NEW p \in Procs, AcceptStep(p)
  PROVE  TypeOK'
<1>a. /\ cmd[p].op = "accept"
      /\ cmd[p].att \in Approval
      /\ cmd[p].att.id \in Ids /\ cmd[p].att.draft \in Runs
    BY CommandAt DEF AcceptStep, AcceptChecked, AcceptWritten, AcceptArchived,
          ArchiveDirFails, ArchiveRenameFails, At, Approval
<1> DEFINE a == cmd[p].att
<1>1. ASSUME AcceptChecked(p) PROVE TypeOK'
  <2>1. draft[a.id] \in Draft
      BY <1>1, <1>a DEF AcceptChecked, Bound, TypeOK
  <2> QED BY <1>1, <1>a, <2>1
          DEF AcceptChecked, Goto, Fresh, Texts, TypeOK, files, bounds
<1>2. ASSUME AcceptWritten(p) PROVE TypeOK'
  <2>1. doc[p] \in Draft /\ HasTarget(doc[p], a.id) /\ rid[p] \in Runs
      BY <1>2, <1>a DEF AcceptWritten, ReadyToPublish, Unspent, TypeOK
  <2>2. AcceptedContent(doc[p], a.id, rid[p]) \in CanonDoc
    <3>1. doc[p].run \in Texts /\ rid[p] \in Texts
        BY <2>1 DEF Draft, Texts
    <3>2. CASE doc[p].change = "deprecate"
      <4>1. canon[a.id] \in CanonDoc
          BY <2>1, <3>2, <1>a DEF HasTarget, TypeOK
      <4> QED BY <3>1, <3>2, <4>1 DEF AcceptedContent, CanonDoc
    <3>3. CASE doc[p].change # "deprecate"
        BY <3>1, <3>3 DEF AcceptedContent, CanonDoc
    <3> QED BY <3>2, <3>3
  <2> QED BY <1>2, <1>a, <2>1, <2>2
          DEF AcceptWritten, At, Goto, TypeOK, bounds
<1>3. ASSUME AcceptArchived(p) PROVE TypeOK'
  <2>1. rid[p] \in Runs
      BY <1>3, WrittenRun DEF AcceptArchived, At
  <2> QED BY <1>3, <1>a, <2>1, MoveTypes
          DEF AcceptArchived, Goto, TypeOK, bounds
<1>4. ASSUME ArchiveDirFails(p) PROVE TypeOK'
    BY <1>4, WorldAssumption DEF ArchiveDirFails, Goto, TypeOK, files
<1>5. ASSUME ArchiveRenameFails(p) PROVE TypeOK'
  <2>1. [id |-> a.id, draft |-> a.draft, resolved |-> FALSE] \in Recovery
      BY <1>a DEF Recovery
  <2>2. recovery' \in [Runs -> Recovery \cup {None}]
      BY <1>5, <2>1 DEF ArchiveRenameFails, TypeOK
  <2> QED BY <1>5, <2>2, WorldAssumption DEF ArchiveRenameFails, Goto, TypeOK
<1> QED BY <1>1, <1>2, <1>3, <1>4, <1>5 DEF AcceptStep

LEMMA CommandTypeOK ==
  ASSUME WorldInv, NEW p \in Procs, CommandStep(p)
  PROVE  TypeOK'
<1>a. TypeOK /\ CommandsKnown /\ UpdateHasRead /\ ReadyToPublish /\ HasPublished
    BY DEF WorldInv
<1>1. ASSUME AcquireWorldLock(p) PROVE TypeOK'
    BY <1>1, <1>a DEF AcquireWorldLock, Goto, TypeOK, files, bounds
<1>2. ASSUME LockBusy(p) \/ Unlock(p) PROVE TypeOK'
    BY <1>2, <1>a, EndTypes DEF LockBusy, Unlock, TypeOK, files, bounds
<1>3. ASSUME CommandFails(p) \/ CreateChecked(p) PROVE TypeOK'
    BY <1>3, <1>a DEF CommandFails, CreateChecked, Goto, TypeOK, files, bounds
<1>4. ASSUME CreateWritten(p) PROVE TypeOK'
  <2>1. cmd[p].id \in Ids /\ cmd[p].change \in Changes
      BY <1>4, <1>a, CommandAt DEF CreateWritten, At
  <2>2. PICK r \in Fresh, b \in BOOLEAN :
          /\ draft' = [draft EXCEPT ![cmd[p].id] =
                         [run |-> r, change |-> cmd[p].change, sound |-> b]]
          /\ usedRuns' = usedRuns \cup {r}
      BY <1>4 DEF CreateWritten
  <2>3. [run |-> r, change |-> cmd[p].change, sound |-> b] \in Draft
      BY <2>1 DEF Draft, Fresh
  <2> QED BY <1>4, <1>a, <2>2, <2>3 DEF CreateWritten, Fresh, Goto, TypeOK, bounds
<1>5. ASSUME UpdateRead(p) PROVE TypeOK'
  <2>1. draft[cmd[p].id] \in Draft
      BY <1>5, <1>a, CommandAt DEF UpdateRead, At, TypeOK
  <2> QED BY <1>5, <1>a, <2>1 DEF UpdateRead, Goto, TypeOK, files, bounds
<1>6. ASSUME UpdateWritten(p) PROVE TypeOK'
  <2>1. cmd[p].id \in Ids /\ doc[p] \in Draft
      BY <1>6, <1>a, CommandAt DEF UpdateWritten, UpdateHasRead, At, TypeOK
  <2>2. PICK r \in Fresh, b \in BOOLEAN :
          /\ draft' = [draft EXCEPT ![cmd[p].id] =
                         [doc[p] EXCEPT !.run = r, !.sound = b]]
          /\ usedRuns' = usedRuns \cup {r}
      BY <1>6 DEF UpdateWritten
  <2>3. [doc[p] EXCEPT !.run = r, !.sound = b] \in Draft
      BY <2>1 DEF Draft, Fresh
  <2> QED BY <1>6, <1>a, <2>2, <2>3 DEF UpdateWritten, Fresh, Goto, TypeOK, bounds
<1>7. ASSUME DraftRejected(p) PROVE TypeOK'
  <2>1. cmd[p].id \in Ids /\ draft[cmd[p].id] \in Draft
      BY <1>7, <1>a, CommandAt DEF DraftRejected, At, TypeOK
  <2>2. ASSUME NEW r \in Fresh
        PROVE  [run |-> r, kind |-> "rejected", id |-> cmd[p].id,
                draft |-> draft[cmd[p].id]] \in Archived
      BY <2>1 DEF Archived, Fresh
  <2> QED BY <1>7, <1>a, <2>2 DEF DraftRejected, Fresh, Goto, TypeOK, bounds
<1>8. ASSUME DraftDiffed(p) PROVE TypeOK'
  <2>1. cmd[p].id \in Ids /\ draft[cmd[p].id] \in Draft
      BY <1>8, <1>a, CommandAt DEF DraftDiffed, At, TypeOK
  <2>2. BaseOf(cmd[p].id) \in Bases
      BY <2>1, <1>a DEF BaseOf, Bases, CanonDoc, TypeOK
  <2>3. [id |-> cmd[p].id, draft |-> draft[cmd[p].id].run,
         base |-> BaseOf(cmd[p].id)] \in Diff
      BY <2>1, <2>2 DEF Diff, Draft
  <2> QED BY <1>8, <1>a, <2>3 DEF DraftDiffed, Goto, TypeOK, bounds
<1>9. ASSUME Attested(p) PROVE TypeOK'
  <2>1. cmd[p].diff \in Diff /\ cmd[p].force \in BOOLEAN
      BY <1>9, <1>a, CommandAt DEF Attested, At
  <2>2. [id |-> cmd[p].diff.id, draft |-> cmd[p].diff.draft,
         base |-> cmd[p].diff.base, force |-> cmd[p].force] \in Approval
      BY <2>1 DEF Diff, Approval
  <2> QED BY <1>9, <1>a, <2>2 DEF Attested, Goto, TypeOK, bounds
<1>10. ASSUME AcceptStep(p) PROVE TypeOK'
    BY <1>10, <1>a, AcceptTypeOK
<1>11. ASSUME RecoverArchived(p) PROVE TypeOK'
  <2>1. cmd[p].run \in Runs /\ recovery[cmd[p].run].id \in Ids
      BY <1>11, <1>a, CommandAt DEF RecoverArchived, At, Recovery
  <2>2. draft' \in [Ids -> Draft \cup {None}] /\ archive' \subseteq Archived
      BY <1>11, <1>a, <2>1, MoveTypes DEF RecoverArchived, RestOfAccept, TypeOK
  <2> QED BY <1>11, <1>a, <2>2 DEF RecoverArchived, Goto, TypeOK, bounds
<1>12. ASSUME RecoverResolved(p) PROVE TypeOK'
  <2>1. cmd[p].run \in Runs /\ recovery[cmd[p].run] \in Recovery
      BY <1>12, <1>a, CommandAt DEF RecoverResolved, At
  <2>2. [recovery[cmd[p].run] EXCEPT !.resolved = TRUE] \in Recovery
      BY <2>1 DEF Recovery
  <2>3. recovery' \in [Runs -> Recovery \cup {None}]
      BY <1>12, <1>a, <2>2 DEF RecoverResolved, TypeOK
  <2> QED BY <1>12, <1>a, <2>3 DEF RecoverResolved, Goto, TypeOK, bounds
<1> QED BY <1>1, <1>2, <1>3, <1>4, <1>5, <1>6, <1>7, <1>8, <1>9, <1>10,
           <1>11, <1>12 DEF CommandStep

LEMMA StepTypeOK == WorldInv /\ [Next]_vars => TypeOK'
<1> SUFFICES ASSUME WorldInv, [Next]_vars PROVE TypeOK'
    OBVIOUS
<1>a. TypeOK
    BY DEF WorldInv
<1>1. ASSUME NEW p \in Procs, Begin(p) PROVE TypeOK'
    BY <1>1, <1>a DEF Begin, Askable, Goto, TypeOK, files, bounds
<1>2. ASSUME NEW p \in Procs, CommandStep(p) PROVE TypeOK'
    BY <1>2, CommandTypeOK
<1>3. ASSUME NEW p \in Procs, Crash(p) PROVE TypeOK'
    BY <1>3, <1>a, EndTypes, WorldAssumption DEF Crash, TypeOK, files
<1>4. ASSUME TelegramDraft PROVE TypeOK'
  <2>1. PICK i \in Ids, r \in Fresh, b \in BOOLEAN :
          /\ draft' = [draft EXCEPT ![i] =
                         [run |-> r, change |-> "create", sound |-> b]]
          /\ usedRuns' = usedRuns \cup {r}
      BY <1>4 DEF TelegramDraft
  <2>2. [run |-> r, change |-> "create", sound |-> b] \in Draft
      BY DEF Draft, Changes, Fresh
  <2> QED BY <1>4, <1>a, <2>1, <2>2, WorldAssumption
          DEF TelegramDraft, Fresh, TypeOK, procVars
<1>5. ASSUME OperatorRemovesLock PROVE TypeOK'
    BY <1>5, <1>a DEF OperatorRemovesLock, TypeOK, files, bounds
<1>6. ASSUME UNCHANGED vars PROVE TypeOK'
    BY <1>6, <1>a DEF TypeOK, vars, files, procVars, bounds
<1> QED BY <1>1, <1>2, <1>3, <1>4, <1>5, <1>6 DEF Next

----------------------------------------------------------------------------
(* The lock *)

LEMMA StepOneWriter == WorldInv /\ [Next]_vars => OneWriter'
<1> SUFFICES ASSUME WorldInv, [Next]_vars PROVE OneWriter'
    OBVIOUS
<1>a. TypeOK /\ OneWriter
    BY DEF WorldInv
<1> USE DEF OneWriter, InSection, TypeOK
<1>1. ASSUME NEW p \in Procs, Begin(p) PROVE OneWriter'
    BY <1>1, <1>a DEF Begin, Goto
<1>2. ASSUME NEW p \in Procs, AcquireWorldLock(p) PROVE OneWriter'
    BY <1>2, <1>a DEF AcquireWorldLock, LockFree, Goto
<1>3. ASSUME NEW p \in Procs, LockBusy(p) PROVE OneWriter'
    BY <1>3, <1>a DEF LockBusy, End, Goto
<1>4. ASSUME NEW p \in Procs, Unlock(p) \/ Crash(p) PROVE OneWriter'
    BY <1>4, <1>a DEF Unlock, Crash, End, Goto
<1>5. ASSUME NEW p \in Procs,
             \/ CommandFails(p) \/ CreateChecked(p) \/ CreateWritten(p)
             \/ UpdateRead(p) \/ UpdateWritten(p) \/ DraftRejected(p)
             \/ DraftDiffed(p) \/ Attested(p) \/ AcceptStep(p)
             \/ RecoverArchived(p) \/ RecoverResolved(p)
      PROVE  OneWriter'
  <2>1. /\ InSection(p)
        /\ lock' = lock
        /\ \E place : Goto(p, place)
      BY <1>5 DEF CommandFails, CreateChecked, CreateWritten, UpdateRead,
            UpdateWritten, DraftRejected, DraftDiffed, Attested, AcceptStep,
            AcceptChecked, AcceptWritten, AcceptArchived, ArchiveDirFails,
            ArchiveRenameFails, RecoverArchived, RecoverResolved, At
  <2> QED BY <2>1, <1>a DEF Goto
<1>6. ASSUME TelegramDraft \/ UNCHANGED vars PROVE OneWriter'
    BY <1>6, <1>a DEF TelegramDraft, vars, procVars
<1>7. ASSUME OperatorRemovesLock PROVE OneWriter'
    BY <1>7, <1>a DEF OperatorRemovesLock
<1> QED BY <1>1, <1>2, <1>3, <1>4, <1>5, <1>6, <1>7 DEF Next, CommandStep

\* Only one process moves, and while it is in its section no other is.
LEMMA Alone ==
  ASSUME OneWriter, NEW p \in Procs, NEW q \in Procs,
         InSection(p), InSection(q)
  PROVE  p = q
BY DEF OneWriter

----------------------------------------------------------------------------
(* What commands name is there *)

LEMMA StepCommandsKnown == WorldInv /\ [Next]_vars => CommandsKnown'
<1> SUFFICES ASSUME WorldInv, [Next]_vars PROVE CommandsKnown'
    OBVIOUS
<1>a. TypeOK /\ CommandsKnown
    BY DEF WorldInv
\* What is asked for stays askable: diffs, attestations and recoveries stay.
<1>b. ASSUME diffs \subseteq diffs', atts \subseteq atts',
             \A r \in Runs : recovery[r] # None => recovery'[r] # None
      PROVE  \A c \in Askable : c \in Askable'
    BY <1>b, CommandFields DEF Askable
<1>1. /\ diffs \subseteq diffs' /\ atts \subseteq atts'
      /\ \A r \in Runs : recovery[r] # None => recovery'[r] # None
  <2>1. ASSUME NEW p \in Procs, ArchiveRenameFails(p)
        PROVE  \A r \in Runs : recovery[r] # None => recovery'[r] # None
    <3>1. /\ cmd[p].att \in Approval
          /\ recovery' = [recovery EXCEPT ![rid[p]] =
               [id |-> cmd[p].att.id, draft |-> cmd[p].att.draft, resolved |-> FALSE]]
        BY <2>1, <1>a, CommandAt DEF ArchiveRenameFails, At
    <3>2. [id |-> cmd[p].att.id, draft |-> cmd[p].att.draft, resolved |-> FALSE] # None
      <4>1. [id |-> cmd[p].att.id, draft |-> cmd[p].att.draft, resolved |-> FALSE] \in Recovery
          BY <3>1 DEF Approval, Recovery
      <4> QED BY <4>1, NoneAssumption
    <3> QED BY <3>1, <3>2, <1>a DEF TypeOK
  <2>2. ASSUME NEW p \in Procs, RecoverResolved(p)
        PROVE  \A r \in Runs : recovery[r] # None => recovery'[r] # None
    <3>1. recovery[cmd[p].run] \in Recovery
        BY <2>2, <1>a, CommandAt DEF RecoverResolved, At
    <3>2. [recovery[cmd[p].run] EXCEPT !.resolved = TRUE] # None
        BY <3>1, NoneAssumption DEF Recovery
    <3> QED BY <2>2, <3>2, <1>a DEF RecoverResolved, TypeOK
  <2>3. ASSUME NEW p \in Procs, AcceptStep(p), ~ArchiveRenameFails(p)
        PROVE  UNCHANGED <<diffs, atts, recovery>>
      BY <2>3 DEF AcceptStep, AcceptChecked, AcceptWritten, AcceptArchived,
            ArchiveDirFails, files
  <2>4. ASSUME NEW p \in Procs, CommandStep(p), ~AcceptStep(p), ~RecoverResolved(p)
        PROVE  diffs \subseteq diffs' /\ atts \subseteq atts' /\ recovery' = recovery
      BY <2>4 DEF CommandStep, AcquireWorldLock, LockBusy, CommandFails, Unlock,
            CreateChecked, CreateWritten, UpdateRead, UpdateWritten,
            DraftRejected, DraftDiffed, Attested, RecoverArchived, files
  <2>5. ASSUME NEW p \in Procs, Begin(p) \/ Crash(p)
        PROVE  UNCHANGED <<diffs, atts, recovery>>
      BY <2>5 DEF Begin, Crash, files
  <2>6. ASSUME TelegramDraft \/ OperatorRemovesLock \/ UNCHANGED vars
        PROVE  UNCHANGED <<diffs, atts, recovery>>
      BY <2>6 DEF TelegramDraft, OperatorRemovesLock, vars, files
  <2>7. ASSUME NEW p \in Procs, ArchiveRenameFails(p) \/ RecoverResolved(p)
        PROVE  UNCHANGED <<diffs, atts>>
      BY <2>7 DEF ArchiveRenameFails, RecoverResolved
  <2> QED BY <2>1, <2>2, <2>3, <2>4, <2>5, <2>6, <2>7 DEF Next
<1>2. \A c \in Askable : c \in Askable'
    BY <1>b, <1>1
<1>3. ASSUME NEW p \in Procs, Begin(p) PROVE CommandsKnown'
  <2>1. PICK c \in Askable : cmd' = [cmd EXCEPT ![p] = c]
      BY <1>3 DEF Begin
  <2>2. c # None
      BY NoneAssumption DEF Askable
  <2> QED BY <1>2, <1>3, <1>a, <2>1, <2>2 DEF Begin, Goto, CommandsKnown, TypeOK
<1>4. ASSUME NEW p \in Procs, End(p) PROVE CommandsKnown'
    BY <1>4, <1>2, <1>a DEF End, Goto, CommandsKnown, TypeOK
<1>5. ASSUME NEW p \in Procs, NEW place, Goto(p, place), pc[p] # "idle",
             UNCHANGED cmd
      PROVE  CommandsKnown'
    BY <1>5, <1>2, <1>a DEF Goto, CommandsKnown, TypeOK
<1>6. ASSUME UNCHANGED <<pc, cmd>> PROVE CommandsKnown'
    BY <1>6, <1>2, <1>a DEF CommandsKnown
<1>7. ASSUME NEW p \in Procs, CommandStep(p) PROVE CommandsKnown'
  <2>1. \/ End(p)
        \/ (\E place : Goto(p, place)) /\ pc[p] # "idle" /\ UNCHANGED cmd
      BY <1>7 DEF CommandStep, AcquireWorldLock, LockBusy, CommandFails, Unlock,
            CreateChecked, CreateWritten, UpdateRead, UpdateWritten,
            DraftRejected, DraftDiffed, Attested, AcceptStep, AcceptChecked,
            AcceptWritten, AcceptArchived, ArchiveDirFails, ArchiveRenameFails,
            RecoverArchived, RecoverResolved, At
  <2> QED BY <2>1, <1>4, <1>5
<1> QED BY <1>3, <1>4, <1>6, <1>7
        DEF Next, Crash, TelegramDraft, OperatorRemovesLock, vars, procVars

----------------------------------------------------------------------------
(* What a step does to the files and to a command *)

\* While a command is between lock and unlock only its own steps and the bot
\* change anything it depends on.
LEMMA Frame ==
  ASSUME WorldInv, [Next]_vars, NEW q \in Procs, InSection(q)'
  PROVE  \/ CommandStep(q)
         \/ /\ InSection(q)
            /\ pc'[q] = pc[q] /\ cmd'[q] = cmd[q]
            /\ doc'[q] = doc[q] /\ rid'[q] = rid[q]
            /\ UNCHANGED <<canon, archive, diffs, atts, recovery, published>>
            /\ usedRuns \subseteq usedRuns'
<1> DEFINE Kept == /\ InSection(q)
                   /\ pc'[q] = pc[q] /\ cmd'[q] = cmd[q]
                   /\ doc'[q] = doc[q] /\ rid'[q] = rid[q]
                   /\ UNCHANGED <<canon, archive, diffs, atts, recovery, published>>
                   /\ usedRuns \subseteq usedRuns'
<1>a. TypeOK /\ OneWriter
    BY DEF WorldInv
<1>1. ASSUME NEW p \in Procs, Begin(p) \/ CommandStep(p) \/ Crash(p), p # q
      PROVE  Kept
  <2>1. pc'[q] = pc[q] /\ cmd'[q] = cmd[q] /\ doc'[q] = doc[q] /\ rid'[q] = rid[q]
      BY <1>1, <1>a DEF TypeOK, Begin, Crash, End, Goto, CommandStep,
            AcquireWorldLock, LockBusy, CommandFails, Unlock, CreateChecked,
            CreateWritten, UpdateRead, UpdateWritten, DraftRejected, DraftDiffed,
            Attested, AcceptStep, AcceptChecked, AcceptWritten, AcceptArchived,
            ArchiveDirFails, ArchiveRenameFails, RecoverArchived, RecoverResolved
  <2>2. InSection(q)
      BY <2>1 DEF InSection
  <2>3. ~InSection(p)
      BY <1>1, <1>a, <2>2, Alone
  <2>4. \/ Begin(p) \/ AcquireWorldLock(p) \/ LockBusy(p)
        \/ Crash(p)
      BY <1>1, <2>3 DEF InSection, CommandStep, CommandFails, Unlock,
            CreateChecked, CreateWritten, UpdateRead, UpdateWritten,
            DraftRejected, DraftDiffed, Attested, AcceptStep, AcceptChecked,
            AcceptWritten, AcceptArchived, ArchiveDirFails, ArchiveRenameFails,
            RecoverArchived, RecoverResolved, At
  <2> QED BY <2>1, <2>2, <2>4 DEF Begin, AcquireWorldLock, LockBusy, Crash, files
<1>2. ASSUME Begin(q) \/ Crash(q) PROVE FALSE
    BY <1>2, <1>a DEF Begin, Crash, End, Goto, InSection, TypeOK
<1>3. ASSUME TelegramDraft \/ OperatorRemovesLock \/ UNCHANGED vars PROVE Kept
    BY <1>3 DEF TelegramDraft, OperatorRemovesLock, vars, procVars, files, InSection
<1> QED BY <1>1, <1>2, <1>3 DEF Next

\* Which step of a command gets it to a place.
LEMMA NowAt ==
  ASSUME TypeOK, NEW q \in Procs, CommandStep(q)
  PROVE  /\ pc'[q] = "ready" =>
              CreateChecked(q) \/ UpdateRead(q) \/ AcceptChecked(q) \/ RecoverArchived(q)
         /\ pc'[q] = "written" => AcceptWritten(q)
BY DEF TypeOK, End, Goto, CommandStep, AcquireWorldLock, LockBusy, CommandFails,
       Unlock, CreateChecked, CreateWritten, UpdateRead, UpdateWritten,
       DraftRejected, DraftDiffed, Attested, AcceptStep, AcceptChecked,
       AcceptWritten, AcceptArchived, ArchiveDirFails, ArchiveRenameFails,
       RecoverArchived, RecoverResolved

\* The documents change when an accept writes its content, and then only.
LEMMA CanonMoves ==
  ASSUME [Next]_vars
  PROVE  \/ \E p \in Procs : AcceptWritten(p)
         \/ UNCHANGED <<canon, published>>
BY DEF Next, vars, files, Begin, Crash, TelegramDraft, OperatorRemovesLock,
       CommandStep, AcquireWorldLock, LockBusy, CommandFails, Unlock,
       CreateChecked, CreateWritten, UpdateRead, UpdateWritten, DraftRejected,
       DraftDiffed, Attested, AcceptStep, AcceptChecked, AcceptArchived,
       ArchiveDirFails, ArchiveRenameFails, RecoverArchived, RecoverResolved

\* A draft stays, goes, or is written anew by a run of its own.
LEMMA DraftsMove ==
  ASSUME WorldInv, [Next]_vars, NEW i \in Ids
  PROVE  \/ draft'[i] = draft[i]
         \/ draft'[i] = None
         \/ draft'[i].run \in usedRuns' \ usedRuns
<1>a. TypeOK /\ CommandsKnown /\ UpdateHasRead
    BY DEF WorldInv
<1>1. ASSUME NEW p \in Procs, CreateWritten(p)
      PROVE  draft'[i] = draft[i] \/ draft'[i].run \in usedRuns' \ usedRuns
    BY <1>1, <1>a DEF CreateWritten, Fresh, TypeOK
<1>2. ASSUME NEW p \in Procs, UpdateWritten(p)
      PROVE  draft'[i] = draft[i] \/ draft'[i].run \in usedRuns' \ usedRuns
  <2>1. doc[p] \in Draft
      BY <1>2, <1>a DEF UpdateWritten, UpdateHasRead, TypeOK
  <2> QED BY <1>2, <1>a, <2>1 DEF UpdateWritten, Fresh, TypeOK, Draft
<1>3. ASSUME TelegramDraft
      PROVE  draft'[i] = draft[i] \/ draft'[i].run \in usedRuns' \ usedRuns
    BY <1>3, <1>a DEF TelegramDraft, Fresh, TypeOK
<1>4. ASSUME NEW p \in Procs,
             DraftRejected(p) \/ AcceptArchived(p) \/ RecoverArchived(p)
      PROVE  draft'[i] = draft[i] \/ draft'[i] = None
    BY <1>4, <1>a DEF DraftRejected, AcceptArchived, RecoverArchived, RestOfAccept,
          MoveToAccepted, TypeOK
<1>5. ASSUME NEW p \in Procs, CommandStep(p), ~CreateWritten(p), ~UpdateWritten(p),
             ~DraftRejected(p), ~AcceptArchived(p), ~RecoverArchived(p)
      PROVE  draft' = draft
    BY <1>5 DEF CommandStep, files, AcquireWorldLock, LockBusy, CommandFails,
          Unlock, CreateChecked, UpdateRead, DraftDiffed, Attested, AcceptStep,
          AcceptChecked, AcceptWritten, ArchiveDirFails, ArchiveRenameFails,
          RecoverResolved
<1>6. ASSUME NEW p \in Procs, Begin(p) \/ Crash(p) PROVE draft' = draft
    BY <1>6 DEF Begin, Crash, files
<1>7. ASSUME OperatorRemovesLock \/ UNCHANGED vars PROVE draft' = draft
    BY <1>7 DEF OperatorRemovesLock, vars, files
<1> QED BY <1>1, <1>2, <1>3, <1>4, <1>5, <1>6, <1>7 DEF Next

\* A recovery is written by an accept that fails and resolved by run recover.
LEMMA RecoveriesMove ==
  ASSUME [Next]_vars
  PROVE  \/ \E p \in Procs : ArchiveRenameFails(p) \/ RecoverResolved(p)
         \/ UNCHANGED recovery
BY DEF Next, vars, files, Begin, Crash, TelegramDraft, OperatorRemovesLock,
       CommandStep, AcquireWorldLock, LockBusy, CommandFails, Unlock,
       CreateChecked, CreateWritten, UpdateRead, UpdateWritten, DraftRejected,
       DraftDiffed, Attested, AcceptStep, AcceptChecked, AcceptWritten,
       AcceptArchived, ArchiveDirFails, RecoverArchived

\* What comes into the archive, and when.
LEMMA ArchiveMoves ==
  ASSUME [Next]_vars
  PROVE  \/ UNCHANGED archive
         \/ \E p \in Procs :
              DraftRejected(p) \/ AcceptArchived(p) \/ RecoverArchived(p)
BY DEF Next, vars, files, Begin, Crash, TelegramDraft, OperatorRemovesLock,
       CommandStep, AcquireWorldLock, LockBusy, CommandFails, Unlock,
       CreateChecked, CreateWritten, UpdateRead, UpdateWritten,
       DraftDiffed, Attested, AcceptStep, AcceptChecked, AcceptWritten,
       ArchiveDirFails, ArchiveRenameFails, RecoverResolved

\* What somebody has seen, and what is approved.
LEMMA ApprovalsMove ==
  ASSUME [Next]_vars
  PROVE  \/ UNCHANGED <<diffs, atts>>
         \/ \E p \in Procs : DraftDiffed(p) \/ Attested(p)
BY DEF Next, vars, files, Begin, Crash, TelegramDraft, OperatorRemovesLock,
       CommandStep, AcquireWorldLock, LockBusy, CommandFails, Unlock,
       CreateChecked, CreateWritten, UpdateRead, UpdateWritten, DraftRejected,
       AcceptStep, AcceptChecked, AcceptWritten, AcceptArchived,
       ArchiveDirFails, ArchiveRenameFails, RecoverArchived, RecoverResolved

\* Run ids are never given back.
LEMMA RunsMove == [Next]_vars => usedRuns \subseteq usedRuns'
BY DEF Next, vars, Begin, Crash, TelegramDraft, OperatorRemovesLock,
       CommandStep, AcquireWorldLock, LockBusy, CommandFails, Unlock,
       CreateChecked, CreateWritten, UpdateRead, UpdateWritten, DraftRejected,
       DraftDiffed, Attested, AcceptStep, AcceptChecked, AcceptWritten,
       AcceptArchived, ArchiveDirFails, ArchiveRenameFails, RecoverArchived,
       RecoverResolved

----------------------------------------------------------------------------
(* Run ids *)

LEMMA BaseTypes ==
  ASSUME TypeOK, NEW i \in Ids
  PROVE  /\ BaseOf(i) \in Bases
         /\ canon[i] # None => BaseOf(i) = canon[i].run
BY DEF BaseOf, Bases, CanonDoc, TypeOK

\* The command and the run of an accept under way.
LEMMA AcceptAt ==
  ASSUME WorldInv, NEW p \in Procs, AcceptStep(p)
  PROVE  /\ cmd[p].op = "accept"
         /\ cmd[p].att \in Approval /\ cmd[p].att \in atts
         /\ cmd[p].att.id \in Ids
         /\ pc[p] = "written" => rid[p] \in usedRuns /\ rid[p] \in Runs
<1>1. cmd[p].op = "accept" /\ pc[p] # "idle"
    BY DEF AcceptStep, AcceptChecked, AcceptWritten, AcceptArchived,
          ArchiveDirFails, ArchiveRenameFails, At
<1>2. pc[p] = "written" => rid[p] \in usedRuns
    BY DEF WorldInv, HasPublished, RunsKnown
<1> QED BY <1>1, <1>2, CommandAt DEF WorldInv, Approval, TypeOK

\* What an accept writes: a document of its run.
LEMMA AcceptWrites ==
  ASSUME WorldInv, NEW p \in Procs, AcceptWritten(p)
  PROVE  LET a == cmd[p].att IN
         /\ a \in atts /\ a.id \in Ids
         /\ doc[p] # None /\ doc[p].run = a.draft /\ BaseOf(a.id) = a.base
         /\ doc[p].sound \/ a.force
         /\ HasTarget(doc[p], a.id)
         /\ rid[p] \in Runs /\ Unspent(rid[p])
         /\ AcceptedContent(doc[p], a.id, rid[p]) \in CanonDoc
         /\ AcceptedContent(doc[p], a.id, rid[p]).run = rid[p]
         /\ canon' = [canon EXCEPT ![a.id] = AcceptedContent(doc[p], a.id, rid[p])]
         /\ \A i \in Ids : BaseOf(i)' = IF i = a.id THEN rid[p] ELSE BaseOf(i)
<1> DEFINE a == cmd[p].att
<1>1. a \in atts /\ a.id \in Ids /\ At(p, "accept", "ready")
    BY AcceptAt DEF AcceptStep, AcceptWritten
<1>2. /\ doc[p] # None /\ doc[p].run = a.draft /\ BaseOf(a.id) = a.base
      /\ doc[p].sound \/ a.force
      /\ HasTarget(doc[p], a.id)
      /\ Unspent(rid[p])
    BY <1>1 DEF WorldInv, ReadyToPublish
<1>3. doc[p] \in Draft /\ rid[p] \in Runs
    BY <1>2 DEF WorldInv, TypeOK, Unspent
<1>4. AcceptedContent(doc[p], a.id, rid[p]) \in CanonDoc
  <2>1. doc[p].run \in Texts /\ rid[p] \in Texts
      BY <1>3 DEF Draft, Texts
  <2>2. CASE doc[p].change = "deprecate"
    <3>1. canon[a.id] \in CanonDoc
        BY <1>1, <1>2, <2>2 DEF HasTarget, WorldInv, TypeOK
    <3> QED BY <2>1, <2>2, <3>1 DEF AcceptedContent, CanonDoc
  <2>3. CASE doc[p].change # "deprecate"
      BY <2>1, <2>3 DEF AcceptedContent, CanonDoc
  <2> QED BY <2>2, <2>3
<1>5. AcceptedContent(doc[p], a.id, rid[p]).run = rid[p]
    BY DEF AcceptedContent
<1>6. canon' = [canon EXCEPT ![a.id] = AcceptedContent(doc[p], a.id, rid[p])]
    BY DEF AcceptWritten
<1>7. ASSUME NEW i \in Ids
      PROVE  BaseOf(i)' = IF i = a.id THEN rid[p] ELSE BaseOf(i)
  <2>1. canon'[a.id] = AcceptedContent(doc[p], a.id, rid[p])
      BY <1>1, <1>6 DEF WorldInv, TypeOK
  <2>2. canon'[a.id] # None
      BY <1>4, <2>1, NoneAssumption
  <2>3. CASE i = a.id
      BY <1>5, <2>1, <2>2, <2>3 DEF BaseOf
  <2>4. CASE i # a.id
    <3>1. canon'[i] = canon[i]
        BY <1>6, <2>4 DEF WorldInv, TypeOK
    <3> QED BY <2>4, <3>1 DEF BaseOf
  <2> QED BY <2>3, <2>4
<1> QED BY <1>1, <1>2, <1>3, <1>4, <1>5, <1>6, <1>7

LEMMA StepRunsKnown == WorldInv /\ [Next]_vars => RunsKnown'
<1> SUFFICES ASSUME WorldInv, [Next]_vars PROVE RunsKnown'
    OBVIOUS
<1>a. TypeOK /\ RunsKnown /\ usedRuns \subseteq usedRuns'
    BY RunsMove DEF WorldInv
<1>1. \A i \in Ids : canon'[i] # None => canon'[i].run \in usedRuns' \cup {NoRun}
  <2>1. ASSUME NEW p \in Procs, AcceptWritten(p), NEW i \in Ids, canon'[i] # None
        PROVE  canon'[i].run \in usedRuns' \cup {NoRun}
    <3>1. \/ canon'[i] = canon[i]
          \/ canon'[i] = AcceptedContent(doc[p], i, rid[p])
        BY <2>1, <1>a, AcceptWrites DEF TypeOK
    <3>2. AcceptedContent(doc[p], i, rid[p]).run = rid[p] /\ rid[p] \in usedRuns
        BY <2>1, AcceptWrites DEF AcceptedContent, Unspent
    <3> QED BY <2>1, <3>1, <3>2, <1>a DEF RunsKnown
  <2> QED BY <2>1, <1>a, CanonMoves DEF RunsKnown
<1>2. \A i \in Ids : draft'[i] # None => draft'[i].run \in usedRuns'
    BY <1>a, DraftsMove DEF RunsKnown
<1>3. \A x \in (diffs \cup atts)' :
        x.draft \in usedRuns' /\ x.base \in usedRuns' \cup {NoRun, None}
  <2>1. ASSUME NEW p \in Procs, DraftDiffed(p), NEW x \in (diffs \cup atts)',
               x \notin diffs \cup atts
        PROVE  x.draft \in usedRuns /\ x.base \in usedRuns \cup {NoRun, None}
    <3>1. cmd[p].id \in Ids
        BY <2>1, CommandAt DEF WorldInv, DraftDiffed, At
    <3>2. x = [id |-> cmd[p].id, draft |-> draft[cmd[p].id].run,
               base |-> BaseOf(cmd[p].id)]
        BY <2>1 DEF DraftDiffed
    <3> QED BY <2>1, <3>1, <3>2, <1>a DEF DraftDiffed, RunsKnown, BaseOf
  <2>2. ASSUME NEW p \in Procs, Attested(p), NEW x \in (diffs \cup atts)',
               x \notin diffs \cup atts
        PROVE  x.draft \in usedRuns /\ x.base \in usedRuns \cup {NoRun, None}
    <3>1. cmd[p].diff \in diffs
        BY <2>2, CommandAt DEF WorldInv, Attested, At
    <3>2. x = [id |-> cmd[p].diff.id, draft |-> cmd[p].diff.draft,
               base |-> cmd[p].diff.base, force |-> cmd[p].force]
        BY <2>2 DEF Attested
    <3> QED BY <3>1, <3>2, <1>a DEF RunsKnown
  <2>3. ASSUME NEW x \in diffs \cup atts
        PROVE  x.draft \in usedRuns /\ x.base \in usedRuns \cup {NoRun, None}
      BY <1>a DEF RunsKnown
  <2> QED BY <2>1, <2>2, <2>3, <1>a, ApprovalsMove
<1>4. \A e \in archive' : e.run \in usedRuns'
  <2>1. ASSUME NEW p \in Procs, DraftRejected(p), NEW e \in archive'
        PROVE  e.run \in usedRuns'
      BY <2>1, <1>a DEF DraftRejected, RunsKnown
  <2>2. ASSUME NEW p \in Procs, AcceptArchived(p), NEW e \in archive'
        PROVE  e.run \in usedRuns'
    <3>1. rid[p] \in usedRuns
        BY <2>2, AcceptAt DEF AcceptStep, AcceptArchived, At
    <3> QED BY <2>2, <3>1, <1>a DEF AcceptArchived, MoveToAccepted, RunsKnown
  <2>3. ASSUME NEW p \in Procs, RecoverArchived(p), NEW e \in archive'
        PROVE  e.run \in usedRuns'
    <3>1. cmd[p].run \in usedRuns
        BY <2>3 DEF RecoverArchived, Unresolved, WorldInv, RecoveryOfPublished,
              RunsKnown
    <3> QED BY <2>3, <3>1, <1>a
            DEF RecoverArchived, RestOfAccept, MoveToAccepted, RunsKnown
  <2> QED BY <2>1, <2>2, <2>3, <1>a, ArchiveMoves DEF RunsKnown
<1>5. \A e \in published' : e.run \in usedRuns' /\ e.att \in atts'
  <2>1. atts \subseteq atts'
      BY ApprovalsMove DEF DraftDiffed, Attested
  <2>2. ASSUME NEW p \in Procs, AcceptWritten(p), NEW e \in published'
        PROVE  e.run \in usedRuns /\ e.att \in atts
    <3>1. e \in published \/ e = [run |-> rid[p], att |-> cmd[p].att]
        BY <2>2 DEF AcceptWritten
    <3> QED BY <3>1, <2>2, <1>a, AcceptWrites DEF RunsKnown, Unspent
  <2> QED BY <2>1, <2>2, <1>a, CanonMoves DEF RunsKnown
<1> QED BY <1>1, <1>2, <1>3, <1>4, <1>5 DEF RunsKnown

\* A run that was not given out before is not anywhere.
LEMMA FreshUnspent ==
  ASSUME WorldInv, NEW r \in Fresh
  PROVE  /\ \A i \in Ids : BaseOf(i) # r
         /\ \A a \in diffs \cup atts : a.base # r
         /\ \A e \in published : e.run # r
         /\ ~ArchivedBy(r)
<1>1. r \in Runs /\ r \notin usedRuns /\ r # NoRun /\ r # None
    BY WorldAssumption DEF Fresh
<1> QED BY <1>1 DEF WorldInv, RunsKnown, BaseOf, ArchivedBy

----------------------------------------------------------------------------
(* The accept transaction *)

LEMMA StepUpdateHasRead == WorldInv /\ [Next]_vars => UpdateHasRead'
<1> SUFFICES ASSUME WorldInv, [Next]_vars, NEW q \in Procs, At(q, "update", "ready")'
             PROVE  doc'[q] # None
    BY DEF UpdateHasRead
<1>a. InSection(q)' /\ pc'[q] = "ready" /\ cmd'[q].op = "update"
    BY DEF At, InSection
<1>1. ASSUME CommandStep(q) PROVE doc'[q] # None
  <2>1. UpdateRead(q)
      BY <1>1, <1>a, NowAt DEF WorldInv, CreateChecked, AcceptChecked,
            RecoverArchived, At
  <2>2. draft[cmd[q].id] # None /\ doc'[q] = draft[cmd[q].id]
      BY <2>1 DEF UpdateRead, WorldInv, TypeOK
  <2> QED BY <2>2
<1> QED BY <1>1, <1>a, Frame DEF WorldInv, UpdateHasRead, At

LEMMA StepReadyToPublish == WorldInv /\ [Next]_vars => ReadyToPublish'
<1> SUFFICES ASSUME WorldInv, [Next]_vars, NEW q \in Procs,
                    At(q, "accept", "ready")'
             PROVE  LET a == cmd'[q].att IN
                    /\ doc'[q] # None
                    /\ doc'[q].run = a.draft
                    /\ HasTarget(doc[q], cmd[q].att.id)'
                    /\ BaseOf(cmd[q].att.id)' = a.base
                    /\ doc'[q].sound \/ a.force
                    /\ Unspent(rid[q])'
    BY DEF ReadyToPublish
<1>a. InSection(q)' /\ pc'[q] = "ready" /\ cmd'[q].op = "accept"
    BY DEF At, InSection
<1>1. CASE AcceptChecked(q)
  <2>1. /\ cmd' = cmd /\ canon' = canon /\ archive' = archive
        /\ diffs' = diffs /\ atts' = atts /\ published' = published
        /\ Bound(cmd[q].att)
        /\ doc'[q] = draft[cmd[q].att.id]
      BY <1>1 DEF AcceptChecked, files, WorldInv, TypeOK
  <2>2. rid'[q] \in Fresh /\ rid'[q] \in usedRuns'
      BY <1>1 DEF AcceptChecked, WorldInv, TypeOK
  <2>3. Unspent(rid[q])'
      BY <2>1, <2>2, FreshUnspent DEF Unspent, BaseOf, ArchivedBy
  <2> QED BY <2>1, <2>3 DEF Bound, HasTarget, BaseOf
<1>2. CASE ~AcceptChecked(q)
  <2>1. ~CommandStep(q)
      BY <1>2, <1>a, NowAt DEF WorldInv, CreateChecked, UpdateRead,
            RecoverArchived, At
  <2>2. /\ pc'[q] = pc[q] /\ cmd'[q] = cmd[q]
        /\ doc'[q] = doc[q] /\ rid'[q] = rid[q]
        /\ UNCHANGED <<canon, archive, diffs, atts, recovery, published>>
        /\ usedRuns \subseteq usedRuns'
      BY <2>1, <1>a, Frame
  <2>3. At(q, "accept", "ready")
      BY <1>a, <2>2 DEF At
  <2>4. /\ doc[q] # None /\ doc[q].run = cmd[q].att.draft
        /\ HasTarget(doc[q], cmd[q].att.id)
        /\ BaseOf(cmd[q].att.id) = cmd[q].att.base
        /\ doc[q].sound \/ cmd[q].att.force
        /\ Unspent(rid[q])
      BY <2>3 DEF WorldInv, ReadyToPublish
  <2>5. Unspent(rid[q])'
      BY <2>2, <2>4 DEF Unspent, BaseOf, ArchivedBy
  <2> QED BY <2>2, <2>4, <2>5 DEF HasTarget, BaseOf
<1> QED BY <1>1, <1>2

LEMMA StepHasPublished == WorldInv /\ [Next]_vars => HasPublished'
<1> SUFFICES ASSUME WorldInv, [Next]_vars, NEW q \in Procs, pc'[q] = "written"
             PROVE  /\ cmd'[q].op = "accept"
                    /\ [run |-> rid'[q], att |-> cmd'[q].att] \in published'
                    /\ recovery'[rid'[q]] = None
                    /\ ~ArchivedBy(rid[q])'
    BY DEF HasPublished
<1>a. InSection(q)'
    BY DEF InSection
<1>1. CASE AcceptWritten(q)
  <2>1. Unspent(rid[q]) /\ rid[q] \in Runs
      BY <1>1, AcceptWrites
  <2>2. recovery[rid[q]] = None
      BY <2>1 DEF Unspent, WorldInv, RecoveryOfPublished
  <2> QED BY <1>1, <2>1, <2>2 DEF AcceptWritten, At, Unspent, ArchivedBy
<1>2. CASE ~AcceptWritten(q)
  <2>1. ~CommandStep(q)
      BY <1>2, NowAt DEF WorldInv
  <2> QED BY <2>1, <1>a, Frame DEF WorldInv, HasPublished, ArchivedBy
<1> QED BY <1>1, <1>2

----------------------------------------------------------------------------
(* Attestations *)

LEMMA StepAttestations ==
  WorldInv /\ [Next]_vars => NothingToReplay' /\ AttestationUsedOnce'
<1> SUFFICES ASSUME WorldInv, [Next]_vars
             PROVE  NothingToReplay' /\ AttestationUsedOnce'
    OBVIOUS
<1>a. TypeOK /\ RunsKnown /\ NothingToReplay /\ AttestationUsedOnce
    BY DEF WorldInv
<1>1. ASSUME NEW p \in Procs, AcceptWritten(p)
      PROVE  NothingToReplay' /\ AttestationUsedOnce'
  <2> DEFINE a == cmd[p].att
             new == [run |-> rid[p], att |-> a]
  <2>1. /\ a \in atts /\ BaseOf(a.id) = a.base
        /\ \A b \in atts : b.base # rid[p]
        /\ \A i \in Ids : BaseOf(i)' = IF i = a.id THEN rid[p] ELSE BaseOf(i)
      BY <1>1, AcceptWrites DEF Unspent
  <2>2. published' = published \cup {new}
      BY <1>1 DEF AcceptWritten
  <2>3. \A e \in published' : e.att \in atts /\ e.att.id \in Ids
      BY <2>1, <2>2, <1>a DEF RunsKnown, TypeOK, Approval
  <2>4. ASSUME NEW e \in published'
        PROVE  (BaseOf(e.att.id) # e.att.base)'
    <3>1. CASE e.att.id = a.id
        BY <3>1, <2>1, <2>3
    <3>2. CASE e.att.id # a.id
      <4>1. e \in published
          BY <2>2, <3>2
      <4> QED BY <4>1, <3>2, <2>1, <2>3, <1>a DEF NothingToReplay
    <3> QED BY <3>1, <3>2
  <2>5. \A e \in published : e.att # a
      BY <2>1, <1>a DEF NothingToReplay
  <2> QED BY <2>2, <2>4, <2>5, <1>a DEF NothingToReplay, AttestationUsedOnce
<1>2. ASSUME UNCHANGED <<canon, published>>
      PROVE  NothingToReplay' /\ AttestationUsedOnce'
    BY <1>2, <1>a DEF NothingToReplay, AttestationUsedOnce, BaseOf
<1> QED BY <1>1, <1>2, CanonMoves

----------------------------------------------------------------------------
(* The archive and the recoveries *)

LEMMA StepAcceptedIsPublished == WorldInv /\ [Next]_vars => AcceptedIsPublished'
<1> SUFFICES ASSUME WorldInv, [Next]_vars PROVE AcceptedIsPublished'
    OBVIOUS
<1>a. AcceptedIsPublished /\ published \subseteq published'
    BY CanonMoves DEF WorldInv, AcceptWritten
<1> DEFINE Published(e) == \E f \in published : f.run = e.run /\ f.att.id = e.id
<1>1. ASSUME NEW p \in Procs, DraftRejected(p), NEW e \in archive',
             e.kind = "accepted"
      PROVE  Published(e)
    BY <1>1, <1>a DEF DraftRejected, AcceptedIsPublished
<1>2. ASSUME NEW p \in Procs, AcceptArchived(p), NEW e \in archive',
             e.kind = "accepted"
      PROVE  Published(e)
  <2>1. [run |-> rid[p], att |-> cmd[p].att] \in published
      BY <1>2 DEF AcceptArchived, At, WorldInv, HasPublished
  <2> QED BY <1>2, <2>1, <1>a DEF AcceptArchived, MoveToAccepted, AcceptedIsPublished
<1>3. ASSUME NEW p \in Procs, RecoverArchived(p), NEW e \in archive',
             e.kind = "accepted"
      PROVE  Published(e)
  <2>1. PICK f \in published :
          f.run = cmd[p].run /\ f.att.id = recovery[cmd[p].run].id
      BY <1>3 DEF RecoverArchived, Unresolved, WorldInv, RecoveryOfPublished
  <2> QED BY <1>3, <2>1, <1>a
          DEF RecoverArchived, RestOfAccept, MoveToAccepted, AcceptedIsPublished
<1>4. ASSUME archive' = archive, NEW e \in archive', e.kind = "accepted"
      PROVE  Published(e)
    BY <1>4, <1>a DEF AcceptedIsPublished
<1>5. \A e \in archive' : e.kind = "accepted" => Published(e)
    BY <1>1, <1>2, <1>3, <1>4, ArchiveMoves
<1> QED BY <1>5, <1>a DEF AcceptedIsPublished

\* A recovery that is there keeps its document and its draft, and a new one
\* is for what the accept that writes it has published.
LEMMA RecoveryKept ==
  ASSUME WorldInv, [Next]_vars, NEW r \in Runs, recovery'[r] # None
  PROVE  \/ /\ recovery[r] # None
            /\ recovery'[r].id = recovery[r].id
            /\ recovery'[r].draft = recovery[r].draft
            /\ \/ recovery'[r].resolved = recovery[r].resolved
               \/ \E p \in Procs : RecoverResolved(p) /\ r = cmd[p].run
         \/ \E p \in Procs :
              /\ ArchiveRenameFails(p) /\ r = rid[p]
              /\ recovery'[r] = [id |-> cmd[p].att.id, draft |-> cmd[p].att.draft,
                                 resolved |-> FALSE]
<1>a. TypeOK
    BY DEF WorldInv
<1>1. ASSUME NEW p \in Procs, ArchiveRenameFails(p), r # rid[p]
      PROVE  recovery'[r] = recovery[r]
    BY <1>1, <1>a DEF ArchiveRenameFails, TypeOK
<1>2. ASSUME NEW p \in Procs, ArchiveRenameFails(p), r = rid[p]
      PROVE  recovery'[r] = [id |-> cmd[p].att.id, draft |-> cmd[p].att.draft,
                             resolved |-> FALSE]
    BY <1>2, <1>a DEF ArchiveRenameFails, TypeOK
<1>3. ASSUME NEW p \in Procs, RecoverResolved(p), r = cmd[p].run
      PROVE  /\ recovery[r] # None
             /\ recovery'[r].id = recovery[r].id
             /\ recovery'[r].draft = recovery[r].draft
  <2>1. recovery[r] \in Recovery
      BY <1>3, CommandAt DEF RecoverResolved, At, WorldInv
  <2>2. recovery'[r] = [recovery[r] EXCEPT !.resolved = TRUE]
      BY <1>3, <1>a DEF RecoverResolved, TypeOK
  <2> QED BY <2>1, <2>2, NoneAssumption DEF Recovery
<1>4. ASSUME NEW p \in Procs, RecoverResolved(p), r # cmd[p].run
      PROVE  recovery'[r] = recovery[r]
    BY <1>4, <1>a DEF RecoverResolved, TypeOK
<1> QED BY <1>1, <1>2, <1>3, <1>4, RecoveriesMove

LEMMA StepRecoveryOfPublished == WorldInv /\ [Next]_vars => RecoveryOfPublished'
<1> SUFFICES ASSUME WorldInv, [Next]_vars, NEW r \in Runs, recovery'[r] # None
             PROVE  \E e \in published' : /\ e.run = r
                                          /\ e.att.id = recovery'[r].id
                                          /\ e.att.draft = recovery'[r].draft
    BY DEF RecoveryOfPublished
<1>a. published \subseteq published'
    BY CanonMoves DEF AcceptWritten
<1>1. ASSUME NEW p \in Procs, ArchiveRenameFails(p), r = rid[p],
             recovery'[r] = [id |-> cmd[p].att.id, draft |-> cmd[p].att.draft,
                             resolved |-> FALSE]
      PROVE  \E e \in published : /\ e.run = r
                                  /\ e.att.id = recovery'[r].id
                                  /\ e.att.draft = recovery'[r].draft
  <2>1. [run |-> rid[p], att |-> cmd[p].att] \in published
      BY <1>1 DEF ArchiveRenameFails, At, WorldInv, HasPublished
  <2> QED BY <1>1, <2>1
<1>2. ASSUME recovery[r] # None, recovery'[r].id = recovery[r].id,
             recovery'[r].draft = recovery[r].draft
      PROVE  \E e \in published : /\ e.run = r
                                  /\ e.att.id = recovery'[r].id
                                  /\ e.att.draft = recovery'[r].draft
    BY <1>2 DEF WorldInv, RecoveryOfPublished
<1>3. \E e \in published : /\ e.run = r
                           /\ e.att.id = recovery'[r].id
                           /\ e.att.draft = recovery'[r].draft
    BY <1>1, <1>2, RecoveryKept
<1> QED BY <1>3, <1>a

\* A draft that is gone does not come back: later drafts have other runs.
LEMMA GoneStays ==
  ASSUME WorldInv, [Next]_vars, NEW r \in Runs,
         recovery[r] # None, Gone(r),
         recovery'[r].id = recovery[r].id, recovery'[r].draft = recovery[r].draft
  PROVE  Gone(r)'
<1>1. recovery[r].id \in Ids /\ recovery[r].draft \in usedRuns
  <2>1. recovery[r].id \in Ids
      BY DEF WorldInv, TypeOK, Recovery
  <2>2. PICK e \in published : e.run = r /\ e.att.draft = recovery[r].draft
      BY DEF WorldInv, RecoveryOfPublished
  <2> QED BY <2>1, <2>2 DEF WorldInv, RunsKnown
<1> QED BY <1>1, DraftsMove DEF Gone

\* What run recover has done when it comes to writing its result.
LEMMA RecoverGone ==
  ASSUME WorldInv, NEW p \in Procs, RecoverArchived(p)
  PROVE  /\ cmd[p].run \in Runs
         /\ recovery[cmd[p].run] # None
         /\ Gone(cmd[p].run)'
<1> DEFINE r == cmd[p].run
<1>1. /\ r \in Runs /\ recovery[r] # None /\ recovery[r].id \in Ids
      /\ cmd' = cmd /\ recovery' = recovery
  <2>1. r \in Runs /\ recovery[r] # None
      BY DEF RecoverArchived, Unresolved
  <2>2. recovery[r].id \in Ids
      BY <2>1 DEF WorldInv, TypeOK, Recovery
  <2> QED BY <2>1, <2>2 DEF RecoverArchived
<1>2. draft' = draft \/ draft'[recovery[r].id] = None
    BY <1>1 DEF RecoverArchived, RestOfAccept, MoveToAccepted, WorldInv, TypeOK
<1>3. draft' = draft => Gone(r)
    BY <1>1 DEF RecoverArchived, RestOfAccept, MoveToAccepted, WorldInv, TypeOK,
          ArchivedIsGone, Gone
<1> QED BY <1>1, <1>2, <1>3 DEF Gone

LEMMA StepArchivedIsGone == WorldInv /\ [Next]_vars => ArchivedIsGone'
<1> SUFFICES ASSUME WorldInv, [Next]_vars PROVE ArchivedIsGone'
    OBVIOUS
<1>1. ASSUME NEW r \in Runs, recovery'[r] # None, ArchivedBy(r)'
      PROVE  Gone(r)'
  <2>1. CASE ArchivedBy(r)
    <3>1. ASSUME NEW p \in Procs, ArchiveRenameFails(p) PROVE r # rid[p]
        BY <3>1, <2>1 DEF ArchiveRenameFails, At, WorldInv, HasPublished
    <3>2. /\ recovery[r] # None
          /\ recovery'[r].id = recovery[r].id
          /\ recovery'[r].draft = recovery[r].draft
        BY <1>1, <3>1, RecoveryKept
    <3> QED BY <2>1, <3>2, GoneStays DEF WorldInv, ArchivedIsGone
  <2>2. CASE ~ArchivedBy(r)
    <3>1. ~\E p \in Procs : DraftRejected(p)
        BY <1>1, <2>2 DEF DraftRejected, ArchivedBy
    <3>2. ASSUME NEW p \in Procs, AcceptArchived(p) PROVE FALSE
      <4>1. r = rid[p]
          BY <1>1, <2>2, <3>2 DEF AcceptArchived, MoveToAccepted, ArchivedBy
      <4>2. recovery' = recovery /\ recovery[rid[p]] = None
          BY <3>2 DEF AcceptArchived, At, WorldInv, HasPublished
      <4> QED BY <1>1, <4>1, <4>2
    <3>3. ASSUME NEW p \in Procs, RecoverArchived(p) PROVE Gone(r)'
      <4>1. r = cmd[p].run /\ cmd' = cmd
          BY <1>1, <2>2, <3>3
             DEF RecoverArchived, RestOfAccept, MoveToAccepted, ArchivedBy
      <4> QED BY <3>3, <4>1, RecoverGone DEF Gone
    <3> QED BY <1>1, <2>2, <3>1, <3>2, <3>3, ArchiveMoves DEF ArchivedBy
  <2> QED BY <2>1, <2>2
<1>2. ASSUME NEW q \in Procs, At(q, "recover", "ready")'
      PROVE  Gone(cmd[q].run)'
  <2>a. InSection(q)' /\ pc'[q] = "ready" /\ cmd'[q].op = "recover"
      BY <1>2 DEF At, InSection
  <2>1. CASE RecoverArchived(q)
      BY <2>1, RecoverGone
  <2>2. CASE ~RecoverArchived(q)
    <3>1. ~CommandStep(q)
        BY <2>2, <2>a, NowAt DEF WorldInv, CreateChecked, UpdateRead,
              AcceptChecked, At
    <3>2. pc'[q] = pc[q] /\ cmd'[q] = cmd[q] /\ recovery' = recovery
        BY <3>1, <2>a, Frame
    <3>3. At(q, "recover", "ready")
        BY <2>a, <3>2 DEF At
    <3>4. cmd[q].run \in Runs /\ recovery[cmd[q].run] # None /\ Gone(cmd[q].run)
        BY <3>3, CommandAt, NoneAssumption DEF At, WorldInv, ArchivedIsGone
    <3> QED BY <3>2, <3>4, GoneStays DEF Gone
  <2> QED BY <2>1, <2>2
<1> QED BY <1>1, <1>2 DEF ArchivedIsGone

LEMMA StepResolvedIsDone == WorldInv /\ [Next]_vars => ResolvedIsDone'
<1> SUFFICES ASSUME WorldInv, [Next]_vars, NEW r \in Runs,
                    recovery'[r] # None, recovery'[r].resolved
             PROVE  Gone(r)'
    BY DEF ResolvedIsDone
<1>1. /\ recovery[r] # None
      /\ recovery'[r].id = recovery[r].id
      /\ recovery'[r].draft = recovery[r].draft
      /\ \/ recovery'[r].resolved = recovery[r].resolved
         \/ \E p \in Procs : RecoverResolved(p) /\ r = cmd[p].run
  <2>1. ASSUME NEW p \in Procs,
               recovery'[r] = [id |-> cmd[p].att.id, draft |-> cmd[p].att.draft,
                               resolved |-> FALSE]
        PROVE  FALSE
    <3>1. recovery'[r].resolved = FALSE
        BY <2>1
    <3> QED BY <3>1
  <2> QED BY <2>1, RecoveryKept
<1>2. Gone(r)
    BY <1>1 DEF RecoverResolved, WorldInv, ArchivedIsGone, ResolvedIsDone
<1> QED BY <1>1, <1>2, GoneStays

----------------------------------------------------------------------------
(* The theorems *)

LEMMA InitWorldInv == Init => WorldInv
<1> SUFFICES ASSUME Init PROVE WorldInv
    OBVIOUS
<1>1. TypeOK
    BY InitTypeOK
<1>2. OneWriter /\ CommandsKnown /\ UpdateHasRead /\ ReadyToPublish /\ HasPublished
    BY DEF Init, OneWriter, InSection, CommandsKnown, UpdateHasRead,
          ReadyToPublish, HasPublished, At
<1>3. RunsKnown
    BY DEF Init, RunsKnown
<1>4. /\ NothingToReplay /\ AttestationUsedOnce /\ AcceptedIsPublished
      /\ RecoveryOfPublished /\ ArchivedIsGone /\ ResolvedIsDone
    BY DEF Init, NothingToReplay, AttestationUsedOnce, AcceptedIsPublished,
          RecoveryOfPublished, ArchivedIsGone, ResolvedIsDone, At
<1> QED BY <1>1, <1>2, <1>3, <1>4 DEF WorldInv

\* The inductive invariant of the write commands (draft create, update,
\* reject, diff and accept, approval attest, run recover, the bot's /draft)
\* holds in every state.
THEOREM WorldInvariant == Spec => []WorldInv
<1>1. WorldInv /\ [Next]_vars => WorldInv'
    BY StepTypeOK, StepOneWriter, StepCommandsKnown, StepRunsKnown,
       StepUpdateHasRead, StepReadyToPublish, StepHasPublished,
       StepAttestations, StepAcceptedIsPublished, StepRecoveryOfPublished,
       StepArchivedIsGone, StepResolvedIsDone DEF WorldInv
<1> QED BY InitWorldInv, <1>1, PTL DEF Spec

\* Drafts, documents, runs, recoveries and the commands keep their types, for
\* any number of processes and documents.
THEOREM WorldTypes == Spec => []TypeOK
<1>1. WorldInv => TypeOK
    BY DEF WorldInv
<1> QED BY <1>1, WorldInvariant, PTL

\* At most one command is between lock and unlock, and none while the lock
\* file of a dead process is there (AcquireWorldLock in world/lock.go), for
\* any number of processes and crashes.
THEOREM WritersExclude == Spec => []OneWriter
<1>1. WorldInv => OneWriter
    BY DEF WorldInv
<1> QED BY WorldInvariant, <1>1, PTL

\* An attestation never leads to two writes of content (cmdDraftAccept),
\* though nothing marks it as used and archiving may fail.
THEOREM AttestationsSingleUse == Spec => []AttestationUsedOnce
<1>1. WorldInv => AttestationUsedOnce
    BY DEF WorldInv
<1> QED BY WorldInvariant, <1>1, PTL

\* A draft in archive/accepted belongs to a write of content, also when
\* run recover has put it there.
THEOREM ArchiveJustified == Spec => []AcceptedIsPublished
<1>1. WorldInv => AcceptedIsPublished
    BY DEF WorldInv
<1> QED BY WorldInvariant, <1>1, PTL

\* A resolved recovery has left no active draft of its accept (cmdRunRecover),
\* whatever was created, rejected or accepted since.
THEOREM RecoveryCompletes == Spec => []ResolvedIsDone
<1>1. WorldInv => ResolvedIsDone
    BY DEF WorldInv
<1> QED BY WorldInvariant, <1>1, PTL

\* Every change of a document is one that an attestation approves, made from
\* the text the approver has seen (cmdDraftAccept, acceptedContent).
THEOREM ChangesApproved == Spec => CanonOnlyApproved
<1> DEFINE Approved == \A i \in Ids :
             canon'[i] # canon[i] =>
               \E a \in atts, p \in Procs :
                 /\ a.id = i /\ a.base = BaseOf(i)
                 /\ doc[p] # None /\ a.draft = doc[p].run
                 /\ doc[p].sound \/ a.force
                 /\ canon'[i] = AcceptedContent(doc[p], i, rid[p])
<1>1. WorldInv /\ [Next]_vars => Approved
  <2> SUFFICES ASSUME WorldInv, [Next]_vars, NEW i \in Ids, canon'[i] # canon[i]
               PROVE  \E a \in atts, p \in Procs :
                        /\ a.id = i /\ a.base = BaseOf(i)
                        /\ doc[p] # None /\ a.draft = doc[p].run
                        /\ doc[p].sound \/ a.force
                        /\ canon'[i] = AcceptedContent(doc[p], i, rid[p])
      OBVIOUS
  <2>1. PICK p \in Procs : AcceptWritten(p)
      BY CanonMoves
  <2>2. /\ cmd[p].att \in atts /\ cmd[p].att.id \in Ids
        /\ doc[p] # None /\ doc[p].run = cmd[p].att.draft
        /\ BaseOf(cmd[p].att.id) = cmd[p].att.base
        /\ doc[p].sound \/ cmd[p].att.force
        /\ canon' = [canon EXCEPT ![cmd[p].att.id] =
                       AcceptedContent(doc[p], cmd[p].att.id, rid[p])]
      BY <2>1, AcceptWrites
  <2>3. i = cmd[p].att.id
      BY <2>2 DEF WorldInv, TypeOK
  <2> QED BY <2>2, <2>3 DEF WorldInv, TypeOK
<1>2. WorldInv /\ [Next]_vars => [Approved]_vars
    BY <1>1
<1> QED BY WorldInvariant, <1>2, PTL DEF Spec, CanonOnlyApproved

----------------------------------------------------------------------------
(* The abstract specification *)

\* The mapping keeps its variables when documents, attestations and history
\* stay.
LEMMA MappingKept ==
  ASSUME UNCHANGED <<canon, atts, published>>
  PROVE  UNCHANGED Canon!vars
BY DEF Canon!vars, BaseOf

LEMMA StepImplementsCanon ==
  WorldInv /\ [Next]_vars => [Canon!Next]_(Canon!vars)
<1> SUFFICES ASSUME WorldInv, [Next]_vars
             PROVE  Canon!Next \/ UNCHANGED Canon!vars
    OBVIOUS
<1>1. ASSUME NEW p \in Procs, AcceptWritten(p) PROVE Canon!Publish
  <2> DEFINE a == cmd[p].att
             r == rid[p]
             cur == [i \in Ids |-> BaseOf(i)]
             spent == {e.att : e \in published}
  <2>1. /\ a \in atts /\ a.id \in Ids /\ r \in Runs
        /\ BaseOf(a.id) = a.base
        /\ \A b \in atts : b.base # r
        /\ \A i \in Ids : BaseOf(i)' = IF i = a.id THEN r ELSE BaseOf(i)
      BY <1>1, AcceptWrites DEF Unspent
  <2>2. a \notin spent
      BY <2>1 DEF WorldInv, NothingToReplay
  <2>3. cur[a.id] = a.base
      BY <2>1
  <2>4. [i \in Ids |-> BaseOf(i)]' = [cur EXCEPT ![a.id] = r]
      BY <2>1
  <2>5. published' = published \cup {[run |-> r, att |-> a]}
      BY <1>1 DEF AcceptWritten
  <2>6. {e.att : e \in published}' = spent \cup {a}
    <3>1. [run |-> r, att |-> a].att = a
        OBVIOUS
    <3>2. \A x : x \in {e.att : e \in published'} <=> x \in spent \/ x = a
        BY <2>5, <3>1, Zenon
    <3> QED BY <3>2
  <2>7. atts' = atts
      BY <1>1 DEF AcceptWritten
  <2> QED BY <2>1, <2>2, <2>3, <2>4, <2>6, <2>7 DEF Canon!Publish
<1>2. ASSUME NEW p \in Procs, Attested(p) PROVE Canon!Approve
  <2>1. cmd[p].diff \in Diff /\ cmd[p].force \in BOOLEAN
      BY <1>2, CommandAt DEF Attested, At, WorldInv
  <2> DEFINE a == [id |-> cmd[p].diff.id, draft |-> cmd[p].diff.draft,
                   base |-> cmd[p].diff.base, force |-> cmd[p].force]
  <2>2. a \in Canon!Approval
      BY <2>1 DEF Diff, Bases, Texts, Canon!Approval, Canon!Bases
  <2>3. atts' = atts \cup {a} /\ canon' = canon /\ published' = published
      BY <1>2 DEF Attested
  <2> QED BY <2>2, <2>3 DEF Canon!Approve, BaseOf
<1>3. ASSUME ~\E p \in Procs : AcceptWritten(p) \/ Attested(p)
      PROVE  UNCHANGED Canon!vars
  <2>1. UNCHANGED <<canon, published>>
      BY <1>3, CanonMoves
  <2>2. atts' = atts
      BY <1>3, ApprovalsMove DEF DraftDiffed
  <2> QED BY <2>1, <2>2, MappingKept
<1> QED BY <1>1, <1>2, <1>3 DEF Canon!Next

\* The commands implement CanonHistory: documents change only by publishing
\* new versions, each with an approval for the one before it, not used yet.
THEOREM WorldRefinesCanon == Spec => WorldImplementsCanon
<1>1. Init => Canon!Init
    BY DEF Init, Canon!Init, BaseOf
<1> QED BY WorldInvariant, <1>1, StepImplementsCanon, PTL
        DEF Spec, WorldImplementsCanon, Canon!Spec
=============================================================================
