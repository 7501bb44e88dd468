----------------------------- MODULE HectorStory -----------------------------
(***************************************************************************)
(* The story that is imported from a draft of the lumen-federation pack    *)
(* (src/internal/harness/story/story_hector.go), from the start of the     *)
(* server to the next: importHector, refreshHectorHistory, createStory and *)
(* replaceStory file by file, and what is played on the story meanwhile.   *)
(* None of them takes the lock of the story.                               *)
(*                                                                         *)
(* What the pages and the worker do under the lock is one step each here;  *)
(* where such a handler can stop between its writes is in StoryRoom and    *)
(* StoryFiles.                                                             *)
(*                                                                         *)
(* A start is a list of file operations; the server can die before each.   *)
(* A turn is [id, by]: by is "draft" for the turns of createStory as       *)
(* ParseHectorDraft gives them, "import" for those of the history, which   *)
(* have another source and input id, and "played" for those of the GM.     *)
(***************************************************************************)
EXTENDS Naturals, Sequences, FiniteSets, SequencesExt

CONSTANTS
  FirstDir,    \* the directory story_hector_first_residual_check
  Dirs,        \* bound: it, and those whose name goes on with a random id
  Versions,    \* the contents the source draft has one after the other: the
               \* turn ids of its headings as they come, and never none
  Inbox,       \* the turn ids found in runs/inbox/*-body.md
  MaxTurn,     \* bound: the turns of the story
  MaxLines,    \* bound: the lines of turns.jsonl, up to which a job may add one
  MaxDeaths,   \* bound: how often the server dies
  Nil          \* no file, nothing

ASSUME HectorAssumption ==
  /\ FirstDir \in Dirs
  /\ Versions \in Seq(Seq(1..MaxTurn) \ {<<>>}) /\ Versions # <<>>
  /\ Inbox \subseteq 1..MaxTurn
  /\ MaxDeaths \in Nat /\ MaxTurn \in Nat /\ MaxLines \in Nat

VARIABLES
  source,     \* the version of the draft, 0 when it is no more in drafts/
  dir,        \* the files of each directory
  pc,         \* "down", "import", "refresh", "up"
  work,       \* the story that is being written and the writes that are left
  edit,       \* an import request between its reading and its writing
  deaths,     \* counter of the bound
  outpaced,   \* history: a start has put turns past a job on its way, or an
              \* import on a page more than a new hash over what stood there
  adrift,     \* history: a start found a current turn that nothing reaches
  halved,     \* history: the server died between manifest.json and state.json
  jumbled     \* history: a story was made of headings that do not ascend

traces == <<outpaced, adrift, halved, jumbled>>
storyVars == <<source, dir, pc, work, edit, deaths, traces>>

----------------------------------------------------------------------------
(* Files *)

\* job is the turn id of the active progression job, 0 if there is none, and
\* failed says that the story waits for somebody to resume or cancel it.
Manifest == [cur : 0..MaxTurn, hash : 1..Len(Versions), job : 0..MaxTurn,
             failed : BOOLEAN]
TurnRec == [id : 1..MaxTurn, by : {"draft", "import", "played"}]

\* What stands for a file that is not there is none.
ASSUME NilAssumption == Nil \notin Manifest /\ Nil \notin {"seed", "played", "blank"}

Empty == [made |-> FALSE, manifest |-> Nil, state |-> Nil, turns |-> <<>>]

Ids(turns) == {turns[i].id : i \in DOMAIN turns}
MaxOf(S) == IF S = {} THEN 0 ELSE CHOOSE n \in S : \A m \in S : m <= n

\* Mutant: of two turn ids, their sum.
Added(m, n) == m + n

Larger(m, n) == IF m < n THEN n ELSE m

\* listStories: a directory without a readable manifest is passed over.
Listed == {d \in Dirs : dir[d].manifest # Nil}
Story == CHOOSE d \in Listed : TRUE

----------------------------------------------------------------------------
(* The draft *)

\* ParseHectorDraft of the draft alone: its turn is that of the last heading.
Headings == Versions[source]
DraftTurn == Last(Headings)

\* parseHectorHistory: every turn that the draft or a file of the inbox has.
History == ToSet(Headings) \cup Inbox
HistoryTurn == MaxOf(History)

Ascend(ids) == \A i, j \in DOMAIN ids : i < j => ids[i] < ids[j]

InAscent(S) ==
  [i \in 1..Cardinality(S) |-> CHOOSE n \in S : Cardinality({m \in S : m <= n}) = i]

\* The turns of createStory come as their headings do, a turn that has two of
\* them twice; those of the history are sorted, each there once.
AsTurns(ids, by) == [i \in DOMAIN ids |-> [id |-> ids[i], by |-> by]]
DraftTurns == AsTurns(Headings, "draft")
HistoryTurns == AsTurns(InAscent(History), "import")

----------------------------------------------------------------------------
(* Writing a story *)

TurnWrites(turns) == [i \in 1..Len(turns) |-> <<"turn", turns[i]>>]

\* createStory
CreateWrites(m, state, turns) ==
  TurnWrites(turns) \o <<<<"manifest", m>>, <<"state", state>>>>

\* Mutant: turns.jsonl is not removed.
KeepOldTurns(m, state, turns) ==
  <<<<"remove", "manifest">>, <<"remove", "state">>>> \o CreateWrites(m, state, turns)

\* replaceStory removes first; events.jsonl and summary.md go along.
ReplaceWrites(m, state, turns) ==
  <<<<"remove", "turns">>, <<"remove", "manifest">>, <<"remove", "state">>>>
    \o CreateWrites(m, state, turns)

Write(f, w) ==
  CASE w[1] = "turn"     -> [f EXCEPT !.turns = Append(@, w[2]), !.made = TRUE]
    [] w[1] = "manifest" -> [f EXCEPT !.manifest = w[2], !.made = TRUE]
    [] w[1] = "state"    -> [f EXCEPT !.state = w[2]]
    [] w[1] = "remove"   -> [f EXCEPT ![w[2]] = IF w[2] = "turns" THEN <<>> ELSE Nil]

\* What an import of the draft makes of a manifest.  The title and the summary
\* may differ as well, so it may be written though nothing changes here.
Imported(m) == [m EXCEPT !.cur = Larger(m.cur, DraftTurn), !.hash = source]

NewManifest == [cur |-> DraftTurn, hash |-> source, job |-> 0, failed |-> FALSE]

\* Turns up to this one leave no place for that of the job.
Overtakes(t, m) == m.job # 0 /\ t >= m.job

NoWork == [dir |-> Nil, writes |-> <<>>]

StoryInit ==
  /\ source = 1
  /\ dir = [d \in Dirs |-> Empty]
  /\ pc = "down"
  /\ work = NoWork
  /\ edit = Nil
  /\ deaths = 0
  /\ outpaced = FALSE /\ adrift = FALSE /\ halved = FALSE /\ jumbled = FALSE

\* The start reads the draft before anything else of the story.
BeginStart ==
  /\ pc = "down" /\ source # 0
  /\ pc' = "import"
  /\ UNCHANGED <<source, dir, work, edit, deaths, traces>>

Unused ==
  IF dir[FirstDir].made THEN {d \in Dirs : ~dir[d].made} ELSE {FirstDir}

\* Mutant: the story that is listed is not looked for.
NoneImported == TRUE

NotImported == Listed = {}

\* importHector at the start: a directory that is there, but not listed, is
\* left as it is and another one is made.
ImportNew ==
  /\ pc = "import" /\ source # 0 /\ NotImported
  /\ \E d \in Unused :
       work' = [dir |-> d,
                writes |-> CreateWrites(NewManifest, "seed", DraftTurns)]
  /\ jumbled' = (jumbled \/ ~Ascend(Headings))
  /\ pc' = "refresh"
  /\ UNCHANGED <<source, dir, edit, deaths, outpaced, adrift, halved>>

ImportAgain ==
  /\ pc = "import" /\ source # 0 /\ ~NotImported
  /\ LET m == dir[Story].manifest IN
       dir' = [dir EXCEPT ![Story].manifest = Imported(m)]
  /\ pc' = "refresh"
  /\ UNCHANGED <<source, work, edit, deaths, traces>>

WriteNext ==
  /\ work.writes # <<>>
  /\ dir' = [dir EXCEPT ![work.dir] = Write(@, Head(work.writes))]
  /\ work' = IF Len(work.writes) = 1 THEN NoWork
             ELSE [dir |-> work.dir, writes |-> Tail(work.writes)]
  /\ UNCHANGED <<source, pc, edit, deaths, traces>>

\* Mutant: what was played is not looked at.
NothingPlayed(m, turns) == FALSE

\* The story has gone on beyond the draft.
PlayedOn(m, turns) == MaxOf(Ids(turns)) > HistoryTurn \/ m.cur > HistoryTurn

\* The current turn is one that the draft had, and neither the turns nor the
\* draft have any more.
Unreached(m, turns) == m.cur > Larger(MaxOf(Ids(turns)), HistoryTurn)

\* A state that cannot be read counts as an empty one.
KeptState(d) == IF dir[d].state = Nil THEN "blank" ELSE dir[d].state

\* refreshHectorHistory
Refresh ==
  /\ pc = "refresh" /\ work = NoWork /\ source # 0
  /\ LET d == Story
         m == dir[d].manifest
         turns == dir[d].turns
         next == [m EXCEPT !.cur = Larger(m.cur, Larger(MaxOf(Ids(turns)), HistoryTurn)),
                           !.hash = source]
     IN /\ adrift' = (adrift \/ Unreached(m, turns))
        /\ IF m.hash = source /\ turns = HistoryTurns
           THEN UNCHANGED <<dir, work, outpaced>>
           ELSE IF PlayedOn(next, turns)
           THEN dir' = [dir EXCEPT ![d].manifest = next] /\ UNCHANGED <<work, outpaced>>
           ELSE /\ work' = [dir |-> d, writes |->
                      ReplaceWrites(next, KeptState(d), HistoryTurns)]
                /\ outpaced' = (outpaced \/ Overtakes(HistoryTurn, m))
                /\ UNCHANGED dir
  /\ pc' = "up"
  /\ UNCHANGED <<source, edit, deaths, halved, jumbled>>

\* The draft has gone: Run returns 1.
StartFails ==
  /\ pc \in {"import", "refresh"} /\ work = NoWork /\ source = 0
  /\ pc' = "down"
  /\ UNCHANGED <<source, dir, work, edit, deaths, traces>>

\* The worker and the pages come after the last write.
Up == pc = "up" /\ work = NoWork

----------------------------------------------------------------------------
(* While the server is up *)

\* submitStoryInput: the job has the id of the turn after the last one, be
\* that the current one or not.
Submit ==
  /\ Up
  /\ \E d \in Listed : LET turns == dir[d].turns IN
       /\ dir[d].manifest.job = 0 /\ turns # <<>> /\ Last(turns).id < MaxTurn
       /\ dir' = [dir EXCEPT ![d].manifest.job = Last(turns).id + 1]
  /\ UNCHANGED <<source, pc, work, edit, deaths, traces>>

\* applyGMOutput
Apply ==
  /\ Up
  /\ \E d \in Listed : LET m == dir[d].manifest IN
       /\ m.job # 0 /\ ~m.failed /\ Len(dir[d].turns) < MaxLines
       /\ dir' = [dir EXCEPT ![d].turns = Append(@, [id |-> m.job, by |-> "played"]),
                             ![d].manifest = [m EXCEPT !.cur = m.job, !.job = 0],
                             ![d].state = IF @ \in {Nil, "blank"} THEN "blank" ELSE "played"]
  /\ UNCHANGED <<source, pc, work, edit, deaths, traces>>

\* failGMJob
Fail ==
  /\ Up
  /\ \E d \in Listed :
       /\ dir[d].manifest.job # 0 /\ ~dir[d].manifest.failed
       /\ dir' = [dir EXCEPT ![d].manifest.failed = TRUE]
  /\ UNCHANGED <<source, pc, work, edit, deaths, traces>>

\* resumeFailedJob: the new job has the turn id of the failed one, whatever
\* the current turn has become.
ResumeFailedJob ==
  /\ Up
  /\ \E d \in Listed :
       /\ dir[d].manifest.failed
       /\ dir' = [dir EXCEPT ![d].manifest.failed = FALSE]
  /\ UNCHANGED <<source, pc, work, edit, deaths, traces>>

\* cancelFailedJob
CancelFailedJob ==
  /\ Up
  /\ \E d \in Listed :
       /\ dir[d].manifest.failed
       /\ dir' = [dir EXCEPT ![d].manifest.job = 0, ![d].manifest.failed = FALSE]
  /\ UNCHANGED <<source, pc, work, edit, deaths, traces>>

\* The turns up to the first with the id t.
UpTo(turns, t) ==
  SubSeq(turns, 1, CHOOSE i \in DOMAIN turns :
                     turns[i].id = t /\ \A k \in 1..(i - 1) : turns[k].id # t)

\* rollbackStoryToTurn: a failed job does not stand in its way, and stays.
Rollback ==
  /\ Up
  /\ \E d \in Listed : \E t \in Ids(dir[d].turns) :
       /\ dir[d].manifest.job = 0 \/ dir[d].manifest.failed
       /\ dir' = [dir EXCEPT ![d].turns = UpTo(@, t), ![d].manifest.cur = t]
  /\ UNCHANGED <<source, pc, work, edit, deaths, traces>>

\* handleImportHector reads the list of stories ...
BeginImport ==
  /\ Up /\ edit = Nil /\ source # 0
  /\ \E d \in Listed :
       edit' = [dir |-> d, manifest |-> Imported(dir[d].manifest)]
  /\ UNCHANGED <<source, dir, pc, work, deaths, traces>>

\* ... and writes the manifest it has read then, whatever stands there now.
EndImport ==
  /\ Up /\ edit # Nil
  /\ dir' = [dir EXCEPT ![edit.dir].manifest = edit.manifest]
  /\ outpaced' = (outpaced \/ edit.manifest
                                # [dir[edit.dir].manifest EXCEPT !.hash = edit.manifest.hash])
  /\ edit' = Nil
  /\ UNCHANGED <<source, pc, work, deaths, adrift, halved, jumbled>>

\* The draft is edited; or draft reject moves it away.  What a start writes
\* it has read before, so the edits between two writes are left out.
EditSource ==
  /\ source \in 1..Len(Versions) - 1 /\ work = NoWork
  /\ source' = source + 1
  /\ UNCHANGED <<dir, pc, work, edit, deaths, traces>>

RejectSource ==
  /\ source # 0 /\ work = NoWork
  /\ source' = 0
  /\ UNCHANGED <<dir, pc, work, edit, deaths, traces>>

\* The container is restarted (restart: unless-stopped).
Die ==
  /\ pc # "down" /\ deaths < MaxDeaths
  /\ deaths' = deaths + 1
  /\ halved' = (halved \/ (work.writes # <<>> /\ Head(work.writes)[1] = "state"))
  /\ pc' = "down" /\ work' = NoWork /\ edit' = Nil
  /\ UNCHANGED <<source, dir, outpaced, adrift, jumbled>>

----------------------------------------------------------------------------
(* Properties *)

File ==
  [made : BOOLEAN, manifest : Manifest \cup {Nil},
   state : {"seed", "played", "blank", Nil}, turns : Seq(TurnRec)]

FileWrite ==
  ({"turn"} \X TurnRec) \cup ({"manifest"} \X Manifest)
    \cup ({"state"} \X {"seed", "played", "blank"})
    \cup ({"remove"} \X {"turns", "manifest", "state"})

StoryTypeOK ==
  /\ source \in 0..Len(Versions)
  /\ dir \in [Dirs -> File]
  /\ pc \in {"down", "import", "refresh", "up"}
  /\ work \in [dir : Dirs \cup {Nil}, writes : Seq(FileWrite)]
  /\ edit \in [dir : Dirs, manifest : Manifest] \cup {Nil}
  /\ deaths \in 0..MaxDeaths
  /\ outpaced \in BOOLEAN /\ adrift \in BOOLEAN /\ halved \in BOOLEAN /\ jumbled \in BOOLEAN

\* However often the start dies on its way, one story is served, its current
\* turn is one of its turns, and it has its state - but for a start that died
\* between manifest.json and state.json, which no later start makes good
\* (createStory, replaceStory), and for an import that goes past the turns, or
\* that raised the current turn to one the draft has lost before the refresh.
ServedStoryIsWhole ==
  Up => /\ Cardinality(Listed) = 1
        /\ outpaced \/ adrift \/ dir[Story].manifest.cur \in Ids(dir[Story].turns)
        /\ halved \/ dir[Story].state \notin {Nil, "blank"}

\* The turns are still those that createStory wrote as the headings came.
AsWritten(turns) == jumbled /\ turns # <<>> /\ turns[1].by = "draft"

\* The turns of a story stay in the order of their ids, through starts, edits
\* of the draft, rollbacks, failed jobs and their resumption, unless a start
\* replaces them while a job for one of the new turns is on its way, or an
\* import on a page undoes what came since it has read (outpaced).  Headings
\* that do not ascend are no exception once a refresh has sorted them.
TurnsStayInOrder ==
  outpaced \/ \A d \in Dirs :
    AsWritten(dir[d].turns) \/ \A i, j \in DOMAIN dir[d].turns :
      i < j => dir[d].turns[i].id < dir[d].turns[j].id

\* The turns played beyond the last turn of the history survive every start,
\* wherever it dies (refreshHectorHistory).  Those up to the last turn do not:
\* an edit of the draft that goes past them replaces them.
PlayedOnSurvives ==
  [][\A d \in Listed : \A r \in ToSet(dir[d].turns) :
       source # 0 /\ r.by = "played" /\ r.id > HistoryTurn
         => Up \/ r \in ToSet(dir'[d].turns)]_storyVars
=============================================================================
