-------------------------- MODULE StoryFilesProofs --------------------------
(***************************************************************************)
(* Proofs about StoryFiles, for any number of processes, turns, deaths and *)
(* full disks.  The argument:                                              *)
(*                                                                         *)
(*   Place, Holds  where the marks of a process can stand in the list of   *)
(*                 steps of its operation, and what it has read by then;   *)
(*                 hence every variable keeps its type                     *)
(*   Owns          who is past the creation of the lock file owns it, so   *)
(*                 that no two processes are                               *)
(*   Knows         what an owner has read is still true: no other process  *)
(*                 writes the manifest or a turn, and a reader only cuts   *)
(*                 what follows the last newline                           *)
(*   LinesOK       turns.jsonl is readable, in order, holds what the       *)
(*                 manifest has named, and nothing after the active job    *)
(*                                                                         *)
(* The last three hold until a process overtakes another, or an append     *)
(* ends just before its newline (Clean): the code has nothing against      *)
(* either.                                                                 *)
(***************************************************************************)
EXTENDS StoryFiles, SequenceTheorems, TLAPS

----------------------------------------------------------------------------
(* The lists of steps *)

LEMMA OpsAre ==
  Ops = {"start", "apply", "fail", "submit", "resume", "cancel", "rollback",
         "recover", "export", "read"}
BY DEF Ops, Steps

\* What stands where in the lists of steps.
LEMMA Places ==
  ASSUME NEW op \in Ops, NEW at \in 1..Len(Steps[op])
  PROVE  LET s == Steps[op][at] IN
    /\ s = "look" <=> (op = "apply" /\ at = 2) \/ (op \notin {"apply", "export", "read"} /\ at = 1)
    /\ s = "create" <=> (op = "apply" /\ at = 3) \/ (op \notin {"apply", "export", "read"} /\ at = 2)
    /\ s = "stamp" <=> (op = "apply" /\ at = 4) \/ (op \notin {"apply", "export", "read"} /\ at = 3)
    /\ s = "manifest" <=> \/ op \in {"start", "resume", "cancel", "rollback"} /\ at = 4
                          \/ op \in {"apply", "submit"} /\ at = 5
                          \/ op = "export" /\ at = 1
    /\ s = "scan" <=> \/ op \in {"apply", "read"} /\ at = 1
                      \/ op = "submit" /\ at = 4
                      \/ op \in {"resume", "rollback", "recover"} /\ at = 5
                      \/ op = "export" /\ at = 2
    /\ s = "scan_events" <=> op = "recover" /\ at = 4
    /\ s = "note" <=> \/ op \in {"start", "fail", "cancel"} /\ at = 5
                      \/ op \in {"apply", "submit", "resume", "recover"} /\ at = 6
                      \/ op = "rollback" /\ at = 8
                      \/ op = "export" /\ at = 4
    /\ s = "append" <=> op = "apply" /\ at = 7
    /\ s = "start" <=> op = "start" /\ at = 6
    /\ s = "publish" <=> (op = "apply" /\ at = 8) \/ (op = "rollback" /\ at = 7)
    /\ s = "queue" <=> op \in {"submit", "resume"} /\ at = 7
    /\ s = "clear" <=> op = "cancel" /\ at = 6
    /\ s = "fail" <=> op = "fail" /\ at = 4
    /\ s = "rewrite" <=> op = "rollback" /\ at = 6
    /\ s = "bundle" <=> op = "export" /\ at = 3
    /\ s = "unlock" <=> op \notin {"export", "read"} /\ at = Len(Steps[op])
<1>1. CASE op = "start"
  <2>1. Steps[op] = StartSteps  BY <1>1 DEF Steps
  <2>2. at \in 1..7 /\ Len(Steps[op]) = 7  BY <2>1 DEF StartSteps
  <2>3. Steps[op][at] = <<"look", "create", "stamp", "manifest", "note", "start", "unlock">>[at]
    BY <2>1 DEF StartSteps
  <2>4. at = 1 \/ at = 2 \/ at = 3 \/ at = 4 \/ at = 5 \/ at = 6 \/ at = 7  BY <2>2
  <2> QED  BY <1>1, <2>2, <2>3, <2>4
<1>2. CASE op = "apply"
  <2>1. Steps[op] = ApplySteps  BY <1>2 DEF Steps
  <2>2. at \in 1..9 /\ Len(Steps[op]) = 9  BY <2>1 DEF ApplySteps
  <2>3. Steps[op][at] = <<"scan", "look", "create", "stamp", "manifest", "note", "append", "publish", "unlock">>[at]
    BY <2>1 DEF ApplySteps
  <2>4. at = 1 \/ at = 2 \/ at = 3 \/ at = 4 \/ at = 5 \/ at = 6 \/ at = 7 \/ at = 8 \/ at = 9  BY <2>2
  <2> QED  BY <1>2, <2>2, <2>3, <2>4
<1>3. CASE op = "fail"
  <2>1. Steps[op] = FailSteps  BY <1>3 DEF Steps
  <2>2. at \in 1..6 /\ Len(Steps[op]) = 6  BY <2>1 DEF FailSteps
  <2>3. Steps[op][at] = <<"look", "create", "stamp", "fail", "note", "unlock">>[at]
    BY <2>1 DEF FailSteps
  <2>4. at = 1 \/ at = 2 \/ at = 3 \/ at = 4 \/ at = 5 \/ at = 6  BY <2>2
  <2> QED  BY <1>3, <2>2, <2>3, <2>4
<1>4. CASE op = "submit"
  <2>1. Steps[op] = SubmitSteps  BY <1>4 DEF Steps
  <2>2. at \in 1..8 /\ Len(Steps[op]) = 8  BY <2>1 DEF SubmitSteps
  <2>3. Steps[op][at] = <<"look", "create", "stamp", "scan", "manifest", "note", "queue", "unlock">>[at]
    BY <2>1 DEF SubmitSteps
  <2>4. at = 1 \/ at = 2 \/ at = 3 \/ at = 4 \/ at = 5 \/ at = 6 \/ at = 7 \/ at = 8  BY <2>2
  <2> QED  BY <1>4, <2>2, <2>3, <2>4
<1>5. CASE op = "resume"
  <2>1. Steps[op] = ResumeSteps  BY <1>5 DEF Steps
  <2>2. at \in 1..8 /\ Len(Steps[op]) = 8  BY <2>1 DEF ResumeSteps
  <2>3. Steps[op][at] = <<"look", "create", "stamp", "manifest", "scan", "note", "queue", "unlock">>[at]
    BY <2>1 DEF ResumeSteps
  <2>4. at = 1 \/ at = 2 \/ at = 3 \/ at = 4 \/ at = 5 \/ at = 6 \/ at = 7 \/ at = 8  BY <2>2
  <2> QED  BY <1>5, <2>2, <2>3, <2>4
<1>6. CASE op = "cancel"
  <2>1. Steps[op] = CancelSteps  BY <1>6 DEF Steps
  <2>2. at \in 1..7 /\ Len(Steps[op]) = 7  BY <2>1 DEF CancelSteps
  <2>3. Steps[op][at] = <<"look", "create", "stamp", "manifest", "note", "clear", "unlock">>[at]
    BY <2>1 DEF CancelSteps
  <2>4. at = 1 \/ at = 2 \/ at = 3 \/ at = 4 \/ at = 5 \/ at = 6 \/ at = 7  BY <2>2
  <2> QED  BY <1>6, <2>2, <2>3, <2>4
<1>7. CASE op = "rollback"
  <2>1. Steps[op] = RollbackSteps  BY <1>7 DEF Steps
  <2>2. at \in 1..9 /\ Len(Steps[op]) = 9  BY <2>1 DEF RollbackSteps
  <2>3. Steps[op][at] = <<"look", "create", "stamp", "manifest", "scan", "rewrite", "publish", "note", "unlock">>[at]
    BY <2>1 DEF RollbackSteps
  <2>4. at = 1 \/ at = 2 \/ at = 3 \/ at = 4 \/ at = 5 \/ at = 6 \/ at = 7 \/ at = 8 \/ at = 9  BY <2>2
  <2> QED  BY <1>7, <2>2, <2>3, <2>4
<1>8. CASE op = "recover"
  <2>1. Steps[op] = RecoverSteps  BY <1>8 DEF Steps
  <2>2. at \in 1..7 /\ Len(Steps[op]) = 7  BY <2>1 DEF RecoverSteps
  <2>3. Steps[op][at] = <<"look", "create", "stamp", "scan_events", "scan", "note", "unlock">>[at]
    BY <2>1 DEF RecoverSteps
  <2>4. at = 1 \/ at = 2 \/ at = 3 \/ at = 4 \/ at = 5 \/ at = 6 \/ at = 7  BY <2>2
  <2> QED  BY <1>8, <2>2, <2>3, <2>4
<1>9. CASE op = "export"
  <2>1. Steps[op] = ExportSteps  BY <1>9 DEF Steps
  <2>2. at \in 1..4 /\ Len(Steps[op]) = 4  BY <2>1 DEF ExportSteps
  <2>3. Steps[op][at] = <<"manifest", "scan", "bundle", "note">>[at]
    BY <2>1 DEF ExportSteps
  <2>4. at = 1 \/ at = 2 \/ at = 3 \/ at = 4  BY <2>2
  <2> QED  BY <1>9, <2>2, <2>3, <2>4
<1>10. CASE op = "read"
  <2>1. Steps[op] = ReadSteps  BY <1>10 DEF Steps
  <2>2. at \in 1..1 /\ Len(Steps[op]) = 1  BY <2>1 DEF ReadSteps
  <2>3. Steps[op][at] = <<"scan">>[at]
    BY <2>1 DEF ReadSteps
  <2>4. at = 1  BY <2>2
  <2> QED  BY <1>10, <2>2, <2>3, <2>4
<1> QED  BY OpsAre, <1>1, <1>2, <1>3, <1>4, <1>5, <1>6, <1>7, <1>8, <1>9, <1>10

LEMMA Lengths ==
  /\ Len(Steps["start"]) = 7 /\ Len(Steps["apply"]) = 9 /\ Len(Steps["fail"]) = 6
  /\ Len(Steps["submit"]) = 8 /\ Len(Steps["resume"]) = 8 /\ Len(Steps["cancel"]) = 7
  /\ Len(Steps["rollback"]) = 9 /\ Len(Steps["recover"]) = 7 /\ Len(Steps["export"]) = 4
  /\ Len(Steps["read"]) = 1
BY DEF Steps, StartSteps, ApplySteps, FailSteps, SubmitSteps, ResumeSteps, CancelSteps,
       RollbackSteps, RecoverSteps, ExportSteps, ReadSteps

LEMMA LongOps == \A op \in Ops \ {"export", "read"} : Len(Steps[op]) \in 6..9
BY OpsAre, Lengths

----------------------------------------------------------------------------
(* Types *)

\* Where the marks of a process can stand.
Place(m) ==
  /\ m.op \notin Ops => m = Idle
  /\ m.op \in Ops =>
       /\ m.at \in 1..Len(Steps[m.op])
       /\ (m.first = "remove" => Steps[m.op][m.at] = "look")
       /\ (m.first \in {"cut", "tell"} => Steps[m.op][m.at] \in {"scan", "scan_events"})
       /\ (m.error => Steps[m.op][m.at] = "unlock")
       /\ (m.writing => m.first = "tell" \/ (m.first = "nothing" /\ Steps[m.op][m.at] \in {"append", "note"}))

\* What it holds when it is going to use it.
Holds(m) ==
  /\ m.op = "apply" => m.turn \in Turns
  /\ ~m.error =>
       /\ (m.op = "start" /\ m.at > 4 => m.turn \in Turns)
       /\ (m.op = "start" /\ m.at \in 5..6 => m.manifest \in Manifest /\ m.manifest.job # None)
       /\ (m.op = "submit" /\ m.at \in 6..7 => m.manifest \in Manifest /\ m.turn \in Turns)
       /\ (m.op = "resume" /\ m.at \in 5..7 => m.manifest \in Manifest /\ m.turn \in Turns)
       /\ (m.op = "cancel" /\ m.at \in 5..6 => m.manifest \in Manifest)
       /\ (m.op = "rollback" /\ m.at \in 5..7 => m.manifest \in Manifest)

\* The operations of the one worker.
WorkerOps == {"start", "apply", "fail"}

Good(m) == m \in Process /\ Place(m) /\ Holds(m)

LEMMA IdleGood == Good(Idle) /\ Idle.op \notin Ops
<1>1. <<>> \in Seq(Turns)  OBVIOUS
<1>2. 0 \in 0..MaxTurns  BY FilesAssumption
<1>3. Idle \in Process  BY <1>1, <1>2 DEF Idle, Process
<1>4. Idle.op \notin Ops /\ Idle.op = "none"  BY OpsAre DEF Idle
<1> QED  BY <1>3, <1>4 DEF Good, Place, Holds

LEMMA OnwardGoes ==
  ASSUME NEW m, Good(m), m.op \in Ops, ~m.error, m.at < Len(Steps[m.op])
  PROVE  LET n == [m EXCEPT !.at = @ + 1, !.first = "nothing", !.writing = FALSE] IN
         /\ Onward(m) = [m EXCEPT !.at = @ + 1, !.first = "nothing"]
         /\ n \in Process /\ Place(n)
<1>1. m \in Process /\ Place(m)  BY DEF Good
<1>2. Len(Steps[m.op]) \in 1..9  BY OpsAre, Lengths
<1>3. m.at \in 1..Len(Steps[m.op])  BY <1>1 DEF Place
<1>5. m.at + 1 \in 1..Len(Steps[m.op])  BY <1>2, <1>3
<1>4. m.at + 1 \in Nat
  <2> DEFINE l == Len(Steps[m.op])
  <2>1. l \in 1..9 /\ m.at \in 1..l /\ m.at < l  BY <1>2, <1>3
  <2> HIDE DEF l
  <2> QED  BY <2>1
<1> QED  BY <1>1, <1>3, <1>4, <1>5 DEF Onward, Process, Place

LEMMA FirstStep ==
  ASSUME NEW n \in Process, n.op \in Ops, n.at = 1, n.first = "nothing", ~n.error,
         ~n.writing, n.op = "apply" => n.turn \in Turns
  PROVE  Good(n)
<1> DEFINE L == Len(Steps[n.op])
<1>1. L \in 1..9  BY OpsAre, Lengths
<1>2. Place(n)
  <2>1. n.at \in 1..L
    <3> HIDE DEF L
    <3> QED  BY <1>1
  <2> QED  BY <2>1 DEF Place
<1>3. Holds(n)
  <2>1. ~(n.at > 4) /\ n.at \notin 5..6 /\ n.at \notin 5..7 /\ n.at \notin 6..7  OBVIOUS
  <2> QED  BY <2>1 DEF Holds
<1> QED  BY <1>2, <1>3 DEF Good

LEMMA BegunGood ==
  ASSUME NEW op \in Ops, NEW t \in 0..MaxTurns, op = "apply" => t \in Turns
  PROVE  Good([Idle EXCEPT !.op = op, !.at = 1, !.turn = t])
<1> DEFINE n == [Idle EXCEPT !.op = op, !.at = 1, !.turn = t]
<1>1. n \in Process  BY IdleGood DEF Good, Process
<1>2. /\ n.op = op /\ n.at = 1 /\ n.turn = t
      /\ n.first = "nothing" /\ ~n.error /\ ~n.writing
  BY DEF Idle
<1>3. n.op = "apply" => n.turn \in Turns  BY <1>2
<1>4. Good(n)
  <2> HIDE DEF n
  <2> QED  BY <1>1, <1>2, <1>3, FirstStep
<1> QED  BY <1>4

LEMMA NewGood ==
  ASSUME NEW op \in Ops \ {"apply"}
  PROVE  Good([Idle EXCEPT !.op = op, !.at = 1])
<1> DEFINE n == [Idle EXCEPT !.op = op, !.at = 1]
<1>1. n \in Process  BY IdleGood DEF Good, Process
<1>2. n.op = op /\ n.at = 1 /\ n.first = "nothing" /\ ~n.error /\ ~n.writing
  BY DEF Idle
<1>3. Good(n)
  <2> HIDE DEF n
  <2> QED  BY <1>1, <1>2, FirstStep
<1> QED  BY <1>3

LEMMA EndedGood ==
  ASSUME NEW m, Good(m), m.op \in Ops, ~m.error => m.at = Len(Steps[m.op])
  PROVE  /\ Good(Ended(m))
         /\ (Ended(m).op \in WorkerOps => m.op \in WorkerOps)
         /\ ~Ended(m).writing /\ Ended(m).at < 2
<1>1. ASSUME m.op = "start", ~m.error  PROVE m.turn \in Turns
  <2>1. m.at = 7  BY <1>1, Lengths
  <2> QED  BY <1>1, <2>1 DEF Good, Holds
<1>3. MaxTurns \in Nat /\ Turns \subseteq 0..MaxTurns  BY FilesAssumption DEF Turns
<1> DEFINE a == [Idle EXCEPT !.op = "apply", !.at = 1, !.turn = m.turn]
<1> DEFINE f == [Idle EXCEPT !.op = "fail", !.at = 1]
<1>4. m.op = "start" /\ ~m.error => Good(a)  BY <1>1, <1>3, BegunGood, OpsAre
<1>5. Good(f)  BY NewGood, OpsAre
<1>6. Ended(m) \in {a, f, Idle}
      /\ (Ended(m) = a => m.op = "start" /\ ~m.error) /\ (Ended(m) = f => m.op = "apply")
  BY DEF Ended, Idle
<1>7. /\ a.op = "apply" /\ a.at = 1 /\ ~a.writing
      /\ f.op = "fail" /\ f.at = 1 /\ ~f.writing
      /\ Idle.op \notin WorkerOps /\ Idle.at = 0 /\ ~Idle.writing
  BY DEF Idle, WorkerOps
<1> HIDE DEF a, f
<1> QED  BY <1>4, <1>5, <1>6, <1>7, IdleGood DEF WorkerOps

LEMMA StoppedGood ==
  ASSUME NEW m, Good(m), m.op \in Ops
  PROVE  /\ Good(Stopped(m))
         /\ (Stopped(m).op \in WorkerOps => m.op \in WorkerOps)
         /\ ~Stopped(m).writing
<1>1. m \in Process /\ Place(m) /\ Holds(m)  BY DEF Good
<1>2. Len(Steps[m.op]) \in 1..9  BY OpsAre, Lengths
<1> DEFINE L == Len(Steps[m.op])
<1>5. m.at \in 1..L /\ L \in 1..9 /\ L \in 1..L
  <2>1. m.at \in 1..L /\ L \in 1..9  BY <1>1, <1>2 DEF Place
  <2> HIDE DEF L
  <2> QED  BY <2>1
<1>3. CASE Created(m)
  <2>1. m.op \notin {"export", "read"}
    <3>1. PICK i \in 1..(m.at - 1) : Steps[m.op][i] = "create"  BY <1>3 DEF Created
    <3>2. i \in 1..L
      <4> HIDE DEF L
      <4> QED  BY <1>5, <3>1
    <3> QED  BY <3>1, <3>2, Places
  <2>2. Steps[m.op][L] = "unlock"  BY <1>5, <2>1, Places
  <2> DEFINE n == [m EXCEPT !.at = L, !.error = TRUE, !.first = "nothing", !.writing = FALSE]
  <2>3. n \in Process
    <3>1. L \in Nat  BY <1>5
    <3> HIDE DEF L
    <3> QED  BY <1>1, <3>1 DEF Process
  <2>4. /\ n.op = m.op /\ n.at = L /\ n.error = TRUE /\ n.first = "nothing" /\ n.writing = FALSE
        /\ n.turn = m.turn
    BY <1>1 DEF Process
  <2>5. n = Stopped(m)  BY <1>3 DEF Stopped
  <2> HIDE DEF n
  <2>6. Place(n)  BY <1>5, <2>2, <2>4 DEF Place
  <2>7. Holds(n)  BY <1>1, <2>4 DEF Holds
  <2> QED  BY <2>3, <2>4, <2>5, <2>6, <2>7 DEF Good
<1>4. CASE ~Created(m)
  <2> DEFINE n == [m EXCEPT !.error = TRUE]
  <2>1. Ended(n) = IF m.op = "apply" THEN [Idle EXCEPT !.op = "fail", !.at = 1] ELSE Idle
    BY <1>1 DEF Ended, Process
  <2>2. Good([Idle EXCEPT !.op = "fail", !.at = 1])
    BY NewGood, OpsAre
  <2>3. Stopped(m) = Ended(n)  BY <1>4 DEF Stopped
  <2>4. ~[Idle EXCEPT !.op = "fail", !.at = 1].writing /\ ~Idle.writing
        /\ Idle.op \notin WorkerOps
    BY DEF Idle, WorkerOps
  <2> QED  BY <2>1, <2>2, <2>3, <2>4, IdleGood DEF WorkerOps
<1> QED  BY <1>3, <1>4

\* A step to the next place.
LEMMA NextGood ==
  ASSUME NEW m, Good(m), m.op \in Ops, ~m.error, m.at < Len(Steps[m.op]),
         NEW n \in Process, n.op = m.op, n.at = m.at + 1, n.first = "nothing",
         ~n.error, ~n.writing, Holds(n)
  PROVE  Good(n)
<1> DEFINE k == [m EXCEPT !.at = @ + 1, !.first = "nothing", !.writing = FALSE]
<1>1. k \in Process /\ Place(k)  BY OnwardGoes
<1>2. k.op = m.op /\ k.at = m.at + 1  BY DEF Good, Process
<1> HIDE DEF k
<1>3. n.at \in 1..Len(Steps[n.op])  BY <1>1, <1>2 DEF Place
<1>4. Place(n)  BY <1>3 DEF Place
<1> QED  BY <1>4 DEF Good

\* There is one worker.
Onlys == \A p, q \in Procs : proc[p].op \in WorkerOps /\ proc[q].op \in WorkerOps => p = q

ProcsOK == proc \in [Procs -> Process] /\ (\A p \in Procs : Good(proc[p])) /\ Onlys

\* What follows the last newline of turns.jsonl is the turn being written, or what is
\* left of one.
TailOK ==
  LET t == file["turns"].tail IN
  t # None => t.rec \in Turns \cup {Bad} /\ (t.whole => t.rec \in Turns)

FilesOK ==
  /\ file \in [{"turns", "events"} -> File] /\ TailOK
  /\ manifest \in Manifest
  /\ lock \in LockFile \cup {None}
  /\ acked \subseteq Turns /\ overtaken \in BOOLEAN /\ bare \in BOOLEAN
  /\ faults \in 0..MaxFaults

LEMMA ProcStep ==
  ASSUME ProcsOK, NEW p \in Procs, NEW n, Does(p, n), Good(n),
         n.op \in WorkerOps => proc[p].op \in WorkerOps
  PROVE  ProcsOK'
<1>1. proc' = [proc EXCEPT ![p] = n]  BY DEF Does
<1>2. proc' \in [Procs -> Process]  BY <1>1 DEF ProcsOK, Good
<1>3. \A q \in Procs : proc'[q] = IF q = p THEN n ELSE proc[q]  BY <1>1 DEF ProcsOK
<1>4. \A q \in Procs : Good(proc'[q])  BY <1>3 DEF ProcsOK
<1>5. \A q \in Procs : proc'[q].op \in WorkerOps => proc[q].op \in WorkerOps  BY <1>3
<1>6. Onlys'
  <2> SUFFICES ASSUME NEW q \in Procs, NEW r \in Procs,
                      proc'[q].op \in WorkerOps, proc'[r].op \in WorkerOps
               PROVE  q = r
    BY DEF Onlys
  <2> QED  BY <1>5 DEF ProcsOK, Onlys
<1>7. (\A q \in Procs : Good(proc[q]))'  BY <1>4
<1> QED  BY <1>2, <1>6, <1>7 DEF ProcsOK

LEMMA SameFiles ==
  ASSUME FilesOK, UNCHANGED <<files, acked, overtaken, bare, faults>>,
         lock' \in LockFile \cup {None}
  PROVE  FilesOK'
BY DEF FilesOK, TailOK, files

\* Where a process is.
LEMMA Working0 ==
  ASSUME ProcsOK, NEW p \in Procs, proc[p].op \in Ops
  PROVE  /\ Good(proc[p]) /\ proc[p] \in Process /\ Place(proc[p]) /\ Holds(proc[p])
         /\ proc[p].at \in 1..Len(Steps[proc[p].op])
BY DEF ProcsOK, Good, Place

LEMMA StoppedOK ==
  ASSUME ProcsOK, NEW p \in Procs, proc[p].op \in Ops, Does(p, Stopped(proc[p]))
  PROVE  ProcsOK'
BY Working0, StoppedGood, ProcStep

LEMMA OnwardIs ==
  ASSUME NEW m, Good(m), m.op \in Ops, ~m.error, m.at < Len(Steps[m.op])
  PROVE  LET n == Onward(m) IN
         /\ n \in [op : Ops \cup {"none"}, at : Nat, first : {"nothing", "remove", "cut", "tell"},
                   writing : BOOLEAN, error : BOOLEAN, turn : 0..MaxTurns,
                   manifest : Manifest \cup {None}, lines : Seq(Turns), seen : Nat]
         /\ n.op = m.op /\ n.at = m.at + 1 /\ n.first = "nothing"
         /\ n.writing = m.writing /\ n.error = m.error /\ n.turn = m.turn
         /\ n.manifest = m.manifest /\ n.lines = m.lines /\ n.seen = m.seen
<1>1. m \in Process  BY DEF Good
<1>2. Onward(m) = [m EXCEPT !.at = @ + 1, !.first = "nothing"]  BY OnwardGoes
<1>3. m.at + 1 \in Nat  BY <1>1 DEF Process
<1> QED  BY <1>1, <1>2, <1>3 DEF Process

\* Only the step that reads the manifest leaves a process with more to hold.
LEMMA HoldsOn ==
  ASSUME NEW m, Good(m), m.op \in Ops, ~m.error, Steps[m.op][m.at] # "manifest",
         NEW n, n.op = m.op, n.at = m.at + 1, n.turn = m.turn, n.manifest = m.manifest
  PROVE  Holds(n)
<1>1. Holds(m) /\ m.at \in 1..Len(Steps[m.op])  BY DEF Good, Place
<1>2. m.at \in Nat  BY DEF Good, Process
<1>3. /\ m.op \in {"start", "resume", "cancel", "rollback"} => m.at # 4
      /\ m.op = "submit" => m.at # 5
  BY <1>1, Places
<1> QED  BY <1>1, <1>2, <1>3 DEF Holds

LEMMA OnwardGood ==
  ASSUME NEW m, Good(m), m.op \in Ops, ~m.error,
         Steps[m.op][m.at] \notin {"manifest", "unlock"}
  PROVE  LET n == [Onward(m) EXCEPT !.writing = FALSE] IN
         /\ Good(n) /\ (n.op \in WorkerOps => m.op \in WorkerOps)
         /\ (~m.writing => n = Onward(m))
<1> DEFINE L == Len(Steps[m.op])
           n == [Onward(m) EXCEPT !.writing = FALSE]
<1>1. m \in Process /\ Place(m) /\ m.at \in 1..L  BY DEF Good, Place
<1>2. L \in 1..9  BY OpsAre, Lengths
<1>3. CASE m.at < L
  <2> DEFINE o == Onward(m)
  <2>1. /\ o \in Process /\ o.op = m.op /\ o.at = m.at + 1 /\ o.first = "nothing"
        /\ o.writing = m.writing /\ o.error = m.error /\ o.turn = m.turn
        /\ o.manifest = m.manifest
    BY <1>3, OnwardIs DEF Process
  <2> HIDE DEF o
  <2>2. /\ n \in Process /\ n.op = m.op /\ n.at = m.at + 1 /\ n.first = "nothing"
        /\ n.writing = FALSE /\ n.error = m.error /\ n.turn = m.turn
        /\ n.manifest = m.manifest /\ (~m.writing => n = o)
    BY <2>1 DEF Process, o
  <2> HIDE DEF n
  <2>3. Holds(n)  BY <2>2, HoldsOn
  <2>4. Good(n)  BY <1>3, <2>2, <2>3, NextGood
  <2> QED  BY <2>2, <2>4 DEF n, o
<1>4. CASE ~(m.at < L)
  <2>1. m.at = L
    <3> HIDE DEF L
    <3> QED  BY <1>1, <1>2, <1>4
  <2>2. m.op \in {"export", "read"}  BY <1>1, <2>1, Places
  <2>3. Onward(m) = Idle  BY <1>4, <2>2 DEF Onward, Ended
  <2>4. Idle \in Process /\ Idle.writing = FALSE /\ Idle.op \notin WorkerOps
    BY IdleGood DEF Good, Idle, WorkerOps
  <2>5. [Idle EXCEPT !.writing = FALSE] = Idle  BY <2>4 DEF Process
  <2> QED  BY <2>3, <2>4, <2>5, IdleGood
<1> QED  BY <1>3, <1>4

LEMMA OnwardOK ==
  ASSUME ProcsOK, NEW p \in Procs, proc[p].op \in Ops, ~proc[p].error, ~proc[p].writing,
         Steps[proc[p].op][proc[p].at] \notin {"manifest", "unlock"},
         Does(p, Onward(proc[p]))
  PROVE  ProcsOK'
<1> DEFINE n == [Onward(proc[p]) EXCEPT !.writing = FALSE]
<1>1. Good(proc[p])  BY Working0
<1>2. Good(n) /\ (n.op \in WorkerOps => proc[p].op \in WorkerOps) /\ n = Onward(proc[p])
  BY <1>1, OnwardGood
<1> QED  BY <1>2, ProcStep

----------------------------------------------------------------------------

\* At a step of its own, or before one.
LEMMA AtPlace ==
  ASSUME ProcsOK, NEW p \in Procs, proc[p].op \in Ops,
         Steps[proc[p].op][proc[p].at] # "unlock"
  PROVE  /\ Good(proc[p]) /\ proc[p] \in Process /\ Place(proc[p]) /\ Holds(proc[p])
         /\ proc[p].at \in 1..Len(Steps[proc[p].op]) /\ ~proc[p].error
BY Working0 DEF Place

\* The step a process is at is the last one only if it unlocks.
LEMMA NotLast ==
  ASSUME ProcsOK, NEW p \in Procs, proc[p].op \in Ops \ {"export", "read"},
         Steps[proc[p].op][proc[p].at] # "unlock"
  PROVE  ~proc[p].error /\ proc[p].at < Len(Steps[proc[p].op])
<1> DEFINE L == Len(Steps[proc[p].op])
<1>1. Place(proc[p]) /\ proc[p].at \in 1..L  BY Working0
<1>2. L \in 1..9  BY OpsAre, Lengths
<1>3. proc[p].at # L  BY <1>1, Places
<1>4. proc[p].at < L
  <2> HIDE DEF L
  <2> QED  BY <1>1, <1>2, <1>3
<1> QED  BY <1>1, <1>4 DEF Place

LEMMA LookLockProcs ==
  ASSUME ProcsOK, NEW p \in Procs, LookLock(p)
  PROVE  ProcsOK'
<1> DEFINE m == proc[p]
<1>1. m.op \in Ops /\ m.first = "nothing" /\ Steps[m.op][m.at] = "look"
  BY DEF LookLock, At
<1>2. Good(m) /\ m \in Process /\ Place(m) /\ Holds(m) /\ ~m.error  BY <1>1, AtPlace
<1>3. CASE Does(p, Onward(m))
  BY <1>1, <1>2, <1>3, OnwardOK DEF Place
<1>4. CASE Does(p, [m EXCEPT !.first = "remove"])
  <2> DEFINE n == [m EXCEPT !.first = "remove"]
  <2>1. n \in Process /\ n.op = m.op  BY <1>2 DEF Process
  <2>2. Place(n)  BY <1>1, <1>2 DEF Place, Process
  <2>3. Holds(n)  BY <1>2 DEF Holds, Process
  <2>4. Good(n)  BY <2>1, <2>2, <2>3 DEF Good
  <2> QED  BY <1>4, <2>1, <2>4, ProcStep
<1> QED  BY <1>3, <1>4 DEF LookLock

LEMMA LockProcs ==
  ASSUME ProcsOK, NEW p \in Procs,
         RemoveLock(p) \/ CreateLock(p) \/ StampLock(p) \/ Unlock(p)
  PROVE  ProcsOK'
<1> DEFINE m == proc[p]
<1>1. CASE RemoveLock(p)
  <2>1. m.op \in Ops /\ m.first = "remove" /\ Does(p, Onward(m))  BY <1>1 DEF RemoveLock, First
  <2>2. Steps[m.op][m.at] = "look"  BY <2>1, Working0 DEF Place
  <2>3. ~m.error /\ ~m.writing  BY <2>1, <2>2, AtPlace DEF Place
  <2> QED  BY <2>1, <2>2, <2>3, OnwardOK
<1>2. CASE CreateLock(p)
  <2>1. m.op \in Ops /\ m.first = "nothing" /\ Steps[m.op][m.at] = "create"
    BY <1>2 DEF CreateLock, At
  <2>2. ~m.error /\ ~m.writing  BY <2>1, AtPlace DEF Place
  <2>3. CASE Does(p, Onward(m))  BY <2>1, <2>2, <2>3, OnwardOK
  <2>4. CASE Does(p, Stopped(m))  BY <2>1, <2>4, StoppedOK
  <2> QED  BY <1>2, <2>3, <2>4 DEF CreateLock
<1>3. CASE StampLock(p)
  <2>1. m.op \in Ops /\ m.first = "nothing" /\ Steps[m.op][m.at] = "stamp" /\ Does(p, Onward(m))
    BY <1>3 DEF StampLock, At
  <2>2. ~m.error /\ ~m.writing  BY <2>1, AtPlace DEF Place
  <2> QED  BY <2>1, <2>2, OnwardOK
<1>4. CASE Unlock(p)
  <2>1. m.op \in Ops /\ m.first = "nothing" /\ Steps[m.op][m.at] = "unlock" /\ Does(p, Ended(m))
    BY <1>4 DEF Unlock, At
  <2>2. Good(m) /\ m.at \in 1..Len(Steps[m.op])  BY <2>1, Working0
  <2>3. m.at = Len(Steps[m.op])  BY <2>1, <2>2, Places
  <2> QED  BY <2>1, <2>2, <2>3, EndedGood, ProcStep
<1> QED  BY <1>1, <1>2, <1>3, <1>4

\* A file that is not damaged gives good lines.
LEMMA ReadLines ==
  ASSUME FilesOK, ~Damaged(file["turns"])
  PROVE  LinesRead(file["turns"]) \in Seq(Turns) /\ Len(file["turns"].lines) \in Nat
<1> DEFINE f == file["turns"]
<1>1. f \in File  BY DEF FilesOK
<1>2. f.lines \in Seq(Turns \cup {Bad})  BY <1>1 DEF File
<1>3. f.lines \in Seq(Turns)
  <2> DEFINE l == f.lines
  <2>1. \A i \in 1..Len(l) : l[i] \in Turns
    <3>1. SUFFICES ASSUME NEW i \in 1..Len(l) PROVE l[i] \in Turns  OBVIOUS
    <3>2. l[i] \in Turns \cup {Bad}  BY <1>2
    <3>3. l[i] # Bad  BY DEF Damaged, ToSet
    <3> QED  BY <3>2, <3>3
  <2>2. Len(l) \in Nat /\ l = [i \in 1..Len(l) |-> l[i]]  BY <1>2
  <2> HIDE DEF l
  <2>3. l \in [1..Len(l) -> Turns]  BY <2>1, <2>2
  <2>4. l \in Seq(Turns)  BY <2>2, <2>3, SeqDef
  <2> QED  BY <2>4 DEF l
<1>4. f.tail # None /\ f.tail.whole => f.tail.rec \in Turns  BY DEF FilesOK, TailOK
<1> QED  BY <1>2, <1>3, <1>4 DEF LinesRead

LEMMA UnreadableOK ==
  ASSUME NEW m, Good(m), m.op \in Ops, ~m.error, ~m.writing,
         Steps[m.op][m.at] \in {"scan", "scan_events"}
  PROVE  Good(Unreadable(m)) /\ (Unreadable(m).op \in WorkerOps => m.op \in WorkerOps)
<1>1. Good(Onward(m)) /\ (Onward(m).op \in WorkerOps => m.op \in WorkerOps)  BY OnwardGood
<1>2. Good(Stopped(m)) /\ (Stopped(m).op \in WorkerOps => m.op \in WorkerOps)  BY StoppedGood
<1> QED  BY <1>1, <1>2 DEF Unreadable

LEMMA ScanProcs ==
  ASSUME ProcsOK, FilesOK, NEW p \in Procs, Scan(p)
  PROVE  ProcsOK'
<1> DEFINE m == proc[p]
           f == file[On(p)]
           ls == IF m.op \in {"submit", "rollback", "export"} THEN LinesRead(f) ELSE <<>>
           t == IF m.op = "export" THEN Standing(m.turn) ELSE m.turn
           read == [m EXCEPT !.lines = ls, !.turn = t]
           cut == [read EXCEPT !.first = "cut", !.seen = Len(f.lines)]
<1>1. m.op \in Ops /\ m.first = "nothing" /\ Steps[m.op][m.at] \in {"scan", "scan_events"}
  BY DEF Scan, At
<1>2. Good(m) /\ m \in Process /\ Place(m) /\ Holds(m) /\ ~m.error /\ ~m.writing
  <2>1. Good(m) /\ m \in Process /\ Place(m) /\ Holds(m) /\ ~m.error  BY <1>1, AtPlace
  <2> QED  BY <1>1, <2>1 DEF Place
<1>3. Does(p, IF Damaged(f) THEN Unreadable(m) ELSE IF Torn(f) THEN cut ELSE Onward(read))
  BY Zenon DEF Scan
<1>4. CASE Damaged(f)
  <2>1. Does(p, Unreadable(m))  BY <1>3, <1>4
  <2> QED  BY <1>1, <1>2, <2>1, UnreadableOK, ProcStep
<1>5. CASE ~Damaged(f)
  <2>1. ls \in Seq(Turns) /\ Len(f.lines) \in Nat
    <3>1. CASE m.op \in {"submit", "rollback", "export"}
      <4>1. On(p) = "turns"
        <5>1. Steps[m.op][m.at] # "scan_events"  BY <1>1, <1>2, <3>1, Places DEF Place
        <5> QED  BY <1>1, <5>1 DEF On
      <4> QED  BY <1>5, <3>1, <4>1, ReadLines
    <3>2. CASE m.op \notin {"submit", "rollback", "export"}
      <4>1. f \in File  BY DEF FilesOK, On
      <4>2. Len(f.lines) \in Nat  BY <4>1 DEF File
      <4> QED  BY <3>2, <4>2
    <3> QED  BY <3>1, <3>2
  <2>2. t \in 0..MaxTurns /\ (m.op # "export" => t = m.turn)
    BY <1>2, FilesAssumption DEF Standing, Process
  <2> HIDE DEF ls, t, f
  <2>3. read \in Process /\ cut \in Process  BY <1>2, <2>1, <2>2 DEF Process
  <2>4. /\ read.op = m.op /\ read.at = m.at /\ read.first = m.first /\ ~read.error
        /\ ~read.writing /\ read.manifest = m.manifest /\ read.turn = t
        /\ cut.op = m.op /\ cut.at = m.at /\ cut.first = "cut" /\ ~cut.error
        /\ ~cut.writing /\ cut.manifest = m.manifest /\ cut.turn = t
    BY <1>2 DEF Process
  <2> HIDE DEF read, cut
  <2>5. Place(read) /\ Place(cut)  BY <1>1, <1>2, <2>4 DEF Place
  <2>6. Holds(read) /\ Holds(cut)  BY <1>1, <1>2, <2>2, <2>4 DEF Holds
  <2>7. Good(read) /\ Good(cut)  BY <2>3, <2>5, <2>6 DEF Good
  <2>8. CASE Torn(f)
    <3>1. Does(p, cut)  BY <1>3, <1>5, <2>8
    <3> QED  BY <2>4, <2>7, <3>1, ProcStep
  <2>9. CASE ~Torn(f)
    <3>1. Does(p, Onward(read))  BY <1>3, <1>5, <2>9
    <3>2. Good(Onward(read)) /\ (Onward(read).op \in WorkerOps => m.op \in WorkerOps)
      BY <1>1, <2>4, <2>7, OnwardGood
    <3> QED  BY <3>1, <3>2, ProcStep
  <2> QED  BY <2>8, <2>9
<1> QED  BY <1>4, <1>5

LEMMA CutProcs ==
  ASSUME ProcsOK, NEW p \in Procs, Cut(p)
  PROVE  ProcsOK'
<1> DEFINE m == proc[p]
           n == [m EXCEPT !.first = "tell", !.seen = 0]
<1>1. m.op \in Ops /\ m.first = "cut" /\ Does(p, n)  BY DEF Cut, First
<1>2. Steps[m.op][m.at] \in {"scan", "scan_events"}  BY <1>1, Working0 DEF Place
<1>3. m \in Process /\ Place(m) /\ Holds(m) /\ ~m.error /\ ~m.writing
  BY <1>1, <1>2, AtPlace DEF Place
<1>4. /\ n \in Process /\ n.op = m.op /\ n.at = m.at /\ n.first = "tell" /\ ~n.error
      /\ ~n.writing /\ n.manifest = m.manifest /\ n.turn = m.turn
  BY <1>3 DEF Process
<1> HIDE DEF n
<1>5. Place(n)  BY <1>1, <1>2, <1>3, <1>4 DEF Place
<1>6. Holds(n)  BY <1>3, <1>4 DEF Holds
<1>7. Good(n)  BY <1>4, <1>5, <1>6 DEF Good
<1> QED  BY <1>1, <1>4, <1>7, ProcStep

\* Where an append stands.
LEMMA AppendPlace ==
  ASSUME ProcsOK, NEW p \in Procs, Appends(p) \/ proc[p].writing
  PROVE  LET m == proc[p] IN
         /\ m.op \in Ops /\ Good(m) /\ m \in Process /\ Place(m) /\ Holds(m) /\ ~m.error
         /\ Steps[m.op][m.at] \in {"append", "note", "scan", "scan_events"}
         /\ m.first = "tell" \/ (m.first = "nothing" /\ Steps[m.op][m.at] \in {"append", "note"})
<1> DEFINE m == proc[p]
<1>1. m.op \in Ops
  <2>1. Good(m)  BY DEF ProcsOK
  <2>2. m.op \notin Ops => ~m.writing  BY <2>1 DEF Good, Place, Idle
  <2> QED  BY <2>2 DEF Appends, At, First
<1>2. m.first = "tell" \/ (m.first = "nothing" /\ Steps[m.op][m.at] \in {"append", "note"})
  BY <1>1, Working0 DEF Place, Appends, At, First
<1>3. Steps[m.op][m.at] \in {"append", "note", "scan", "scan_events"}
  BY <1>1, <1>2, Working0 DEF Place
<1> QED  BY <1>1, <1>2, <1>3, AtPlace

LEMMA AppendProcs ==
  ASSUME ProcsOK, NEW p \in Procs, AppendLine(p) \/ AppendPart(p) \/ AppendRest(p)
  PROVE  ProcsOK'
<1> DEFINE m == proc[p]
<1>1. Appends(p) \/ m.writing  BY DEF AppendLine, AppendPart, AppendRest, MayAppend
<1>2. /\ m.op \in Ops /\ Good(m) /\ m \in Process /\ Place(m) /\ Holds(m) /\ ~m.error
      /\ Steps[m.op][m.at] \notin {"manifest", "unlock"}
      /\ m.first = "tell" \/ (m.first = "nothing" /\ Steps[m.op][m.at] \in {"append", "note"})
  BY <1>1, AppendPlace
<1>3. CASE AppendLine(p)
  BY <1>2, <1>3, OnwardOK DEF AppendLine, MayAppend
<1>4. CASE AppendRest(p)
  <2>1. Does(p, [Onward(m) EXCEPT !.writing = FALSE])  BY <1>4 DEF AppendRest
  <2> QED  BY <1>2, <2>1, OnwardGood, ProcStep
<1>5. CASE AppendPart(p)
  <2> DEFINE n == [m EXCEPT !.writing = TRUE]
  <2>1. Does(p, n)  BY <1>5 DEF AppendPart
  <2>2. /\ n \in Process /\ n.op = m.op /\ n.at = m.at /\ n.first = m.first /\ ~n.error
        /\ n.writing /\ n.manifest = m.manifest /\ n.turn = m.turn
    BY <1>2 DEF Process
  <2> HIDE DEF n
  <2>3. Place(n)  BY <1>2, <2>2 DEF Place
  <2>4. Holds(n)  BY <1>2, <2>2 DEF Holds
  <2>5. Good(n)  BY <2>2, <2>3, <2>4 DEF Good
  <2> QED  BY <2>1, <2>2, <2>5, ProcStep
<1> QED  BY <1>3, <1>4, <1>5

LEMMA RewriteProcs ==
  ASSUME ProcsOK, NEW p \in Procs, Rewrite(p)
  PROVE  ProcsOK'
<1> DEFINE m == proc[p]
<1>1. m.op \in Ops /\ m.first = "nothing" /\ Steps[m.op][m.at] = "rewrite"
  BY DEF Rewrite, At
<1>2. Good(m) /\ m \in Process /\ Holds(m) /\ ~m.error /\ ~m.writing
      /\ m.at \in 1..Len(Steps[m.op])
  BY <1>1, AtPlace DEF Place
<1>3. m.op = "rollback" /\ m.at = 6  BY <1>1, <1>2, Places
<1>4. PICK t \in Turns : \/ Does(p, Stopped(m))
                         \/ Does(p, [Onward(m) EXCEPT !.turn = t, !.lines = <<>>])
  BY Zenon DEF Rewrite
<1>5. CASE Does(p, Stopped(m))  BY <1>1, <1>5, StoppedOK
<1>6. CASE Does(p, [Onward(m) EXCEPT !.turn = t, !.lines = <<>>])
  <2> DEFINE o == Onward(m)
             n == [o EXCEPT !.turn = t, !.lines = <<>>]
  <2>1. Good(o) /\ (o.op \in WorkerOps => m.op \in WorkerOps)  BY <1>1, <1>2, OnwardGood
  <2>2. o.at = 7 /\ o.op = "rollback"
    <3>1. m.at < Len(Steps[m.op])  BY <1>3, Lengths
    <3> QED  BY <1>1, <1>2, <1>3, <3>1, OnwardIs
  <2>3. t \in 0..MaxTurns /\ <<>> \in Seq(Turns) /\ o \in Process
    BY <2>1, FilesAssumption DEF Turns, Good
  <2> HIDE DEF o
  <2>4. /\ n \in Process /\ n.op = o.op /\ n.at = o.at /\ n.first = o.first /\ n.error = o.error
        /\ n.writing = o.writing /\ n.manifest = o.manifest
    BY <2>3 DEF Process
  <2> HIDE DEF n
  <2>5. Place(n)  BY <2>1, <2>2, <2>4, OpsAre DEF Good, Place
  <2>6. Holds(n)  BY <2>1, <2>2, <2>4 DEF Good, Holds
  <2>7. Good(n)  BY <2>4, <2>5, <2>6 DEF Good
  <2> QED  BY <1>6, <2>1, <2>4, <2>7, ProcStep DEF n, o
<1> QED  BY <1>4, <1>5, <1>6

LEMMA ReadManifestProcs ==
  ASSUME ProcsOK, FilesOK, NEW p \in Procs, ReadManifest(p)
  PROVE  ProcsOK'
<1> DEFINE m == proc[p]
           goes ==
             CASE m.op \in {"start", "apply"}     -> Blocked(manifest)
               [] m.op = "submit"                 -> manifest.job = None /\ m.lines # <<>>
                                                     /\ Last(m.lines) < MaxTurns
               [] m.op \in {"resume", "cancel"}   -> Failed(manifest)
               [] m.op \in {"rollback", "export"} -> ~Blocked(manifest)
           turn ==
             CASE m.op = "submit"              -> NextTurn(m.lines)
               [] m.op \in {"start", "resume"} -> manifest.job.turn
               [] m.op = "export"              -> manifest.current
               [] OTHER                        -> m.turn
           read == [Onward(m) EXCEPT !.manifest = manifest]
           n == [read EXCEPT !.turn = turn, !.lines = <<>>]
<1>1. m.op \in Ops /\ m.first = "nothing" /\ Steps[m.op][m.at] = "manifest"
      /\ Does(p, IF goes THEN n ELSE Stopped(m))
  BY Zenon DEF ReadManifest, At
<1>2. Good(m) /\ m \in Process /\ Holds(m) /\ ~m.error /\ ~m.writing
      /\ m.at \in 1..Len(Steps[m.op])
  BY <1>1, AtPlace DEF Place
<1>3. \/ m.op \in {"start", "resume", "cancel", "rollback"} /\ m.at = 4
      \/ m.op \in {"apply", "submit"} /\ m.at = 5
      \/ m.op = "export" /\ m.at = 1
  BY <1>1, <1>2, Places
<1>4. CASE ~goes
  <2>1. Does(p, Stopped(m))  BY <1>1, <1>4
  <2> QED  BY <1>1, <2>1, StoppedOK
<1>5. CASE goes
  <2> DEFINE o == Onward(m)
  <2>1. m.at < Len(Steps[m.op])
    <3>1. CASE m.op = "export"  BY <1>3, <3>1, Lengths
    <3>2. CASE m.op # "export"
      <4>1. m.op \in Ops \ {"export", "read"} /\ Steps[m.op][m.at] # "unlock"
        BY <1>1, <1>3, <3>2
      <4> QED  BY <4>1, NotLast
    <3> QED  BY <3>1, <3>2
  <2>2. /\ o \in Process /\ o.op = m.op /\ o.at = m.at + 1 /\ o.first = "nothing"
        /\ o.writing = m.writing /\ o.error = m.error /\ o.turn = m.turn
    BY <1>1, <1>2, <2>1, OnwardIs DEF Process
  <2> HIDE DEF o
  <2>3. manifest \in Manifest /\ manifest.current \in 0..MaxTurns
        /\ (manifest.job # None => manifest.job.turn \in Turns)
    BY DEF FilesOK, Manifest, Job
  <2>4. turn \in 0..MaxTurns /\ (m.op \in {"submit", "start", "resume"} => turn \in Turns)
        /\ (m.op = "start" => manifest.job # None) /\ (m.op = "apply" => turn = m.turn)
    <3>1. CASE m.op = "submit"
      <4>1. m.lines \in Seq(Turns) /\ m.lines # <<>> /\ Last(m.lines) < MaxTurns
        BY <1>2, <1>5, <3>1 DEF Process
      <4>2. Last(m.lines) \in Turns  BY <4>1 DEF Last
      <4>3. turn = Last(m.lines) + 1  BY <3>1 DEF NextTurn
      <4> HIDE DEF turn
      <4>4. turn \in Turns  BY <4>1, <4>2, <4>3, FilesAssumption DEF Turns
      <4> QED  BY <3>1, <4>4, FilesAssumption DEF Turns
    <3>2. CASE m.op \in {"start", "resume"}
      <4>1. manifest.job # None  BY <1>5, <3>2 DEF Blocked, Failed
      <4>2. turn = manifest.job.turn  BY <3>2
      <4> HIDE DEF turn
      <4> QED  BY <2>3, <3>2, <4>1, <4>2, FilesAssumption DEF Turns
    <3>3. CASE m.op = "export"
      <4>1. turn = manifest.current  BY <3>3
      <4> HIDE DEF turn
      <4> QED  BY <2>3, <3>3, <4>1
    <3>4. CASE m.op \in {"apply", "cancel", "rollback"}
      <4>1. turn = m.turn  BY <3>4
      <4> HIDE DEF turn
      <4> QED  BY <1>2, <3>4, <4>1 DEF Process
    <3> QED  BY <1>3, <3>1, <3>2, <3>3, <3>4
  <2> HIDE DEF turn
  <2>5. <<>> \in Seq(Turns)  OBVIOUS
  <2>6. /\ n \in Process /\ n.op = m.op /\ n.at = m.at + 1 /\ n.first = "nothing"
        /\ n.writing = m.writing /\ n.error = m.error /\ n.manifest = manifest
        /\ n.turn = turn
    BY <2>2, <2>3, <2>4, <2>5 DEF Process, o
  <2>7. Does(p, n)  BY <1>1, <1>5
  <2> HIDE DEF n
  <2>8. Holds(n)
    <3>1. n.op = "apply" => n.turn \in Turns  BY <1>2, <2>4, <2>6 DEF Holds
    <3> QED  BY <1>2, <1>3, <2>3, <2>4, <2>6, <3>1 DEF Holds
  <2>9. Good(n)  BY <1>1, <1>2, <2>1, <2>6, <2>8, NextGood
  <2> QED  BY <2>6, <2>7, <2>9, ProcStep
<1> QED  BY <1>4, <1>5

LEMMA WriteProcs ==
  ASSUME ProcsOK, NEW p \in Procs, Start(p) \/ WriteManifest(p) \/ WriteBundle(p)
  PROVE  ProcsOK'
<1> DEFINE m == proc[p]
           o == Onward(m)
<1>1. m.op \in Ops /\ m.first = "nothing"
      /\ Steps[m.op][m.at] \in {"start", "publish", "queue", "clear", "fail", "bundle"}
  BY DEF Start, WriteManifest, WriteBundle, At
<1>2. Good(m) /\ m \in Process /\ Holds(m) /\ ~m.error /\ ~m.writing
      /\ m.at \in 1..Len(Steps[m.op])
  BY <1>1, AtPlace DEF Place
<1>3. Good(o) /\ (o.op \in WorkerOps => m.op \in WorkerOps)  BY <1>1, <1>2, OnwardGood
<1>4. CASE Start(p)  BY <1>1, <1>2, <1>4, OnwardOK DEF Start
<1>5. ASSUME WriteManifest(p) \/ WriteBundle(p)
      PROVE  /\ o.op = m.op /\ o.at = m.at + 1
             /\ (o.op = "submit" => o.at = 8) /\ (o.op = "resume" => o.at = 8)
             /\ (o.op = "cancel" => o.at = 7) /\ (o.op = "rollback" => o.at = 8)
             /\ o.op # "start"
  <2>1. \/ m.op = "apply" /\ m.at = 8
        \/ m.op \in {"submit", "resume", "rollback"} /\ m.at = 7
        \/ m.op = "cancel" /\ m.at = 6
        \/ m.op = "fail" /\ m.at = 4
        \/ m.op = "export" /\ m.at = 3
    <3>1. Steps[m.op][m.at] \in {"publish", "queue", "clear", "fail", "bundle"}
      BY <1>5 DEF WriteManifest, WriteBundle, At
    <3>2. m.op \in Ops /\ m.at \in 1..Len(Steps[m.op])  BY <1>1, <1>2
    <3>3. Steps[m.op][m.at] = "publish"
          => (m.op = "apply" /\ m.at = 8) \/ (m.op = "rollback" /\ m.at = 7)
      BY <3>2, Places
    <3>4. Steps[m.op][m.at] = "queue" => m.op \in {"submit", "resume"} /\ m.at = 7
      BY <3>2, Places
    <3>5. Steps[m.op][m.at] = "clear" => m.op = "cancel" /\ m.at = 6  BY <3>2, Places
    <3>6. Steps[m.op][m.at] = "fail" => m.op = "fail" /\ m.at = 4  BY <3>2, Places
    <3>7. Steps[m.op][m.at] = "bundle" => m.op = "export" /\ m.at = 3  BY <3>2, Places
    <3> QED  BY <3>1, <3>3, <3>4, <3>5, <3>6, <3>7
  <2>2. m.at < Len(Steps[m.op])
    <3>1. CASE m.op = "export"  BY <2>1, <3>1, Lengths
    <3>2. CASE m.op # "export"  BY <1>1, <2>1, <3>2, NotLast
    <3> QED  BY <3>1, <3>2
  <2>3. o.op = m.op /\ o.at = m.at + 1  BY <1>1, <1>2, <2>2, OnwardIs
  <2> HIDE DEF o
  <2> QED  BY <2>1, <2>3
<1> HIDE DEF o
<1>6. ASSUME NEW n \in Process, Does(p, n), WriteManifest(p) \/ WriteBundle(p),
             n.op = o.op, n.at = o.at, n.first = o.first, n.writing = o.writing,
             n.error = o.error, n.turn = o.turn
      PROVE  ProcsOK'
  <2>1. Place(n)
    <3>1. n.op \in Ops /\ Place(o)  BY <1>1, <1>3, <1>5, <1>6 DEF Good
    <3> QED  BY <1>6, <3>1 DEF Place
  <2>2. Holds(n)  BY <1>3, <1>5, <1>6 DEF Good, Holds
  <2>3. Good(n)  BY <2>1, <2>2 DEF Good
  <2> QED  BY <1>3, <1>6, <2>3, ProcStep
<1>7. o \in Process /\ <<>> \in Seq(Turns)  BY <1>3 DEF Good
<1>8. CASE WriteManifest(p)
  <2> DEFINE n == [o EXCEPT !.manifest = None]
  <2>1. Does(p, n)  BY <1>8 DEF WriteManifest, o
  <2>2. /\ n \in Process /\ n.op = o.op /\ n.at = o.at /\ n.first = o.first
        /\ n.writing = o.writing /\ n.error = o.error /\ n.turn = o.turn
    BY <1>7 DEF Process
  <2> HIDE DEF n
  <2> QED  BY <1>6, <1>8, <2>1, <2>2
<1>9. CASE WriteBundle(p)
  <2> DEFINE n == [o EXCEPT !.lines = <<>>, !.manifest = None]
  <2>1. Does(p, n)  BY <1>9 DEF WriteBundle, o
  <2>2. /\ n \in Process /\ n.op = o.op /\ n.at = o.at /\ n.first = o.first
        /\ n.writing = o.writing /\ n.error = o.error /\ n.turn = o.turn
    BY <1>7 DEF Process
  <2> HIDE DEF n
  <2> QED  BY <1>6, <1>9, <2>1, <2>2
<1> QED  BY <1>4, <1>8, <1>9

LEMMA BeginProcs ==
  ASSUME ProcsOK, NEW p \in Procs, BeginWork(p) \/ BeginJob(p) \/ BeginOther(p)
  PROVE  ProcsOK'
<1>1. ASSUME NEW op \in Ops \ {"apply"}, Begin(p, op)
      PROVE  Does(p, [Idle EXCEPT !.op = op, !.at = 1])
             /\ Good([Idle EXCEPT !.op = op, !.at = 1])
             /\ [Idle EXCEPT !.op = op, !.at = 1].op = op
  BY <1>1, NewGood DEF Begin, Idle
<1>2. CASE BeginJob(p) \/ BeginOther(p)
  <2>1. PICK op \in {"submit", "resume", "cancel", "rollback", "recover", "export", "read"} :
          Begin(p, op)
    BY <1>2 DEF BeginJob, Offered, BeginOther
  <2>2. op \in Ops \ {"apply"} /\ op \notin WorkerOps  BY OpsAre DEF WorkerOps
  <2> QED  BY <1>1, <2>1, <2>2, ProcStep
<1>3. CASE BeginWork(p)
  <2> DEFINE n == [Idle EXCEPT !.op = "start", !.at = 1]
  <2>1. Does(p, n) /\ Good(n) /\ n.op = "start"
    BY <1>1, <1>3, OpsAre DEF BeginWork
  <2> HIDE DEF n
  <2>2. \A q \in Procs : proc'[q] = IF q = p THEN n ELSE proc[q]
    BY <2>1 DEF Does, ProcsOK
  <2>3. proc' \in [Procs -> Process]  BY <2>1 DEF Does, ProcsOK, Good
  <2>4. (\A q \in Procs : Good(proc[q]))'  BY <2>1, <2>2 DEF ProcsOK
  <2>5. \A q \in Procs : proc[q].op \notin WorkerOps
    BY <1>3 DEF BeginWork, Working, WorkerOps
  <2>6. \A q \in Procs : proc'[q].op \in WorkerOps => q = p  BY <2>2, <2>5
  <2>7. Onlys'  BY <2>6 DEF Onlys
  <2> QED  BY <2>3, <2>4, <2>7 DEF ProcsOK
<1> QED  BY <1>2, <1>3

LEMMA FailureProcs ==
  ASSUME ProcsOK, NEW p \in Procs, GenerationFails(p) \/ WriteFails(p) \/ Die(p)
  PROVE  ProcsOK'
<1> DEFINE m == proc[p]
<1>1. CASE Die(p)
  <2>1. Does(p, Idle) /\ Idle.op \notin WorkerOps  BY <1>1 DEF Die, Idle, WorkerOps
  <2> QED  BY <2>1, IdleGood, ProcStep
<1>2. CASE GenerationFails(p)
  <2> DEFINE n == [m EXCEPT !.error = TRUE]
             f == [Idle EXCEPT !.op = "fail", !.at = 1]
  <2>1. m.op = "apply" /\ Does(p, Ended(n)) /\ m.op \in Ops  BY <1>2 DEF GenerationFails, At
  <2>2. m \in Process  BY DEF ProcsOK
  <2>3. Ended(n) = f  BY <2>1, <2>2 DEF Ended, Process
  <2>4. Good(f)  BY NewGood, OpsAre
  <2>5. m.op \in WorkerOps  BY <2>1 DEF WorkerOps
  <2> HIDE DEF f
  <2> QED  BY <2>1, <2>3, <2>4, <2>5, ProcStep
<1>3. CASE WriteFails(p)
  <2> DEFINE n == [m EXCEPT !.writing = FALSE]
  <2>1. Does(p, IF m.first = "tell" THEN Unreadable(n) ELSE Stopped(m))
        /\ (m.writing \/ \E s \in {"start", "rewrite", "publish", "queue", "clear"} : At(p, s))
    BY <1>3 DEF WriteFails
  <2>2. m.op \in Ops
    <3>1. Good(m)  BY DEF ProcsOK
    <3>2. m.op \notin Ops => ~m.writing  BY <3>1 DEF Good, Place, Idle
    <3> QED  BY <2>1, <3>2 DEF At
  <2>3. CASE m.first # "tell"  BY <2>1, <2>2, <2>3, StoppedOK
  <2>4. CASE m.first = "tell"
    <3>1. Steps[m.op][m.at] \in {"scan", "scan_events"}  BY <2>2, <2>4, Working0 DEF Place
    <3>2. m \in Process /\ Place(m) /\ Holds(m) /\ ~m.error  BY <2>2, <3>1, AtPlace
    <3>3. /\ n \in Process /\ n.op = m.op /\ n.at = m.at /\ n.first = "tell" /\ ~n.error
          /\ ~n.writing /\ n.manifest = m.manifest /\ n.turn = m.turn
      BY <2>4, <3>2 DEF Process
    <3> HIDE DEF n
    <3>4. Place(n)  BY <2>2, <3>1, <3>2, <3>3 DEF Place
    <3>5. Holds(n)  BY <3>2, <3>3 DEF Holds
    <3>6. Good(n)  BY <3>3, <3>4, <3>5 DEF Good
    <3> QED  BY <2>1, <2>2, <2>4, <3>1, <3>3, <3>6, UnreadableOK, ProcStep
  <2> QED  BY <2>3, <2>4
<1> QED  BY <1>1, <1>2, <1>3

\* The processes keep their types, and there is one worker.
LEMMA NextProcs ==
  ASSUME ProcsOK, FilesOK, [Next]_vars
  PROVE  ProcsOK'
<1>1. CASE UNCHANGED vars  BY <1>1 DEF vars, ProcsOK, Onlys
<1>2. CASE AgeLock  BY <1>2 DEF AgeLock, ProcsOK, Onlys
<1>3. ASSUME NEW p \in Procs, BeginWork(p) \/ BeginJob(p) \/ BeginOther(p)
      PROVE  ProcsOK'
  BY <1>3, BeginProcs
<1>4. ASSUME NEW p \in Procs, Step(p)  PROVE ProcsOK'
  <2>1. CASE LookLock(p)  BY <2>1, LookLockProcs
  <2>2. CASE RemoveLock(p) \/ CreateLock(p) \/ StampLock(p) \/ Unlock(p)  BY <2>2, LockProcs
  <2>3. CASE Scan(p)  BY <2>3, ScanProcs
  <2>4. CASE Cut(p)  BY <2>4, CutProcs
  <2>5. CASE AppendLine(p) \/ AppendPart(p) \/ AppendRest(p)  BY <2>5, AppendProcs
  <2>6. CASE Rewrite(p)  BY <2>6, RewriteProcs
  <2>7. CASE ReadManifest(p)  BY <2>7, ReadManifestProcs
  <2>8. CASE Start(p) \/ WriteManifest(p) \/ WriteBundle(p)  BY <2>8, WriteProcs
  <2> QED  BY <1>4, <2>1, <2>2, <2>3, <2>4, <2>5, <2>6, <2>7, <2>8 DEF Step
<1>5. ASSUME NEW p \in Procs, GenerationFails(p) \/ WriteFails(p) \/ Die(p)
      PROVE  ProcsOK'
  BY <1>5, FailureProcs
<1> QED  BY <1>1, <1>2, <1>3, <1>4, <1>5 DEF Next

----------------------------------------------------------------------------

\* What an append leaves: the rest of a line of turns.jsonl is a turn, or bad.
LEMMA AppendFiles ==
  ASSUME ProcsOK, FilesOK, NEW p \in Procs, AppendLine(p) \/ AppendPart(p) \/ AppendRest(p)
  PROVE  FilesOK'
<1> DEFINE m == proc[p]
           f == file[On(p)]
<1>1. Appends(p) \/ m.writing  BY DEF AppendLine, AppendPart, AppendRest, MayAppend
<1>2. /\ m.op \in Ops /\ Good(m) /\ m \in Process /\ Place(m) /\ Holds(m)
      /\ Steps[m.op][m.at] \in {"append", "note", "scan", "scan_events"}
      /\ m.first = "tell" \/ (m.first = "nothing" /\ Steps[m.op][m.at] \in {"append", "note"})
  BY <1>1, AppendPlace
<1>3. On(p) \in {"turns", "events"}  BY DEF On
<1>4. On(p) = "turns" => m.op = "apply"
  <2>1. On(p) = "turns" => Steps[m.op][m.at] = "append"  BY <1>2 DEF On
  <2> QED  BY <1>2, <2>1, Places DEF Place
<1>5. On(p) = "turns" => Rec(p) \in Turns  BY <1>2, <1>4 DEF Rec, Holds
<1>6. On(p) # "turns" => Rec(p) = 0  BY DEF Rec
<1>7. f \in File /\ f.lines \in Seq(Turns \cup {Bad}) /\ f.tail \in Rest \cup {None}
  BY <1>3 DEF FilesOK, File
<1>8. Joined(f, Rec(p)) \in Turns \cup {0, Bad}
      /\ (On(p) = "turns" => Joined(f, Rec(p)) \in Turns \cup {Bad})
      /\ (On(p) # "turns" => Joined(f, Rec(p)) \in {0, Bad})
  BY <1>5, <1>6 DEF Joined
<1>9. ASSUME NEW g \in File, file' = [file EXCEPT ![On(p)] = g],
             On(p) = "turns" /\ g.tail # None
               => g.tail.rec \in Turns \cup {Bad} /\ (g.tail.whole => g.tail.rec \in Turns)
      PROVE  FilesOK'
  <2>1. file' \in [{"turns", "events"} -> File]  BY <1>3, <1>9 DEF FilesOK
  <2>2. TailOK'
    <3>1. CASE On(p) = "turns"
      <4>1. file'["turns"] = g  BY <1>9, <3>1 DEF FilesOK
      <4> QED  BY <1>9, <3>1, <4>1 DEF TailOK
    <3>2. CASE On(p) # "turns"
      <4>1. file'["turns"] = file["turns"]  BY <1>9, <3>2 DEF FilesOK
      <4> QED  BY <4>1 DEF FilesOK, TailOK
    <3> QED  BY <3>1, <3>2
  <2>3. UNCHANGED <<manifest, lock, acked, overtaken, bare, faults>>
    BY DEF AppendLine, AppendPart, AppendRest, history
  <2> QED  BY <2>1, <2>2, <2>3 DEF FilesOK
<1>10. ASSUME NEW r, On(p) = "turns" => r \in Turns \cup {Bad}
       PROVE  LET g == WithLine(f, On(p), r) IN g \in File /\ g.tail = None
  BY <1>3, <1>7, <1>10 DEF WithLine, File
<1>11. CASE AppendLine(p)
  <2> DEFINE r == Joined(f, Rec(p))
             g == WithLine(f, On(p), r)
  <2>1. file' = [file EXCEPT ![On(p)] = g]
    BY <1>3, <1>11 DEF AppendLine, FilesOK
  <2>2. g \in File /\ g.tail = None  BY <1>8, <1>10
  <2> QED  BY <1>9, <2>1, <2>2
<1>12. CASE AppendRest(p)
  <2> DEFINE g == IF f.tail = None THEN f ELSE WithLine(f, On(p), f.tail.rec)
  <2>1. file' = [file EXCEPT ![On(p)] = g]
    BY <1>3, <1>12 DEF AppendRest, FilesOK
  <2>2. g \in File /\ g.tail = None
    <3>1. CASE f.tail = None  BY <1>7, <3>1
    <3>2. CASE f.tail # None
      <4>1. On(p) = "turns" => f.tail.rec \in Turns \cup {Bad}
        BY <3>2 DEF FilesOK, TailOK
      <4> QED  BY <1>10, <3>2, <4>1
    <3> QED  BY <3>1, <3>2
  <2> QED  BY <1>9, <2>1, <2>2
<1>13. CASE AppendPart(p)
  <2>1. PICK whole \in BOOLEAN :
          file' = [file EXCEPT ![On(p)].tail =
            [rec |-> Joined(f, Rec(p)), whole |-> whole /\ f.tail = None]]
    BY <1>13 DEF AppendPart
  <2> DEFINE t == [rec |-> Joined(f, Rec(p)), whole |-> whole /\ f.tail = None]
             g == [f EXCEPT !.tail = t]
  <2>2. file' = [file EXCEPT ![On(p)] = g]  BY <1>3, <2>1 DEF FilesOK
  <2>3. t \in Rest  BY <1>8 DEF Rest
  <2>4. g \in File /\ g.tail = t  BY <1>7, <2>3 DEF File
  <2>5. On(p) = "turns" => t.rec \in Turns \cup {Bad} /\ (t.whole => t.rec \in Turns)
    BY <1>5, <1>8 DEF Joined
  <2> QED  BY <1>9, <2>2, <2>4, <2>5
<1> QED  BY <1>11, <1>12, <1>13

LEMMA CutFiles ==
  ASSUME ProcsOK, FilesOK, NEW p \in Procs, Cut(p)
  PROVE  FilesOK'
<1> DEFINE m == proc[p]
           f == file[On(p)]
           n == m.seen
           g == [lines |-> IF n < Len(f.lines) THEN SubSeq(f.lines, 1, n) ELSE f.lines,
                 tail  |-> IF n > Len(f.lines) THEN [rec |-> Bad, whole |-> FALSE] ELSE None]
<1>1. m \in Process /\ n \in Nat  BY DEF ProcsOK, Process
<1>2. On(p) \in {"turns", "events"}  BY DEF On
<1>3. f \in File /\ f.lines \in Seq(Turns \cup {Bad})  BY <1>2 DEF FilesOK, File
<1>4. /\ file' = [file EXCEPT ![On(p)] = g] /\ overtaken' = (overtaken \/ n # Len(f.lines))
      /\ UNCHANGED <<manifest, lock, acked, bare, faults>>
  BY DEF Cut, LastGood
<1>5. n < Len(f.lines) => SubSeq(f.lines, 1, n) \in Seq(Turns \cup {Bad})
  <2> DEFINE l == f.lines
  <2>1. l \in Seq(Turns \cup {Bad})  BY <1>3
  <2> HIDE DEF l, n
  <2>2. n < Len(l) => SubSeq(l, 1, n) \in Seq(Turns \cup {Bad})  BY <1>1, <2>1
  <2> QED  BY <2>2 DEF l
<1>6. [rec |-> Bad, whole |-> FALSE] \in Rest  BY DEF Rest
<1>7. g \in File  BY <1>3, <1>5, <1>6 DEF File
<1>8. g.tail # None => g.tail.rec = Bad /\ g.tail.whole = FALSE  OBVIOUS
<1> HIDE DEF g
<1>9. file' \in [{"turns", "events"} -> File]  BY <1>2, <1>4, <1>7 DEF FilesOK
<1>10. TailOK'
  <2>1. CASE On(p) = "turns"
    <3>1. file'["turns"] = g  BY <1>4, <2>1 DEF FilesOK
    <3> QED  BY <1>8, <3>1 DEF TailOK
  <2>2. CASE On(p) # "turns"
    <3>1. file'["turns"] = file["turns"]  BY <1>4, <2>2 DEF FilesOK
    <3> QED  BY <3>1 DEF FilesOK, TailOK
  <2> QED  BY <2>1, <2>2
<1> QED  BY <1>4, <1>9, <1>10 DEF FilesOK

LEMMA RewriteFiles ==
  ASSUME ProcsOK, FilesOK, NEW p \in Procs, Rewrite(p)
  PROVE  FilesOK'
<1> DEFINE read == proc[p].lines
<1>1. read \in Seq(Turns)  BY DEF ProcsOK, Process
<1>2. UNCHANGED <<manifest, lock, bare, faults>>  BY DEF Rewrite
<1>3. CASE UNCHANGED <<file, acked, overtaken>>  BY <1>2, <1>3 DEF FilesOK, TailOK
<1>4. ASSUME NEW i \in DOMAIN read, NEW t \in Turns,
             file' = [file EXCEPT !["turns"] = [lines |-> SubSeq(read, 1, i), tail |-> None]],
             overtaken' = (overtaken \/ \E q \in Procs : First(q, "cut") /\ On(q) = "turns"),
             acked' = acked \cap 1..t
      PROVE  FilesOK'
  <2> DEFINE g == [lines |-> SubSeq(read, 1, i), tail |-> None]
  <2>1. SubSeq(read, 1, i) \in Seq(Turns)
    <3> HIDE DEF read
    <3> QED  BY <1>1, <1>4
  <2>2. SubSeq(read, 1, i) \in Seq(Turns \cup {Bad})
    <3> DEFINE l == SubSeq(read, 1, i)
    <3>1. l \in Seq(Turns)  BY <2>1
    <3> HIDE DEF l
    <3>2. l \in Seq(Turns \cup {Bad})  BY <3>1
    <3> QED  BY <3>2 DEF l
  <2>3. g \in File  BY <2>2 DEF File
  <2>4. g.tail = None  OBVIOUS
  <2> HIDE DEF g
  <2>5. file' \in [{"turns", "events"} -> File] /\ file'["turns"] = g
    BY <1>4, <2>3 DEF FilesOK, g
  <2> QED  BY <1>2, <1>4, <2>4, <2>5 DEF FilesOK, TailOK
<1> QED  BY <1>3, <1>4, Zenon DEF Rewrite

LEMMA ManifestFiles ==
  ASSUME ProcsOK, FilesOK, NEW p \in Procs, Start(p) \/ WriteManifest(p)
  PROVE  FilesOK'
<1> DEFINE m == proc[p]
<1>1. m.op \in Ops /\ m.first = "nothing"
      /\ Steps[m.op][m.at] \in {"start", "publish", "queue", "clear", "fail"}
  BY DEF Start, WriteManifest, At
<1>2. m \in Process /\ Holds(m) /\ ~m.error /\ m.at \in 1..Len(Steps[m.op])
  BY <1>1, AtPlace
<1>3. manifest \in Manifest /\ manifest.current \in 0..MaxTurns
      /\ manifest.job \in Job \cup {None}
  BY DEF FilesOK, Manifest
<1>4. m.turn \in 0..MaxTurns  BY <1>2 DEF Process
<1>5. ASSUME NEW s \in {"queued", "running", "failed"}, manifest.job # None
      PROVE  [manifest EXCEPT !.job.status = s] \in Manifest
  BY <1>3, <1>5 DEF Manifest, Job
<1>6. ASSUME manifest' \in Manifest, acked' \subseteq Turns,
             UNCHANGED <<file, lock, overtaken, bare, faults>>
      PROVE  FilesOK'
  BY <1>6 DEF FilesOK, TailOK
<1>7. CASE Start(p)
  <2>1. At(p, "start") /\ UNCHANGED <<file, lock, history, faults>>
        /\ manifest' = IF manifest.job = m.manifest.job
                       THEN [manifest EXCEPT !.job.status = "running"] ELSE manifest
    BY <1>7 DEF Start
  <2>2. m.op = "start" /\ m.at = 6  BY <1>1, <1>2, <2>1, Places DEF At
  <2>3. m.manifest.job # None  BY <1>2, <2>2 DEF Holds
  <2>4. manifest' \in Manifest  BY <1>3, <1>5, <2>1, <2>3
  <2> QED  BY <1>6, <2>1, <2>4 DEF FilesOK, history
<1>8. CASE WriteManifest(p)
  <2>1. UNCHANGED <<file, lock, overtaken, bare, faults>>  BY <1>8 DEF WriteManifest
  <2>2. CASE At(p, "publish")
    <3>1. /\ manifest' = [current |-> m.turn, job |-> IF m.op = "apply" THEN None ELSE m.manifest.job]
          /\ acked' = IF m.op = "apply" THEN acked \cup {m.turn} ELSE acked
      BY <1>1, <1>8, <2>2 DEF WriteManifest, At
    <3>2. m.op = "apply" \/ (m.op = "rollback" /\ m.at = 7)
      BY <1>1, <1>2, <2>2, Places DEF At
    <3>3. m.op = "apply" => m.turn \in Turns  BY <1>2 DEF Holds
    <3>4. m.op = "rollback" => m.manifest \in Manifest  BY <1>2, <3>2 DEF Holds
    <3>5. manifest' \in Manifest  BY <1>4, <3>1, <3>2, <3>4 DEF Manifest
    <3>6. acked' \subseteq Turns  BY <3>1, <3>3 DEF FilesOK
    <3> QED  BY <1>6, <2>1, <3>5, <3>6
  <2>3. CASE At(p, "queue")
    <3>1. /\ manifest' = [m.manifest EXCEPT !.job = [turn |-> m.turn, status |-> "queued"]]
          /\ UNCHANGED acked
      BY <1>1, <1>8, <2>3 DEF WriteManifest, At
    <3>2. m.op \in {"submit", "resume"} /\ m.at = 7  BY <1>1, <1>2, <2>3, Places DEF At
    <3>3. m.manifest \in Manifest /\ m.turn \in Turns  BY <1>2, <3>2 DEF Holds
    <3>4. manifest' \in Manifest  BY <3>1, <3>3 DEF Manifest, Job
    <3> QED  BY <1>6, <2>1, <3>1, <3>4 DEF FilesOK
  <2>4. CASE At(p, "clear")
    <3>1. manifest' = [m.manifest EXCEPT !.job = None] /\ UNCHANGED acked
      BY <1>1, <1>8, <2>4 DEF WriteManifest, At
    <3>2. m.op = "cancel" /\ m.at = 6  BY <1>1, <1>2, <2>4, Places DEF At
    <3>3. m.manifest \in Manifest  BY <1>2, <3>2 DEF Holds
    <3>4. manifest' \in Manifest  BY <3>1, <3>3 DEF Manifest
    <3> QED  BY <1>6, <2>1, <3>1, <3>4 DEF FilesOK
  <2>5. CASE At(p, "fail")
    <3>1. /\ manifest' = IF Blocked(manifest) THEN [manifest EXCEPT !.job.status = "failed"]
                         ELSE manifest
          /\ UNCHANGED acked
      BY <1>1, <1>8, <2>5 DEF WriteManifest, At
    <3>2. manifest' \in Manifest  BY <1>3, <1>5, <3>1 DEF Blocked
    <3> QED  BY <1>6, <2>1, <3>1, <3>2 DEF FilesOK
  <2> QED  BY <1>8, <2>2, <2>3, <2>4, <2>5 DEF WriteManifest
<1> QED  BY <1>7, <1>8

\* The steps that leave the files alone.
LEMMA LockFiles ==
  ASSUME ProcsOK, FilesOK, NEW p \in Procs,
         \/ LookLock(p) \/ RemoveLock(p) \/ CreateLock(p) \/ StampLock(p) \/ Unlock(p)
         \/ Scan(p) \/ ReadManifest(p) \/ WriteBundle(p)
         \/ BeginWork(p) \/ BeginJob(p) \/ BeginOther(p)
         \/ GenerationFails(p) \/ WriteFails(p) \/ Die(p)
  PROVE  FilesOK'
<1>1. UNCHANGED <<files, acked>>
  BY DEF LookLock, RemoveLock, CreateLock, StampLock, Unlock, Scan, ReadManifest, WriteBundle,
         BeginWork, BeginJob, BeginOther, Begin, GenerationFails, WriteFails, Die, history
<1>2. lock' \in LockFile \cup {None}
  <2>0. lock \in LockFile \cup {None}  BY DEF FilesOK
  <2>1. CASE RemoveLock(p) \/ Unlock(p)  BY <2>1 DEF RemoveLock, Unlock
  <2>2. CASE CreateLock(p)  BY <2>0, <2>2 DEF CreateLock, LockFile
  <2>3. CASE StampLock(p)  BY <2>0, <2>3 DEF StampLock, LockFile
  <2>4. CASE Die(p)  BY <2>0, <2>4 DEF Die, LockFile
  <2>5. CASE UNCHANGED lock  BY <2>0, <2>5
  <2> QED
    BY <2>1, <2>2, <2>3, <2>4, <2>5
       DEF LookLock, Scan, ReadManifest, WriteBundle, BeginWork, BeginJob, BeginOther, Begin,
           GenerationFails, WriteFails
<1>3. overtaken' \in BOOLEAN /\ bare' \in BOOLEAN /\ faults' \in 0..MaxFaults
  <2>1. CASE RemoveLock(p)  BY <2>1 DEF RemoveLock, FilesOK
  <2>2. CASE WriteFails(p) \/ Die(p)
    <3>1. faults' = faults + 1 /\ faults < MaxFaults /\ bare' = (bare \/ EndsShort(p))
          /\ UNCHANGED overtaken
      BY <2>2 DEF WriteFails, Die
    <3>2. faults' \in 0..MaxFaults  BY <3>1, FilesAssumption DEF FilesOK
    <3> QED  BY <3>1, <3>2 DEF FilesOK
  <2>3. CASE UNCHANGED <<overtaken, bare, faults>>  BY <2>3 DEF FilesOK
  <2> QED
    BY <2>1, <2>2, <2>3
       DEF LookLock, CreateLock, StampLock, Unlock, Scan, ReadManifest, WriteBundle,
           BeginWork, BeginJob, BeginOther, Begin, GenerationFails, history
<1> QED  BY <1>1, <1>2, <1>3 DEF FilesOK, TailOK, files

LEMMA NextFiles ==
  ASSUME ProcsOK, FilesOK, [Next]_vars
  PROVE  FilesOK'
<1>1. CASE UNCHANGED vars  BY <1>1 DEF vars, files, history, FilesOK, TailOK
<1>2. CASE Next
  <2>1. CASE AgeLock
    <3>1. lock' \in LockFile \cup {None}  BY <2>1 DEF AgeLock, MayAge, LockFile, FilesOK
    <3> QED  BY <2>1, <3>1 DEF AgeLock, files, history, FilesOK, TailOK
  <2>2. ASSUME NEW p \in Procs,
               \/ BeginWork(p) \/ BeginJob(p) \/ BeginOther(p)
               \/ Step(p) \/ GenerationFails(p) \/ WriteFails(p) \/ Die(p)
        PROVE  FilesOK'
    <3>1. CASE AppendLine(p) \/ AppendPart(p) \/ AppendRest(p)  BY <3>1, AppendFiles
    <3>2. CASE Cut(p)  BY <3>2, CutFiles
    <3>3. CASE Rewrite(p)  BY <3>3, RewriteFiles
    <3>4. CASE Start(p) \/ WriteManifest(p)  BY <3>4, ManifestFiles
    <3> QED  BY <2>2, <3>1, <3>2, <3>3, <3>4, LockFiles DEF Step
  <2> QED  BY <1>2, <2>1, <2>2 DEF Next
<1> QED  BY <1>1, <1>2

LEMMA InitTypes == Init => ProcsOK /\ FilesOK
<1> SUFFICES ASSUME Init PROVE ProcsOK /\ FilesOK  OBVIOUS
<1>1. proc = [p \in Procs |-> Idle]  BY DEF Init
<1>2. Idle \in Process /\ Good(Idle) /\ Idle.op \notin WorkerOps
  BY IdleGood DEF Good, Idle, WorkerOps
<1>3. ProcsOK  BY <1>1, <1>2 DEF ProcsOK, Onlys
<1>4. <<>> \in Seq(Turns \cup {Bad})  OBVIOUS
<1>5. file \in [{"turns", "events"} -> File] /\ TailOK  BY <1>4 DEF Init, File, TailOK
<1>6. manifest \in Manifest
  <2>1. 1 \in Turns /\ 0 \in 0..MaxTurns  BY FilesAssumption DEF Turns
  <2> QED  BY <2>1 DEF Init, Manifest, Job
<1>7. faults \in 0..MaxFaults  BY FilesAssumption DEF Init
<1> QED  BY <1>3, <1>5, <1>6, <1>7 DEF Init, FilesOK

\* Every variable keeps its type: no step indexes a list of steps outside of it, a
\* manifest is written only by who has read one, and a line of turns.jsonl is a turn or
\* not JSON.
THEOREM FilesTypes == Spec => []TypeOK
<1>1. [](ProcsOK /\ FilesOK) => []TypeOK
  <2>1. ProcsOK /\ FilesOK => TypeOK  BY DEF ProcsOK, FilesOK, TypeOK
  <2> QED  BY <2>1, PTL
<1>2. ProcsOK /\ FilesOK /\ [Next]_vars => (ProcsOK /\ FilesOK)'
  BY NextProcs, NextFiles
<1> QED  BY <1>1, <1>2, InitTypes, PTL DEF Spec

----------------------------------------------------------------------------
(* What each process knows *)

\* Nothing has happened that the code does not guard against.
Clean == ~overtaken /\ ~bare

\* It has created the lock file and not removed it.
Owns(m) ==
  /\ m.op \in Ops
  /\ \/ m.op = "apply" /\ m.at > 3
     \/ m.op \notin {"apply", "export", "read"} /\ m.at > 2

\* In the middle of the append to turns.jsonl.
Writes(m) == m.op = "apply" /\ m.at = 7 /\ m.writing

Repairs(m) == m.first \in {"cut", "tell"}

\* Who writes a turn has its part behind the last newline; who has read the turns to
\* write one, or to recover the story, has left nothing there.
KnowsTail(m, f) ==
  /\ Writes(m) => f.tail # None /\ f.tail.rec = m.turn
  /\ m.op = "apply" /\ ~m.error /\ ~Writes(m) /\ (m.at > 1 \/ m.first = "tell") => f.tail = None
  /\ m.op = "recover" /\ ~m.error /\ (m.at > 5 \/ (m.at = 5 /\ m.first = "tell")) => f.tail = None

\* The lines read under the lock are those of the file; those of an export hold its turn.
KnowsLines(m, f) ==
  /\ m.op = "submit" /\ (m.at = 5 \/ (m.at = 4 /\ Repairs(m))) => m.lines = f.lines
  /\ m.op = "rollback" /\ (m.at = 6 \/ (m.at = 5 /\ Repairs(m))) => m.lines = f.lines
  /\ m.op = "export" /\ (m.at = 3 \/ (m.at = 2 /\ Repairs(m))) => m.turn \in {0} \cup ToSet(m.lines)

Upto(lines, turn) == \A i \in DOMAIN lines : lines[i] <= turn
Runs(mf, turn) == mf.job = [turn |-> turn, status |-> "running"]

\* The manifest read under the lock is the one of the story, and a running job stays so
\* until its worker ends it.
KnowsManifest(m, mf, lines) ==
  ~m.error =>
    /\ (m.op = "start" /\ m.at \in 5..6 => m.manifest = mf /\ m.turn = mf.job.turn)
    /\ (m.op = "start" /\ m.at = 7 => Runs(mf, m.turn))
    /\ (m.op = "apply" /\ m.at < 9 => Runs(mf, m.turn))
    /\ (m.op = "apply" /\ m.at = 8 => m.turn \in ToSet(lines))
    /\ (m.op = "submit" /\ m.at \in 6..7 => m.manifest = mf /\ mf.job = None /\ Upto(lines, m.turn))
    /\ (m.op = "resume" /\ m.at \in 5..7 => m.manifest = mf /\ Failed(mf) /\ m.turn = mf.job.turn)
    /\ (m.op = "cancel" /\ m.at \in 5..6 => m.manifest = mf /\ Failed(mf))
    /\ (m.op = "rollback" /\ m.at \in 5..7 => m.manifest = mf /\ ~Blocked(mf))

Knows(m, mf, f) == KnowsTail(m, f) /\ KnowsLines(m, f) /\ KnowsManifest(m, mf, f.lines)

LinesOK(mf, f, named) ==
  /\ Bad \notin ToSet(f.lines) /\ InOrder(f.lines) /\ named \subseteq ToSet(f.lines)
  /\ (mf.job # None => Upto(f.lines, mf.job.turn))

CleanInv ==
  /\ \A p \in Procs : Owns(proc[p]) => lock # None /\ lock.by = p
  /\ file["turns"].tail # None /\ file["turns"].tail.whole => \E p \in Procs : Writes(proc[p])
  /\ LinesOK(manifest, file["turns"], acked)
  /\ \A p \in Procs : Knows(proc[p], manifest, file["turns"])

FilesInv == ProcsOK /\ FilesOK /\ (Clean => CleanInv)

LEMMA CreatedOwns ==
  ASSUME NEW m, Good(m), m.op \in Ops
  PROVE  Created(m) <=> Owns(m)
<1> DEFINE L == Len(Steps[m.op])
<1>1. m.at \in 1..L /\ L \in 1..9  BY OpsAre, Lengths DEF Good, Place
<1>2. ASSUME NEW i \in 1..(m.at - 1)
      PROVE  Steps[m.op][i] = "create"
             <=> (m.op = "apply" /\ i = 3) \/ (m.op \notin {"apply", "export", "read"} /\ i = 2)
  <2>1. i \in 1..L
    <3> HIDE DEF L
    <3> QED  BY <1>1
  <2> QED  BY <2>1, Places
<1>3. m.at \in Nat  BY DEF Good, Process
<1>4. m.at > 3 => 3 \in 1..(m.at - 1)  BY <1>3
<1>5. m.at > 2 => 2 \in 1..(m.at - 1)  BY <1>3
<1>6. \A i \in 1..(m.at - 1) : i = 3 => m.at > 3  BY <1>3
<1>7. \A i \in 1..(m.at - 1) : i = 2 => m.at > 2  BY <1>3
<1>8. Created(m) <=> \E i \in 1..(m.at - 1) : Steps[m.op][i] = "create"  BY DEF Created
<1>9. ASSUME Created(m) PROVE Owns(m)
  <2>1. PICK i \in 1..(m.at - 1) : Steps[m.op][i] = "create"  BY <1>8, <1>9
  <2>2. (m.op = "apply" /\ i = 3) \/ (m.op \notin {"apply", "export", "read"} /\ i = 2)
    BY <1>2, <2>1
  <2> QED  BY <1>6, <1>7, <2>2 DEF Owns
<1>10. ASSUME Owns(m) PROVE Created(m)
  <2>1. CASE m.op = "apply"
    <3>1. 3 \in 1..(m.at - 1)  BY <1>4, <1>10, <2>1 DEF Owns
    <3>2. Steps[m.op][3] = "create"  BY <1>2, <2>1, <3>1
    <3> QED  BY <1>8, <3>1, <3>2
  <2>2. CASE m.op # "apply"
    <3>1. 2 \in 1..(m.at - 1) /\ m.op \notin {"apply", "export", "read"}
      BY <1>5, <1>10, <2>2 DEF Owns
    <3>2. Steps[m.op][2] = "create"  BY <1>2, <3>1
    <3> QED  BY <1>8, <3>1, <3>2
  <2> QED  BY <2>1, <2>2
<1> QED  BY <1>9, <1>10

\* Who does nothing knows nothing, nor does an operation at its first step.
LEMMA IdleKnows ==
  ASSUME NEW mf, NEW f
  PROVE  Knows(Idle, mf, f) /\ ~Owns(Idle) /\ ~Writes(Idle)
BY IdleGood DEF Idle, Knows, KnowsTail, KnowsLines, KnowsManifest, Owns, Writes

LEMMA FirstKnows ==
  ASSUME NEW n, n.op # "apply", n.at = 1, n.first = "nothing", NEW mf, NEW f
  PROVE  Knows(n, mf, f) /\ ~Owns(n) /\ ~Writes(n)
BY DEF Knows, KnowsTail, KnowsLines, KnowsManifest, Repairs, Owns, Writes

LEMMA StoppedKnows ==
  ASSUME NEW m, Good(m), m.op \in Ops, NEW mf, NEW f
  PROVE  Knows(Stopped(m), mf, f) /\ (Owns(Stopped(m)) => Owns(m)) /\ ~Writes(Stopped(m))
<1> DEFINE L == Len(Steps[m.op])
<1>1. m \in Process  BY DEF Good
<1>2. CASE Created(m)
  <2> DEFINE n == [m EXCEPT !.at = L, !.error = TRUE, !.first = "nothing", !.writing = FALSE]
  <2>1. n = Stopped(m)  BY <1>2 DEF Stopped
  <2>2. /\ n.op = m.op /\ n.at = L /\ n.error = TRUE /\ n.first = "nothing" /\ n.writing = FALSE
    BY <1>1 DEF Process
  <2>3. Owns(m)  BY <1>2, CreatedOwns
  <2>4. m.op \notin {"export", "read"}  BY <2>3 DEF Owns
  <2>5. (m.op = "submit" => L = 8) /\ (m.op = "rollback" => L = 9)  BY Lengths
  <2> HIDE DEF n, L
  <2>6. KnowsTail(n, f)  BY <2>2 DEF KnowsTail, Writes
  <2>7. KnowsLines(n, f)  BY <2>2, <2>4, <2>5 DEF KnowsLines, Repairs
  <2>8. KnowsManifest(n, mf, f.lines)  BY <2>2 DEF KnowsManifest
  <2>9. ~Writes(n)  BY <2>2 DEF Writes
  <2> QED  BY <2>1, <2>3, <2>6, <2>7, <2>8, <2>9 DEF Knows
<1>3. CASE ~Created(m)
  <2> DEFINE n == [m EXCEPT !.error = TRUE]
             g == [Idle EXCEPT !.op = "fail", !.at = 1]
  <2>1. Stopped(m) = IF m.op = "apply" THEN g ELSE Idle
    BY <1>1, <1>3 DEF Stopped, Ended, Process
  <2>2. g.op = "fail" /\ g.at = 1 /\ g.first = "nothing"  BY DEF Idle
  <2> HIDE DEF g
  <2>3. Knows(g, mf, f) /\ ~Owns(g) /\ ~Writes(g)  BY <2>2, FirstKnows
  <2> QED  BY <2>1, <2>3, IdleKnows
<1> QED  BY <1>2, <1>3

\* What a process without the lock knows, others with the lock leave true.
LEMMA StrangerKnows ==
  ASSUME NEW m, Good(m), ~Owns(m), NEW mf, NEW f, Knows(m, mf, f), NEW mf2, NEW f2,
         m.op = "apply" /\ ~m.error => mf2.job = mf.job,
         f.tail = None => f2.tail = None
  PROVE  Knows(m, mf2, f2)
<1>1. m.op \in Ops => m.at \in Nat  BY DEF Good, Process
<1>2. /\ m.op \in Ops \ {"apply", "export", "read"} => m.at < 3
      /\ m.op = "apply" => m.at < 4
  BY <1>1, OpsAre DEF Owns
<1>3. KnowsTail(m, f2)  BY <1>1, <1>2, OpsAre DEF Knows, KnowsTail, Writes
<1>4. KnowsLines(m, f2)  BY <1>1, <1>2, OpsAre DEF Knows, KnowsLines
<1>5. KnowsManifest(m, mf2, f2.lines)  BY <1>1, <1>2, OpsAre DEF Knows, KnowsManifest, Runs
<1> QED  BY <1>3, <1>4, <1>5 DEF Knows

\* A cut that takes no line leaves true what any process knows, but one in the
\* middle of an append.
LEMMA CutKnows ==
  ASSUME NEW m, NEW mf, NEW f, Knows(m, mf, f), ~Writes(m), NEW f2, f2.lines = f.lines,
         f2.tail = None
  PROVE  Knows(m, mf, f2)
BY DEF Knows, KnowsTail, KnowsLines, KnowsManifest

\* A step that reads neither the manifest nor the turns, and a repair, leave a
\* process with what it knew.
LEMMA OnwardKnows ==
  ASSUME NEW m, Good(m), m.op \in Ops, ~m.error, m.at < Len(Steps[m.op]),
         \/ m.first = "tell"
         \/ m.first # "cut" /\ Steps[m.op][m.at] \in {"look", "create", "stamp", "note", "scan_events"},
         NEW mf, NEW f, Knows(m, mf, f),
         NEW n, n.op = m.op, n.at = m.at + 1, n.first = "nothing", ~n.error, ~n.writing,
         n.turn = m.turn, n.manifest = m.manifest, n.lines = m.lines
  PROVE  Knows(n, mf, f)
<1>1. m.at \in 1..Len(Steps[m.op]) /\ m.at \in Nat  BY DEF Good, Place, Process
<1>2. m.first = "tell" => Steps[m.op][m.at] \in {"scan", "scan_events"}  BY DEF Good, Place
<1>3. ~Writes(n)  BY DEF Writes
<1>4. m.op = "apply" => m.at # 7 /\ m.at # 8 /\ (m.at = 1 => m.first = "tell")
      /\ ~Writes(m)
  BY <1>1, <1>2, Places DEF Writes
<1>5. m.op = "recover" /\ m.at = 5 => m.first = "tell"  BY <1>1, <1>2, Places
<1>6. m.op = "submit" => (m.at = 4 => m.first = "tell") /\ m.at # 5 /\ m.at # 7
  BY <1>1, <1>2, Places
<1>7. m.op = "rollback" => (m.at = 5 => m.first = "tell") /\ m.at # 6 /\ m.at # 4
  BY <1>1, <1>2, Places
<1>8. m.op = "export" => (m.at = 2 /\ m.first = "tell") \/ m.at = 4
  BY <1>1, <1>2, Places
<1>9. m.op = "start" => m.at # 4 /\ m.at # 6  BY <1>1, <1>2, Places
<1>10. m.op \in {"resume", "cancel"} => m.at # 4  BY <1>1, <1>2, Places
<1>11. KnowsTail(n, f)  BY <1>1, <1>3, <1>4, <1>5 DEF Knows, KnowsTail
<1>12. KnowsLines(n, f)  BY <1>1, <1>6, <1>7, <1>8 DEF Knows, KnowsLines, Repairs
<1>13. KnowsManifest(n, mf, f.lines)
  BY <1>1, <1>4, <1>6, <1>7, <1>9, <1>10 DEF Knows, KnowsManifest
<1> QED  BY <1>11, <1>12, <1>13 DEF Knows

----------------------------------------------------------------------------
(* The steps *)

Whole == file["turns"].tail # None /\ file["turns"].tail.whole

\* A step that leaves the manifest and turns.jsonl as they are.
LEMMA Quiet ==
  ASSUME ProcsOK, CleanInv, NEW p \in Procs, NEW n, Does(p, n),
         manifest' = manifest, acked' = acked, file'["turns"] = file["turns"],
         Knows(n, manifest, file["turns"]), Whole /\ Writes(proc[p]) => Writes(n),
         Owns(n) => lock' # None /\ lock'.by = p,
         \A q \in Procs : q # p /\ Owns(proc[q]) => lock' # None /\ lock'.by = q
  PROVE  CleanInv'
<1>1. \A q \in Procs : proc'[q] = IF q = p THEN n ELSE proc[q]  BY DEF Does, ProcsOK
<1>2. \A q \in Procs : Owns(proc'[q]) => lock' # None /\ lock'.by = q  BY <1>1
<1>3. ASSUME Whole PROVE \E q \in Procs : Writes(proc'[q])
  <2>1. PICK q \in Procs : Writes(proc[q])  BY <1>3 DEF CleanInv, Whole
  <2>2. Writes(proc'[q])  BY <1>1, <1>3, <2>1
  <2> QED  BY <2>2
<1>4. \A q \in Procs : Knows(proc'[q], manifest, file["turns"])  BY <1>1 DEF CleanInv
<1>5. (\A q \in Procs : Owns(proc[q]) => lock # None /\ lock.by = q)'  BY <1>2
<1>6. (Whole => \E q \in Procs : Writes(proc[q]))'  BY <1>3 DEF Whole
<1>7. (\A q \in Procs : Knows(proc[q], manifest, file["turns"]))'  BY <1>4
<1>8. LinesOK(manifest, file["turns"], acked)'  BY DEF CleanInv
<1> QED  BY <1>5, <1>6, <1>7, <1>8 DEF CleanInv, Whole

\* The same, when the lock is not touched either.
LEMMA QuietLock ==
  ASSUME ProcsOK, CleanInv, NEW p \in Procs, NEW n, Does(p, n), lock' = lock,
         manifest' = manifest, acked' = acked, file'["turns"] = file["turns"],
         Knows(n, manifest, file["turns"]), Whole /\ Writes(proc[p]) => Writes(n),
         Owns(n) => Owns(proc[p])
  PROVE  CleanInv'
BY Quiet DEF CleanInv

\* A process that stops lets go of nothing it has not said.
LEMMA StopsQuiet ==
  ASSUME ProcsOK, CleanInv, NEW p \in Procs, proc[p].op \in Ops, Does(p, Stopped(proc[p])),
         lock' = lock, manifest' = manifest, acked' = acked, file'["turns"] = file["turns"],
         ~(Whole /\ Writes(proc[p]))
  PROVE  CleanInv'
<1>1. Good(proc[p])  BY DEF ProcsOK
<1> QED  BY <1>1, StoppedKnows, QuietLock

\* A step of the lock, a line of events.jsonl, and what follows a repair.
LEMMA OnwardQuiet ==
  ASSUME ProcsOK, CleanInv, NEW p \in Procs, proc[p].op \in Ops,
         \/ proc[p].first = "tell"
         \/ /\ proc[p].first # "cut"
            /\ Steps[proc[p].op][proc[p].at] \in {"look", "create", "stamp", "note", "scan_events"},
         Does(p, [Onward(proc[p]) EXCEPT !.writing = FALSE]),
         manifest' = manifest, acked' = acked, file'["turns"] = file["turns"],
         LET s == Steps[proc[p].op][proc[p].at] IN
           \/ s # "create" /\ lock' = lock
           \/ s = "create" /\ lock = None /\ lock' # None /\ lock'.by = p
           \/ s = "stamp" /\ (lock # None => lock' # None /\ lock'.by = lock.by)
           \/ s = "look" /\ (lock # None => lock.by \notin Procs)
  PROVE  CleanInv'
<1> DEFINE m == proc[p]
           n == [Onward(m) EXCEPT !.writing = FALSE]
<1>1. Steps[m.op][m.at] \in {"look", "create", "stamp", "note", "scan", "scan_events"}
  BY Working0 DEF Place
<1>2. Good(m) /\ m \in Process /\ ~m.error /\ m.at \in 1..Len(Steps[m.op])  BY <1>1, AtPlace
<1>3. ~Writes(m)  BY <1>1, <1>2, Places DEF Writes
<1>4. Knows(m, manifest, file["turns"])  BY DEF CleanInv
<1>5. Knows(n, manifest, file["turns"]) /\ n.op \in {m.op, "none"}
      /\ (n.op = m.op => n.at = m.at + 1) /\ (n.op = "none" => ~Owns(n))
  <2>1. CASE m.at < Len(Steps[m.op])
    <3> DEFINE o == Onward(m)
    <3>1. /\ o \in Process /\ o.op = m.op /\ o.at = m.at + 1 /\ o.first = "nothing"
          /\ o.error = m.error /\ o.turn = m.turn
          /\ o.manifest = m.manifest /\ o.lines = m.lines
      BY <1>2, <2>1, OnwardIs DEF Process
    <3> HIDE DEF o
    <3>2. /\ n.op = m.op /\ n.at = m.at + 1 /\ n.first = "nothing" /\ ~n.error /\ ~n.writing
          /\ n.turn = m.turn /\ n.manifest = m.manifest /\ n.lines = m.lines
      BY <1>2, <3>1 DEF Process, o
    <3> HIDE DEF n
    <3>3. Knows(n, manifest, file["turns"])  BY <1>2, <1>4, <2>1, <3>2, OnwardKnows
    <3>4. n.op # "none"  BY <3>2, OpsAre
    <3> QED  BY <3>2, <3>3, <3>4
  <2>2. CASE ~(m.at < Len(Steps[m.op]))
    <3>1. m.at = Len(Steps[m.op])
      <4> DEFINE L == Len(Steps[m.op])
      <4>1. L \in 1..9 /\ m.at \in 1..L /\ ~(m.at < L)  BY <1>2, <2>2, OpsAre, Lengths
      <4> HIDE DEF L
      <4>2. m.at = L  BY <4>1
      <4> QED  BY <4>2 DEF L
    <3>2. m.op \in {"export", "read"}  BY <1>1, <1>2, <3>1, Places
    <3>3. Onward(m) = Idle  BY <2>2, <3>2 DEF Onward, Ended
    <3>4. Idle \in Process /\ Idle.writing = FALSE  BY IdleGood DEF Good, Idle
    <3>5. n = Idle  BY <3>3, <3>4 DEF Process
    <3>6. Idle.op = "none" /\ m.op # "none"  BY OpsAre DEF Idle
    <3>7. Knows(Idle, manifest, file["turns"]) /\ ~Owns(Idle)  BY IdleKnows
    <3> HIDE DEF n
    <3> QED  BY <3>5, <3>6, <3>7
  <2> QED  BY <2>1, <2>2
<1> HIDE DEF n
<1>6. ASSUME Owns(n) PROVE /\ Owns(m) \/ Steps[m.op][m.at] = "create"
                           /\ Steps[m.op][m.at] # "look"
  <2>1. n.op = m.op /\ n.at = m.at + 1  BY <1>5, <1>6
  <2>2. CASE m.op = "apply"
    <3>1. m.at = 3 \/ m.at > 3  BY <1>2, <1>6, <2>1, <2>2 DEF Owns, Process
    <3>2. m.at = 3 => Steps[m.op][m.at] = "create"  BY <1>2, <2>2, Places
    <3>3. Steps[m.op][m.at] # "look"  BY <1>2, <2>2, <3>1, Places
    <3> QED  BY <1>2, <2>2, <3>1, <3>2, <3>3 DEF Owns
  <2>3. CASE m.op # "apply"
    <3>1. m.op \notin {"export", "read"} /\ (m.at = 2 \/ m.at > 2)
      BY <1>2, <1>6, <2>1, <2>3 DEF Owns, Process
    <3>2. m.at = 2 => Steps[m.op][m.at] = "create"  BY <1>2, <2>3, <3>1, Places
    <3>3. Steps[m.op][m.at] # "look"  BY <1>2, <2>3, <3>1, Places
    <3> QED  BY <1>2, <2>3, <3>1, <3>2, <3>3 DEF Owns
  <2> QED  BY <2>2, <2>3
<1>7. Owns(n) => lock' # None /\ lock'.by = p  BY <1>6 DEF CleanInv
<1>8. \A q \in Procs : q # p /\ Owns(proc[q]) => lock' # None /\ lock'.by = q
  BY DEF CleanInv
<1>9. Does(p, n)  BY DEF n
<1> QED  BY <1>3, <1>5, <1>7, <1>8, <1>9, Quiet

LEMMA OnwardSame ==
  ASSUME ProcsOK, NEW p \in Procs, proc[p].op \in Ops, ~proc[p].writing,
         Steps[proc[p].op][proc[p].at] \notin {"manifest", "unlock"}, Does(p, Onward(proc[p]))
  PROVE  Does(p, [Onward(proc[p]) EXCEPT !.writing = FALSE])
<1>1. Good(proc[p]) /\ ~proc[p].error  BY AtPlace
<1>2. [Onward(proc[p]) EXCEPT !.writing = FALSE] = Onward(proc[p])  BY <1>1, OnwardGood
<1> QED  BY <1>2

LEMMA LockClean ==
  ASSUME ProcsOK, FilesOK, CleanInv, Clean', NEW p \in Procs,
         LookLock(p) \/ RemoveLock(p) \/ CreateLock(p) \/ StampLock(p) \/ Unlock(p)
  PROVE  CleanInv'
<1> DEFINE m == proc[p]
<1>1. manifest' = manifest /\ acked' = acked /\ file' = file
  BY DEF LookLock, RemoveLock, CreateLock, StampLock, Unlock, files, history
<1>2. CASE LookLock(p)
  <2>1. m.op \in Ops /\ m.first = "nothing" /\ Steps[m.op][m.at] = "look" /\ lock' = lock
    BY <1>2 DEF LookLock, At
  <2>2. Good(m) /\ m \in Process /\ Place(m) /\ ~m.writing  BY <2>1, AtPlace DEF Place
  <2>3. CASE Does(p, Onward(m))
    <3>1. Does(p, [Onward(m) EXCEPT !.writing = FALSE])  BY <2>1, <2>2, <2>3, OnwardSame
    <3> QED  BY <1>1, <2>1, <3>1, OnwardQuiet
  <2>4. CASE Does(p, [m EXCEPT !.first = "remove"])
    <3> DEFINE n == [m EXCEPT !.first = "remove"]
    <3>1. /\ n.op = m.op /\ n.at = m.at /\ n.error = m.error /\ n.writing = m.writing
          /\ n.turn = m.turn /\ n.lines = m.lines /\ n.manifest = m.manifest
          /\ n.first = "remove"
      BY <2>2 DEF Process
    <3>2. Knows(m, manifest, file["turns"])  BY DEF CleanInv
    <3> HIDE DEF n
    <3>3. (Writes(n) <=> Writes(m)) /\ (Owns(n) <=> Owns(m))  BY <3>1 DEF Writes, Owns
    <3>4. KnowsTail(n, file["turns"])  BY <2>1, <3>1, <3>2, <3>3 DEF Knows, KnowsTail
    <3>5. KnowsLines(n, file["turns"])  BY <2>1, <3>1, <3>2 DEF Knows, KnowsLines, Repairs
    <3>6. KnowsManifest(n, manifest, file["turns"].lines)
      BY <3>1, <3>2 DEF Knows, KnowsManifest
    <3>7. Knows(n, manifest, file["turns"])  BY <3>4, <3>5, <3>6 DEF Knows
    <3>8. Does(p, n)  BY <2>4 DEF n
    <3> QED  BY <1>1, <2>1, <3>3, <3>7, <3>8, QuietLock
  <2> QED  BY <1>2, <2>3, <2>4 DEF LookLock
<1>3. CASE RemoveLock(p)
  <2>1. m.op \in Ops /\ m.first = "remove" /\ Does(p, Onward(m)) /\ ~Living
    BY <1>3 DEF RemoveLock, First, Clean
  <2>2. Steps[m.op][m.at] = "look"  BY <2>1, Working0 DEF Place
  <2>3. ~m.writing  BY <2>1, <2>2, Working0 DEF Place
  <2>4. Does(p, [Onward(m) EXCEPT !.writing = FALSE])  BY <2>1, <2>2, <2>3, OnwardSame
  <2>5. lock # None => lock.by \notin Procs  BY <2>1, NoneAssumption DEF Living
  <2> QED  BY <1>1, <2>1, <2>2, <2>4, <2>5, OnwardQuiet
<1>4. CASE CreateLock(p)
  <2>1. m.op \in Ops /\ m.first = "nothing" /\ Steps[m.op][m.at] = "create"
    BY <1>4 DEF CreateLock, At
  <2>2. Good(m) /\ m.at \in 1..Len(Steps[m.op]) /\ ~m.writing
    BY <2>1, AtPlace DEF Place
  <2>3. CASE lock = None
    <3>1. lock' = [by |-> p, state |-> "empty"] /\ Does(p, Onward(m))
      BY <1>4, <2>3 DEF CreateLock
    <3>2. lock' # None /\ lock'.by = p
      <4>1. lock' \in LockFile  BY <3>1 DEF LockFile
      <4> QED  BY <3>1, <4>1, NoneAssumption
    <3>3. Does(p, [Onward(m) EXCEPT !.writing = FALSE])  BY <2>1, <2>2, <3>1, OnwardSame
    <3> QED  BY <1>1, <2>1, <2>3, <3>2, <3>3, OnwardQuiet
  <2>4. CASE lock # None
    <3>1. lock' = lock /\ Does(p, Stopped(m))  BY <1>4, <2>4 DEF CreateLock
    <3>2. ~Writes(m)  BY <2>2 DEF Writes
    <3> QED  BY <1>1, <2>1, <3>1, <3>2, StopsQuiet
  <2> QED  BY <2>3, <2>4
<1>5. CASE StampLock(p)
  <2>1. m.op \in Ops /\ m.first = "nothing" /\ Steps[m.op][m.at] = "stamp" /\ Does(p, Onward(m))
    BY <1>5 DEF StampLock, At
  <2>2. ~m.writing  BY <2>1, AtPlace DEF Place
  <2>3. Does(p, [Onward(m) EXCEPT !.writing = FALSE])  BY <2>1, <2>2, OnwardSame
  <2>4. lock # None => lock' # None /\ lock'.by = lock.by
    <3>1. CASE lock # None /\ lock.by = p
      <4>1. lock \in LockFile  BY <3>1 DEF FilesOK
      <4>2. lock' = [lock EXCEPT !.state = "fresh"]  BY <1>5, <3>1 DEF StampLock
      <4>3. lock' \in LockFile /\ lock'.by = lock.by  BY <4>1, <4>2 DEF LockFile
      <4> QED  BY <4>3, NoneAssumption
    <3>2. CASE ~(lock # None /\ lock.by = p)  BY <1>5, <3>2 DEF StampLock
    <3> QED  BY <3>1, <3>2
  <2> QED  BY <1>1, <2>1, <2>3, <2>4, OnwardQuiet
<1>6. CASE Unlock(p)
  <2> DEFINE n == Ended(m)
  <2>1. m.op \in Ops /\ m.first = "nothing" /\ Steps[m.op][m.at] = "unlock" /\ Does(p, n)
    BY <1>6 DEF Unlock, At
  <2>2. Good(m) /\ m.at \in 1..Len(Steps[m.op]) /\ ~m.writing  BY <2>1, Working0 DEF Place
  <2>3. m.at = Len(Steps[m.op]) /\ m.op \notin {"export", "read"}  BY <2>1, <2>2, Places
  <2>4. m.at \in 6..9  BY <2>1, <2>3, LongOps
  <2>5. Owns(m)
    <3>1. m.at > 2 /\ m.at > 3
      <4> HIDE DEF m
      <4> QED  BY <2>4
    <3>2. m.op \in Ops /\ m.op \notin {"export", "read"}  BY <2>1, <2>3
    <3> HIDE DEF m
    <3> QED  BY <3>1, <3>2 DEF Owns
  <2>6. \A q \in Procs : q # p => ~Owns(proc[q])  BY <2>5 DEF CleanInv
  <2>7. Knows(m, manifest, file["turns"])  BY DEF CleanInv
  <2>8. Knows(n, manifest, file["turns"]) /\ ~Owns(n)
    <3>1. CASE m.op = "start" /\ ~m.error
      <4> DEFINE a == [Idle EXCEPT !.op = "apply", !.at = 1, !.turn = m.turn]
      <4>1. n = a  BY <3>1 DEF Ended
      <4>2. /\ a.op = "apply" /\ a.at = 1 /\ a.turn = m.turn /\ a.first = "nothing"
            /\ ~a.error /\ ~a.writing
        BY DEF Idle
      <4>3. m.at = 7  BY <2>3, <3>1, Lengths
      <4>4. Runs(manifest, m.turn)  BY <2>7, <3>1, <4>3 DEF Knows, KnowsManifest
      <4> HIDE DEF a, n
      <4>5. KnowsTail(a, file["turns"]) /\ ~Owns(a)  BY <4>2 DEF KnowsTail, Writes, Owns
      <4>6. KnowsLines(a, file["turns"])  BY <4>2 DEF KnowsLines
      <4>7. KnowsManifest(a, manifest, file["turns"].lines)  BY <4>2, <4>4 DEF KnowsManifest
      <4> QED  BY <4>1, <4>5, <4>6, <4>7 DEF Knows
    <3>2. CASE m.op = "apply" /\ m.error
      <4> DEFINE g == [Idle EXCEPT !.op = "fail", !.at = 1]
      <4>1. n = g  BY <3>2 DEF Ended
      <4>2. g.op = "fail" /\ g.at = 1 /\ g.first = "nothing"  BY DEF Idle
      <4> HIDE DEF g, n
      <4> QED  BY <4>1, <4>2, FirstKnows
    <3>3. CASE ~(m.op = "start" /\ ~m.error) /\ ~(m.op = "apply" /\ m.error)
      <4>1. n = Idle  BY <3>3 DEF Ended
      <4> HIDE DEF n
      <4> QED  BY <4>1, IdleKnows
    <3> QED  BY <3>1, <3>2, <3>3
  <2>9. ~Writes(m)  BY <2>2 DEF Writes
  <2> HIDE DEF n
  <2> QED  BY <1>1, <2>1, <2>6, <2>8, <2>9, Quiet
<1> QED  BY <1>2, <1>3, <1>4, <1>5, <1>6

\* Only the one worker appends to turns.jsonl, and it has the lock.
LEMMA OneWriter ==
  ASSUME ProcsOK, CleanInv, NEW p \in Procs, NEW q \in Procs, Writes(proc[q]),
         Owns(proc[p]) \/ proc[p].op \in WorkerOps
  PROVE  p = q
<1>1. proc[q].op = "apply" /\ proc[q].at = 7 /\ proc[q].op \in Ops
  BY OpsAre DEF Writes
<1>2. Owns(proc[q]) /\ proc[q].op \in WorkerOps  BY <1>1 DEF Owns, WorkerOps
<1>3. CASE Owns(proc[p])  BY <1>2, <1>3 DEF CleanInv
<1>4. CASE proc[p].op \in WorkerOps  BY <1>2, <1>4 DEF ProcsOK, Onlys
<1> QED  BY <1>3, <1>4

LEMMA ScanClean ==
  ASSUME ProcsOK, FilesOK, CleanInv, NEW p \in Procs, Scan(p)
  PROVE  CleanInv'
<1> DEFINE m == proc[p]
           f == file["turns"]
           ls == IF m.op \in {"submit", "rollback", "export"} THEN LinesRead(f) ELSE <<>>
           t == IF m.op = "export" THEN Standing(m.turn) ELSE m.turn
           read == [m EXCEPT !.lines = ls, !.turn = t]
           cut == [read EXCEPT !.first = "cut", !.seen = Len(f.lines)]
<1>1. m.op \in Ops /\ m.first = "nothing" /\ Steps[m.op][m.at] \in {"scan", "scan_events"}
  BY DEF Scan, At
<1>2. Good(m) /\ m \in Process /\ ~m.error /\ ~m.writing /\ m.at \in 1..Len(Steps[m.op])
  BY <1>1, AtPlace DEF Place
<1>3. UNCHANGED <<file, manifest, lock, acked>>  BY DEF Scan, files, history
<1>4. Knows(m, manifest, f)  BY DEF CleanInv
<1>5. ~Writes(m)  BY <1>2 DEF Writes
<1>6. CASE Steps[m.op][m.at] = "scan_events"
  <2>1. m.op = "recover" /\ m.at = 4  BY <1>1, <1>2, <1>6, Places
  <2> DEFINE e == file["events"]
             r == [m EXCEPT !.lines = <<>>, !.turn = m.turn]
             c == [r EXCEPT !.first = "cut", !.seen = Len(e.lines)]
  <2>2. On(p) = "events"  BY <1>6 DEF On
  <2>3. Does(p, IF Damaged(e) THEN Unreadable(m) ELSE IF Torn(e) THEN c ELSE Onward(r))
    BY <2>1, <2>2 DEF Scan
  <2>4. CASE Damaged(e)
    <3>1. Does(p, Stopped(m))  BY <2>1, <2>3, <2>4 DEF Unreadable
    <3> QED  BY <1>1, <1>3, <1>5, <3>1, StopsQuiet
  <2>5. /\ r.op = "recover" /\ r.at = 4 /\ ~r.error /\ r.first = "nothing" /\ ~r.writing
        /\ r.turn = m.turn /\ r.manifest = m.manifest /\ r \in Process
        /\ c.op = "recover" /\ c.at = 4 /\ ~c.error /\ ~c.writing
    <3>1. <<>> \in Seq(Turns)  OBVIOUS
    <3> QED  BY <1>1, <1>2, <2>1, <3>1 DEF Process
  <2>6. Knows(r, manifest, f) /\ Knows(c, manifest, f)
    <3> HIDE DEF r, c
    <3> QED  BY <2>5 DEF Knows, KnowsTail, KnowsLines, KnowsManifest, Writes
  <2>7. CASE ~Damaged(e) /\ Torn(e)
    <3>1. Does(p, c)  BY <2>3, <2>7
    <3>2. Owns(m)  BY <1>1, <2>1 DEF Owns
    <3> HIDE DEF c
    <3> QED  BY <1>3, <1>5, <2>6, <3>1, <3>2, QuietLock
  <2>8. CASE ~Damaged(e) /\ ~Torn(e)
    <3> DEFINE n == Onward(r)
    <3>1. Does(p, n)  BY <2>3, <2>8
    <3>2. r.op \in Ops /\ r.at < Len(Steps[r.op]) /\ Steps[r.op][r.at] = "scan_events"
      <4> HIDE DEF r
      <4>1. r.op = m.op /\ r.at = m.at /\ r.at = 4 /\ r.op = "recover"  BY <2>1, <2>5
      <4>2. Len(Steps[r.op]) = 7  BY <4>1, Lengths
      <4> QED  BY <1>1, <1>6, <4>1, <4>2
    <3>3. Good(r)
      <4> HIDE DEF r
      <4>1. Place(r)  BY <1>1, <1>2, <2>5, <2>1 DEF Place
      <4>2. Holds(r)  BY <2>5 DEF Holds
      <4> QED  BY <2>5, <4>1, <4>2 DEF Good
    <3>4. /\ n.op = r.op /\ n.at = r.at + 1 /\ n.first = "nothing" /\ n.writing = r.writing
          /\ n.error = r.error /\ n.turn = r.turn /\ n.manifest = r.manifest /\ n.lines = r.lines
      BY <2>5, <3>2, <3>3, OnwardIs
    <3>5. Owns(m)  BY <1>1, <2>1 DEF Owns
    <3> HIDE DEF n, r
    <3>6. Knows(n, manifest, f)  BY <2>5, <2>6, <3>2, <3>3, <3>4, OnwardKnows
    <3> QED  BY <1>3, <1>5, <3>1, <3>5, <3>6, QuietLock
  <2> QED  BY <2>4, <2>7, <2>8
<1>7. CASE Steps[m.op][m.at] = "scan"
  <2>1. On(p) = "turns"  BY <1>1, <1>7 DEF On
  <2>2. ~Damaged(f)  BY DEF CleanInv, LinesOK, Damaged
  <2>3. Does(p, IF Torn(f) THEN cut ELSE Onward(read))
    <3>1. Does(p, IF Damaged(file[On(p)]) THEN Unreadable(m)
                  ELSE IF Torn(file[On(p)])
                       THEN [[m EXCEPT
                                !.lines = IF m.op \in {"submit", "rollback", "export"}
                                          THEN LinesRead(file[On(p)]) ELSE <<>>,
                                !.turn = IF m.op = "export" THEN Standing(@) ELSE @]
                              EXCEPT !.first = "cut", !.seen = Len(file[On(p)].lines)]
                       ELSE Onward([m EXCEPT
                                !.lines = IF m.op \in {"submit", "rollback", "export"}
                                          THEN LinesRead(file[On(p)]) ELSE <<>>,
                                !.turn = IF m.op = "export" THEN Standing(@) ELSE @]))
      BY Zenon DEF Scan
    <3> QED  BY <2>1, <2>2, <3>1
  <2>4. \/ m.op \in {"apply", "read"} /\ m.at = 1
        \/ m.op = "submit" /\ m.at = 4
        \/ m.op \in {"resume", "rollback", "recover"} /\ m.at = 5
        \/ m.op = "export" /\ m.at = 2
    BY <1>1, <1>2, <1>7, Places
  <2>5. Whole => m.op \in {"export", "read"}
    <3> SUFFICES ASSUME Whole, m.op \notin {"export", "read"} PROVE FALSE  OBVIOUS
    <3>1. PICK q \in Procs : Writes(proc[q])  BY DEF CleanInv, Whole
    <3>2. Owns(m) \/ m.op \in WorkerOps  BY <1>1, <2>4 DEF Owns, WorkerOps
    <3>3. p = q  BY <3>1, <3>2, OneWriter
    <3> QED  BY <1>5, <3>1, <3>3
  <2>6. ~Torn(f) /\ m.op \notin {"export", "read"} => f.tail = None
    BY <2>5 DEF Torn, Whole
  <2>7. ls \in Seq(Turns) /\ Len(f.lines) \in Nat
    BY <2>2, ReadLines
  <2>8. t \in 0..MaxTurns /\ (m.op # "export" => t = m.turn)
    BY <1>2, FilesAssumption DEF Standing, Process
  <2>9. m.op \in {"submit", "rollback"} /\ (Torn(f) \/ f.tail = None) => ls = f.lines
    BY DEF LinesRead, Torn
  <2>10. m.op = "export" => t \in {0} \cup ToSet(ls)
    <3> SUFFICES ASSUME m.op = "export", t # 0 PROVE t \in ToSet(ls)  OBVIOUS
    <3>1. t \in acked  BY DEF Standing
    <3>2. t \in ToSet(f.lines)  BY <3>1 DEF CleanInv, LinesOK
    <3>3. f.lines \in Seq(Turns \cup {Bad})  BY DEF FilesOK, File
    <3>4. PICK i \in DOMAIN f.lines : t = f.lines[i]  BY <3>2 DEF ToSet
    <3>5. i \in DOMAIN ls /\ ls[i] = f.lines[i]
      <4>1. CASE f.tail # None /\ f.tail.whole
        <5>1. ls = Append(f.lines, f.tail.rec)  BY <4>1 DEF LinesRead
        <5> DEFINE l == f.lines
        <5>2. l \in Seq(Turns \cup {Bad}) /\ i \in DOMAIN l  BY <3>3, <3>4
        <5> HIDE DEF l
        <5>3. i \in DOMAIN Append(l, f.tail.rec) /\ Append(l, f.tail.rec)[i] = l[i]
          BY <5>2
        <5> QED  BY <5>1, <5>3 DEF l
      <4>2. CASE ~(f.tail # None /\ f.tail.whole)
        BY <3>4, <4>2 DEF LinesRead
      <4> QED  BY <4>1, <4>2
    <3> QED  BY <3>4, <3>5 DEF ToSet
  <2> HIDE DEF ls, t
  <2>11. /\ read \in Process /\ read.op = m.op /\ read.at = m.at /\ read.first = "nothing"
         /\ ~read.error /\ ~read.writing /\ read.manifest = m.manifest /\ read.turn = t
         /\ read.lines = ls
         /\ cut.op = m.op /\ cut.at = m.at /\ cut.first = "cut" /\ ~cut.error
         /\ ~cut.writing /\ cut.manifest = m.manifest /\ cut.turn = t /\ cut.lines = ls
    BY <1>1, <1>2, <2>7, <2>8 DEF Process
  <2>12. Good(read)
    <3> HIDE DEF read
    <3>1. Place(read)  BY <1>1, <1>2, <2>11 DEF Good, Place
    <3>2. Holds(read)  BY <1>1, <1>2, <2>8, <2>11 DEF Good, Holds
    <3> QED  BY <2>11, <3>1, <3>2 DEF Good
  <2>13. CASE Torn(f)
    <3>1. Does(p, cut)  BY <2>3, <2>13
    <3> HIDE DEF cut, read
    <3>2. KnowsTail(cut, f)  BY <1>4, <2>4, <2>11 DEF Knows, KnowsTail, Writes
    <3>3. KnowsLines(cut, f)  BY <2>4, <2>9, <2>10, <2>11, <2>13 DEF KnowsLines
    <3>4. KnowsManifest(cut, manifest, f.lines)
      BY <1>2, <1>4, <2>4, <2>8, <2>11 DEF Knows, KnowsManifest
    <3>5. Owns(cut) => Owns(m)  BY <2>11 DEF Owns
    <3>6. Knows(cut, manifest, f)  BY <3>2, <3>3, <3>4 DEF Knows
    <3> QED  BY <1>3, <1>5, <3>1, <3>5, <3>6, QuietLock
  <2>14. CASE ~Torn(f)
    <3> DEFINE n == Onward(read)
    <3>1. Does(p, n)  BY <2>3, <2>14
    <3>2. CASE m.op = "read"
      <4>1. n = Idle
        <5>1. read.op = "read" /\ read.at = 1  BY <2>4, <2>11, <3>2
        <5> HIDE DEF read
        <5> QED  BY <5>1, Lengths DEF Onward, Ended
      <4> HIDE DEF n
      <4> QED  BY <1>3, <1>5, <3>1, <4>1, IdleKnows, QuietLock
    <3>3. CASE m.op # "read"
      <4>1. read.op \in Ops /\ read.at < Len(Steps[read.op])
        <5>1. CASE m.op = "export"
          <6>1. read.op = "export" /\ read.at = 2 /\ read.op \in Ops
            BY <1>1, <2>4, <2>11, <5>1
          <6> HIDE DEF read
          <6> QED  BY <6>1, Lengths
        <5>2. CASE m.op # "export"
          <6>1. m.op \in Ops \ {"export", "read"} /\ Steps[m.op][m.at] # "unlock"
            BY <1>1, <1>7, <3>3, <5>2
          <6>2. m.at < Len(Steps[m.op])  BY <6>1, NotLast
          <6> HIDE DEF read
          <6> QED  BY <1>1, <2>11, <6>2
        <5> QED  BY <5>1, <5>2
      <4>2. /\ n.op = m.op /\ n.at = m.at + 1 /\ n.first = "nothing" /\ ~n.writing
            /\ ~n.error /\ n.turn = t /\ n.manifest = m.manifest /\ n.lines = ls
        <5> HIDE DEF read
        <5> QED  BY <2>11, <2>12, <4>1, OnwardIs
      <4> HIDE DEF n, read
      <4>3. KnowsTail(n, f)  BY <2>4, <2>6, <2>14, <3>3, <4>2 DEF KnowsTail, Writes
      <4>4. KnowsLines(n, f)
        BY <2>4, <2>6, <2>9, <2>10, <2>14, <3>3, <4>2 DEF KnowsLines, Repairs
      <4>5. KnowsManifest(n, manifest, f.lines)
        BY <1>2, <1>4, <2>4, <2>8, <3>3, <4>2 DEF Knows, KnowsManifest
      <4>6. Owns(n) => Owns(m)  BY <2>4, <4>2 DEF Owns
      <4>7. Knows(n, manifest, f)  BY <4>3, <4>4, <4>5 DEF Knows
      <4> QED  BY <1>3, <1>5, <3>1, <4>6, <4>7, QuietLock
    <3> QED  BY <3>2, <3>3
  <2> QED  BY <2>13, <2>14
<1> QED  BY <1>1, <1>6, <1>7

LEMMA CutClean ==
  ASSUME ProcsOK, FilesOK, CleanInv, Clean', NEW p \in Procs, Cut(p)
  PROVE  CleanInv'
<1> DEFINE m == proc[p]
           f == file["turns"]
           f2 == file'["turns"]
           n == [m EXCEPT !.first = "tell", !.seen = 0]
<1>1. m.op \in Ops /\ m.first = "cut" /\ Does(p, n) /\ ~InUse(p, On(p))
      /\ UNCHANGED <<manifest, lock, acked>>
  BY DEF Cut, First
<1>2. Steps[m.op][m.at] \in {"scan", "scan_events"}  BY <1>1, Working0 DEF Place
<1>3. Good(m) /\ m \in Process /\ ~m.error /\ ~m.writing /\ m.at \in 1..Len(Steps[m.op])
  BY <1>1, <1>2, AtPlace DEF Place
<1>4. m.seen = Len(file[On(p)].lines)  BY DEF Cut, Clean
<1>5. file' = [file EXCEPT ![On(p)] = [lines |-> file[On(p)].lines, tail |-> None]]
  <2> DEFINE l == file[On(p)].lines
  <2>1. On(p) \in {"turns", "events"}  BY DEF On
  <2>2. l \in Seq(Turns \cup {Bad})  BY <2>1 DEF FilesOK, File
  <2>3. Len(l) \in Nat  BY <2>2
  <2>4. ~(m.seen < Len(l)) /\ ~(m.seen > Len(l))  BY <1>4, <2>3
  <2> QED  BY <2>4 DEF Cut, LastGood
<1>6. /\ n.op = m.op /\ n.at = m.at /\ n.first = "tell" /\ n.error = m.error
      /\ n.writing = m.writing /\ n.turn = m.turn /\ n.manifest = m.manifest
      /\ n.lines = m.lines
  BY <1>3 DEF Process
<1> HIDE DEF n
<1>7. (Owns(n) <=> Owns(m)) /\ ~Writes(m) /\ ~Writes(n)  BY <1>3, <1>6 DEF Owns, Writes
<1>8. Knows(m, manifest, f)  BY DEF CleanInv
<1>9. \/ m.op \in {"apply", "read"} /\ m.at = 1
      \/ m.op = "submit" /\ m.at = 4
      \/ m.op \in {"resume", "rollback"} /\ m.at = 5
      \/ m.op = "recover" /\ m.at \in 4..5
      \/ m.op = "export" /\ m.at = 2
  BY <1>1, <1>2, <1>3, Places
<1>10. KnowsLines(n, f) /\ KnowsManifest(n, manifest, f.lines)
  BY <1>1, <1>6, <1>8 DEF Knows, KnowsLines, KnowsManifest, Repairs
<1>11. CASE On(p) = "events"
  <2>1. Steps[m.op][m.at] = "scan_events"  BY <1>1, <1>2, <1>11 DEF On
  <2>2. m.op = "recover" /\ m.at = 4  BY <1>1, <1>3, <2>1, Places
  <2>3. KnowsTail(n, f)  BY <1>6, <1>7, <2>2 DEF KnowsTail
  <2>4. f2 = f  BY <1>5, <1>11 DEF FilesOK
  <2>5. Knows(n, manifest, f)  BY <1>10, <2>3 DEF Knows
  <2> QED  BY <1>1, <1>7, <2>4, <2>5, QuietLock
<1>12. CASE On(p) = "turns"
  <2>1. f2.lines = f.lines /\ f2.tail = None  BY <1>5, <1>12 DEF FilesOK
  <2>2. ASSUME NEW q \in Procs PROVE ~Writes(proc[q])
    <3>1. CASE q = p  BY <1>7, <3>1
    <3>2. CASE q # p
      <4> SUFFICES ASSUME Writes(proc[q]) PROVE FALSE  OBVIOUS
      <4>1. proc[q].op \in Ops /\ proc[q].op = "apply" /\ proc[q].at = 7 /\ proc[q].writing
        BY OpsAre DEF Writes
      <4>2. Place(proc[q]) /\ proc[q].at \in 1..Len(Steps[proc[q].op])  BY <4>1, Working0
      <4>3. Steps[proc[q].op][proc[q].at] = "append"  BY <4>1, <4>2, Places
      <4>4. proc[q].first # "tell"  BY <4>1, <4>2, <4>3 DEF Place
      <4>5. On(q) = "turns"  BY <4>3, <4>4 DEF On
      <4> QED  BY <1>1, <1>12, <3>2, <4>1, <4>5 DEF InUse
    <3> QED  BY <3>1, <3>2
  <2>3. KnowsTail(n, f2)  BY <1>7, <2>1 DEF KnowsTail
  <2>4. Knows(n, manifest, f2)  BY <1>10, <2>1, <2>3 DEF Knows, KnowsLines
  <2>5. \A q \in Procs : proc'[q] = IF q = p THEN n ELSE proc[q]  BY <1>1 DEF Does, ProcsOK
  <2>6. \A q \in Procs : Knows(proc[q], manifest, f2)  BY <2>1, <2>2, CutKnows DEF CleanInv
  <2>7. \A q \in Procs : Knows(proc'[q], manifest, f2)  BY <2>4, <2>5, <2>6
  <2>8. \A q \in Procs : Owns(proc'[q]) => Owns(proc[q])  BY <1>7, <2>5
  <2>9. (\A q \in Procs : Owns(proc[q]) => lock # None /\ lock.by = q)'
    BY <1>1, <2>8 DEF CleanInv
  <2>10. LinesOK(manifest', f2, acked')  BY <1>1, <2>1 DEF CleanInv, LinesOK
  <2>11. (\A q \in Procs : Knows(proc[q], manifest, file["turns"]))'  BY <1>1, <2>7
  <2> QED  BY <2>1, <2>9, <2>10, <2>11 DEF CleanInv
<1> QED  BY <1>11, <1>12 DEF On

\* A step of the process that has the lock, which changes the manifest or
\* turns.jsonl.
LEMMA OwnerStep ==
  ASSUME ProcsOK, CleanInv, NEW p \in Procs, Owns(proc[p]), NEW n, Does(p, n), lock' = lock,
         Owns(n) \/ n = Idle, Knows(n, manifest', file'["turns"]),
         LinesOK(manifest', file'["turns"], acked'),
         file'["turns"].tail # None /\ file'["turns"].tail.whole => Writes(n),
         file["turns"].tail = None => file'["turns"].tail = None \/ proc[p].op = "apply",
         \A q \in Procs : q # p /\ proc[q].op = "apply" /\ ~proc[q].error
                          => manifest'.job = manifest.job
  PROVE  CleanInv'
<1>1. \A q \in Procs : proc'[q] = IF q = p THEN n ELSE proc[q]  BY DEF Does, ProcsOK
<1>2. \A q \in Procs : q # p => ~Owns(proc[q])  BY DEF CleanInv
<1>3. ~Owns(Idle)  BY IdleKnows
<1>4. (\A q \in Procs : Owns(proc[q]) => lock # None /\ lock.by = q)'
  BY <1>1, <1>2, <1>3 DEF CleanInv
<1>5. ASSUME NEW q \in Procs, q # p
      PROVE  Knows(proc[q], manifest', file'["turns"])
  <2>1. Good(proc[q]) /\ ~Owns(proc[q]) /\ Knows(proc[q], manifest, file["turns"])
    BY <1>2, <1>5 DEF ProcsOK, CleanInv
  <2>2. CASE proc[p].op # "apply"
    <3>1. file["turns"].tail = None => file'["turns"].tail = None  BY <2>2
    <3>2. proc[q].op = "apply" /\ ~proc[q].error => manifest'.job = manifest.job  BY <1>5
    <3> QED  BY <2>1, <3>1, <3>2, StrangerKnows
  <2>3. CASE proc[p].op = "apply"
    <3>1. proc[q].op \notin WorkerOps  BY <1>5, <2>3 DEF ProcsOK, Onlys, WorkerOps
    <3>2. proc[q].op # "apply"  BY <3>1 DEF WorkerOps
    <3>3. proc[q].op \in Ops => proc[q].at \in Nat  BY <2>1 DEF Good, Process
    <3>4. proc[q].op \in Ops \ {"apply", "export", "read"} => proc[q].at < 3
      BY <2>1, <3>3 DEF Owns
    <3>5. KnowsTail(proc[q], file'["turns"])
      BY <3>2, <3>3, <3>4, OpsAre DEF KnowsTail, Writes
    <3>6. KnowsLines(proc[q], file'["turns"])
      BY <2>1, <3>2, <3>3, <3>4, OpsAre DEF Knows, KnowsLines
    <3>7. KnowsManifest(proc[q], manifest', file'["turns"].lines)
      BY <3>2, <3>3, <3>4, OpsAre DEF KnowsManifest
    <3> QED  BY <3>5, <3>6, <3>7 DEF Knows
  <2> QED  BY <2>2, <2>3
<1>6. (\A q \in Procs : Knows(proc[q], manifest, file["turns"]))'  BY <1>1, <1>5
<1>7. (Whole => \E q \in Procs : Writes(proc[q]))'
  <2>1. file'["turns"].tail # None /\ file'["turns"].tail.whole => Writes(proc'[p])  BY <1>1
  <2> QED  BY <2>1 DEF Whole
<1>8. LinesOK(manifest, file["turns"], acked)'  OBVIOUS
<1> QED  BY <1>4, <1>6, <1>7, <1>8 DEF CleanInv, Whole

LEMMA RunsJob ==
  ASSUME NEW mf, NEW t \in Turns, Runs(mf, t)
  PROVE  mf.job # None /\ mf.job.turn = t /\ mf.job.status = "running" /\ Blocked(mf) /\ ~Failed(mf)
<1>1. mf.job = [turn |-> t, status |-> "running"]  BY DEF Runs
<1>2. mf.job \in Job  BY <1>1 DEF Job
<1>3. mf.job # None  BY <1>2, NoneAssumption
<1> QED  BY <1>1, <1>3 DEF Blocked, Failed

\* A line that the job allows leaves the file in order.
LEMMA AppendLines ==
  ASSUME NEW mf, NEW f, NEW named, LinesOK(mf, f, named), f.lines \in Seq(Turns \cup {Bad}),
         NEW t \in Turns, mf.job # None, mf.job.turn = t, NEW f2, f2.lines = Append(f.lines, t)
  PROVE  LinesOK(mf, f2, named) /\ t \in ToSet(f2.lines)
<1> DEFINE l == f.lines
           k == f2.lines
<1>1. /\ l \in Seq(Turns \cup {Bad}) /\ k = Append(l, t)
      /\ Bad \notin ToSet(l) /\ InOrder(l) /\ named \subseteq ToSet(l) /\ Upto(l, t)
  BY DEF LinesOK
<1> HIDE DEF l, k
<1>2. /\ Len(l) \in Nat /\ DOMAIN l = 1..Len(l) /\ DOMAIN k = 1..(Len(l) + 1)
      /\ \A i \in DOMAIN l : k[i] = l[i]
      /\ k[Len(l) + 1] = t
  BY <1>1
<1>3. DOMAIN k = DOMAIN l \cup {Len(l) + 1}  BY <1>2
<1>4. Bad # t  BY FilesAssumption DEF Turns
<1>5. Bad \notin ToSet(k)  BY <1>1, <1>2, <1>3, <1>4 DEF ToSet
<1>6. t \in ToSet(k) /\ ToSet(l) \subseteq ToSet(k)  BY <1>2, <1>3 DEF ToSet
<1>7. Upto(k, t)
  <2>1. t <= t  BY DEF Turns
  <2> QED  BY <1>1, <1>2, <1>3, <2>1 DEF Upto
<1>8. InOrder(k)
  <2> SUFFICES ASSUME NEW i \in DOMAIN k, NEW j \in DOMAIN k, i < j PROVE k[i] <= k[j]
    BY DEF InOrder
  <2>1. CASE j \in DOMAIN l
    <3>1. i \in DOMAIN l  BY <1>2, <2>1
    <3> QED  BY <1>1, <1>2, <2>1, <3>1 DEF InOrder
  <2>2. CASE j \notin DOMAIN l
    <3>1. k[j] = t  BY <1>2, <1>3, <2>2
    <3> QED  BY <1>7, <3>1 DEF Upto
  <2> QED  BY <2>1, <2>2
<1> QED  BY <1>1, <1>5, <1>6, <1>7, <1>8 DEF LinesOK, l, k

LEMMA AppendClean ==
  ASSUME ProcsOK, FilesOK, CleanInv, NEW p \in Procs,
         AppendLine(p) \/ AppendPart(p) \/ AppendRest(p)
  PROVE  CleanInv'
<1> DEFINE m == proc[p]
           f == file["turns"]
           f2 == file'["turns"]
<1>1. Appends(p) \/ m.writing  BY DEF AppendLine, AppendPart, AppendRest, MayAppend
<1>2. /\ m.op \in Ops /\ Good(m) /\ m \in Process /\ Place(m) /\ Holds(m) /\ ~m.error
      /\ Steps[m.op][m.at] \in {"append", "note", "scan", "scan_events"}
      /\ m.first = "tell" \/ (m.first = "nothing" /\ Steps[m.op][m.at] \in {"append", "note"})
  BY <1>1, AppendPlace
<1>3. m.at \in 1..Len(Steps[m.op])  BY <1>2 DEF Place
<1>4. UNCHANGED <<manifest, lock, acked>>
  BY DEF AppendLine, AppendPart, AppendRest, history
<1>5. Knows(m, manifest, f)  BY DEF CleanInv
<1>6. AppendLine(p) \/ AppendRest(p) => Does(p, [Onward(m) EXCEPT !.writing = FALSE])
  <2>1. CASE AppendLine(p)
    <3>1. ~m.writing /\ Does(p, Onward(m))  BY <2>1 DEF AppendLine, MayAppend
    <3> QED  BY <1>2, <3>1, OnwardSame
  <2>2. CASE AppendRest(p)  BY <2>2 DEF AppendRest
  <2> QED  BY <2>1, <2>2
<1> DEFINE w == [m EXCEPT !.writing = TRUE]
<1>7. AppendPart(p) => Does(p, w)  BY DEF AppendPart
<1>8. /\ w.op = m.op /\ w.at = m.at /\ w.first = m.first /\ w.error = m.error /\ w.writing
      /\ w.turn = m.turn /\ w.manifest = m.manifest /\ w.lines = m.lines
  BY <1>2 DEF Process
<1> HIDE DEF w
<1>9. KnowsLines(w, f) /\ KnowsManifest(w, manifest, f.lines) /\ (Owns(w) <=> Owns(m))
  BY <1>5, <1>8 DEF Knows, KnowsLines, KnowsManifest, Repairs, Owns
<1>10. CASE On(p) = "events"
  <2>1. m.first = "tell" \/ (m.first = "nothing" /\ Steps[m.op][m.at] = "note")
    BY <1>2, <1>10 DEF On
  <2>2. f2 = f  BY <1>10 DEF AppendLine, AppendPart, AppendRest, FilesOK
  <2>3. CASE AppendLine(p) \/ AppendRest(p)
    BY <1>2, <1>4, <1>6, <2>1, <2>2, <2>3, OnwardQuiet
  <2>4. CASE AppendPart(p)
    <3>1. Steps[m.op][m.at] # "append"  BY <1>2, <2>1 DEF Place
    <3>2. ~Writes(m) /\ ~Writes(w)
      <4>1. ~(m.op = "apply" /\ m.at = 7)  BY <1>2, <1>3, <3>1, Places
      <4> QED  BY <1>8, <4>1 DEF Writes
    <3>3. KnowsTail(w, f)  BY <1>5, <1>8, <3>2 DEF Knows, KnowsTail
    <3>4. Knows(w, manifest, f)  BY <1>9, <3>3 DEF Knows
    <3> QED  BY <1>4, <1>7, <1>9, <2>2, <2>4, <3>2, <3>4, QuietLock
  <2> QED  BY <2>3, <2>4
<1>11. CASE On(p) = "turns"
  <2>1. Steps[m.op][m.at] = "append" /\ m.first = "nothing"  BY <1>2, <1>11 DEF On, Place
  <2>2. m.op = "apply" /\ m.at = 7  BY <1>2, <1>3, <2>1, Places
  <2>3. Owns(m)  BY <1>2, <2>2 DEF Owns
  <2>4. m.turn \in Turns /\ Rec(p) = m.turn  BY <1>2, <1>11, <2>2 DEF Holds, Rec
  <2>5. Runs(manifest, m.turn)  BY <1>2, <1>5, <2>2 DEF Knows, KnowsManifest
  <2>6. manifest.job # None /\ manifest.job.turn = m.turn  BY <2>4, <2>5, RunsJob
  <2>7. LinesOK(manifest, f, acked)  BY DEF CleanInv
  <2>8. f.lines \in Seq(Turns \cup {Bad}) /\ file \in [{"turns", "events"} -> File]
    BY DEF FilesOK, File
  <2>9. \A q \in Procs : manifest'.job = manifest.job  BY <1>4
  <2>10. CASE AppendLine(p) \/ AppendRest(p)
    <3> DEFINE n == [Onward(m) EXCEPT !.writing = FALSE]
    <3>1. f2.lines = Append(f.lines, m.turn) /\ f2.tail = None
      <4>1. CASE AppendLine(p)
        <5>1. ~m.writing /\ file' = [file EXCEPT ![On(p)] = WithLine(@, On(p), Joined(@, Rec(p)))]
          BY <4>1 DEF AppendLine, MayAppend
        <5>2. f.tail = None  BY <1>2, <1>5, <2>2, <5>1 DEF Knows, KnowsTail, Writes
        <5>3. f2 = WithLine(f, "turns", m.turn)
          BY <1>11, <2>4, <2>8, <5>1, <5>2 DEF Joined
        <5> QED  BY <5>3 DEF WithLine
      <4>2. CASE AppendRest(p)
        <5>1. m.writing  BY <4>2 DEF AppendRest
        <5>2. f.tail # None /\ f.tail.rec = m.turn
          BY <1>5, <2>2, <5>1 DEF Knows, KnowsTail, Writes
        <5>3. f2 = WithLine(f, "turns", m.turn)
          BY <1>11, <2>8, <4>2, <5>2 DEF AppendRest
        <5> QED  BY <5>3 DEF WithLine
      <4> QED  BY <2>10, <4>1, <4>2
    <3>2. LinesOK(manifest, f2, acked) /\ m.turn \in ToSet(f2.lines)
      BY <2>4, <2>6, <2>7, <2>8, <3>1, AppendLines
    <3>3. /\ n.op = "apply" /\ n.at = 8 /\ n.first = "nothing" /\ ~n.error /\ ~n.writing
          /\ n.turn = m.turn
      <4> DEFINE o == Onward(m)
      <4>1. m.at < Len(Steps[m.op])  BY <2>2, Lengths
      <4>2. /\ o \in Process /\ o.op = m.op /\ o.at = m.at + 1 /\ o.first = "nothing"
            /\ o.error = m.error /\ o.turn = m.turn
        BY <1>2, <4>1, OnwardIs DEF Process
      <4>3. o.at = 8  BY <2>2, <4>2
      <4> HIDE DEF o
      <4> QED  BY <1>2, <2>2, <4>2, <4>3 DEF Process, o
    <3>4. Does(p, n)  BY <1>6, <2>10
    <3> HIDE DEF n
    <3>5. KnowsTail(n, f2)  BY <3>1, <3>3 DEF KnowsTail, Writes
    <3>6. KnowsLines(n, f2)  BY <3>3 DEF KnowsLines
    <3>7. KnowsManifest(n, manifest, f2.lines)  BY <2>5, <3>2, <3>3 DEF KnowsManifest
    <3>8. Knows(n, manifest, f2)  BY <3>5, <3>6, <3>7 DEF Knows
    <3>9. Owns(n)  BY <3>3, OpsAre DEF Owns
    <3> QED  BY <1>4, <2>2, <2>3, <2>9, <3>1, <3>2, <3>4, <3>8, <3>9, OwnerStep
  <2>11. CASE AppendPart(p)
    <3>1. ~m.writing  BY <2>11 DEF AppendPart, MayAppend
    <3>2. f.tail = None  BY <1>2, <1>5, <2>2, <3>1 DEF Knows, KnowsTail, Writes
    <3>3. PICK whole \in BOOLEAN :
            file' = [file EXCEPT ![On(p)].tail =
              [rec |-> Joined(file[On(p)], Rec(p)), whole |-> whole /\ file[On(p)].tail = None]]
      BY <2>11 DEF AppendPart
    <3> DEFINE t == [rec |-> m.turn, whole |-> whole]
    <3>4. Joined(file[On(p)], Rec(p)) = m.turn  BY <1>11, <2>4, <3>2 DEF Joined
    <3>5. f2.lines = f.lines /\ f2.tail.rec = m.turn /\ f2.tail \in Rest
      <4>1. f2 = [f EXCEPT !.tail =
                    [rec |-> m.turn, whole |-> whole /\ file[On(p)].tail = None]]
        BY <1>11, <2>8, <3>3, <3>4
      <4>2. f \in File  BY DEF FilesOK
      <4>3. [rec |-> m.turn, whole |-> whole /\ file[On(p)].tail = None] \in Rest
        BY <2>4 DEF Rest
      <4> QED  BY <4>1, <4>2, <4>3 DEF File
    <3>6. f2.tail # None  BY <3>5, NoneAssumption
    <3>7. Writes(w) /\ Owns(w)  BY <1>8, <1>9, <2>2, <2>3 DEF Writes
    <3>8. KnowsTail(w, f2)  BY <1>8, <2>2, <3>5, <3>6, <3>7 DEF KnowsTail
    <3>9. KnowsLines(w, f2) /\ KnowsManifest(w, manifest, f2.lines)
      BY <1>8, <1>9, <2>2, <3>5 DEF KnowsLines
    <3>10. Knows(w, manifest, f2)  BY <3>8, <3>9 DEF Knows
    <3>11. LinesOK(manifest, f2, acked)  BY <2>7, <3>5 DEF LinesOK
    <3>12. Does(p, w)  BY <1>7, <2>11
    <3> QED  BY <1>4, <2>2, <2>3, <2>9, <3>7, <3>10, <3>11, <3>12, OwnerStep
  <2> QED  BY <2>10, <2>11
<1> QED  BY <1>10, <1>11 DEF On

\* The lines up to the turn gone back to hold every turn named that is not later.
LEMMA PrefixLines ==
  ASSUME NEW mf, NEW f, NEW named \in SUBSET Turns, LinesOK(mf, f, named),
         f.lines \in Seq(Turns \cup {Bad}), NEW i \in DOMAIN f.lines, NEW t \in Turns,
         f.lines[i] = t, NEW f2, f2.lines = SubSeq(f.lines, 1, i)
  PROVE  LinesOK(mf, f2, named \cap 1..t)
<1> DEFINE l == f.lines
           k == f2.lines
<1>1. /\ l \in Seq(Turns \cup {Bad}) /\ k = SubSeq(l, 1, i) /\ i \in DOMAIN l /\ l[i] = t
      /\ Bad \notin ToSet(l) /\ InOrder(l) /\ named \subseteq ToSet(l)
      /\ (mf.job # None => Upto(l, mf.job.turn))
  BY DEF LinesOK
<1> HIDE DEF l, k
<1>2. /\ DOMAIN l = 1..Len(l) /\ Len(l) \in Nat /\ i \in Nat
      /\ DOMAIN k = 1..i /\ 1..i \subseteq DOMAIN l
      /\ \A j \in 1..i : k[j] = l[j]
  BY <1>1
<1>3. ToSet(k) \subseteq ToSet(l)  BY <1>2 DEF ToSet
<1>4. InOrder(k)  BY <1>1, <1>2 DEF InOrder
<1>5. ASSUME NEW u \in named \cap 1..t PROVE u \in ToSet(k)
  <2>1. PICK j \in DOMAIN l : l[j] = u  BY <1>1 DEF ToSet
  <2>2. CASE j \in 1..i  BY <1>2, <2>1, <2>2 DEF ToSet
  <2>3. CASE j \notin 1..i
    <3>1. i < j  BY <1>2, <2>3
    <3>2. t <= u  BY <1>1, <2>1, <3>1 DEF InOrder
    <3>3. u = t  BY <3>2 DEF Turns
    <3>4. i \in DOMAIN k /\ k[i] = t  BY <1>1, <1>2
    <3> QED  BY <3>3, <3>4 DEF ToSet
  <2> QED  BY <2>2, <2>3
<1>6. mf.job # None => Upto(k, mf.job.turn)  BY <1>1, <1>2 DEF Upto
<1> QED  BY <1>1, <1>3, <1>4, <1>5, <1>6 DEF LinesOK, k

LEMMA RewriteClean ==
  ASSUME ProcsOK, FilesOK, CleanInv, NEW p \in Procs, Rewrite(p)
  PROVE  CleanInv'
<1> DEFINE m == proc[p]
           f == file["turns"]
           f2 == file'["turns"]
<1>1. m.op \in Ops /\ m.first = "nothing" /\ Steps[m.op][m.at] = "rewrite"
      /\ UNCHANGED <<manifest, lock>>
  BY DEF Rewrite, At
<1>2. Good(m) /\ m \in Process /\ ~m.error /\ ~m.writing /\ m.at \in 1..Len(Steps[m.op])
  BY <1>1, AtPlace DEF Place
<1>3. m.op = "rollback" /\ m.at = 6  BY <1>1, <1>2, Places
<1>4. Knows(m, manifest, f) /\ LinesOK(manifest, f, acked)  BY DEF CleanInv
<1>5. m.lines = f.lines  BY <1>3, <1>4 DEF Knows, KnowsLines
<1>6. m.manifest = manifest /\ ~Blocked(manifest)
  BY <1>2, <1>3, <1>4 DEF Knows, KnowsManifest
<1>7. Owns(m) /\ ~Writes(m)  BY <1>1, <1>2, <1>3 DEF Owns, Writes
<1>8. CASE Does(p, Stopped(m)) /\ UNCHANGED <<file, acked, overtaken>>
  BY <1>1, <1>7, <1>8, StopsQuiet
<1>9. ASSUME NEW t \in Turns, NEW i \in DOMAIN m.lines, m.lines[i] = t,
             file' = [file EXCEPT !["turns"] = [lines |-> SubSeq(m.lines, 1, i), tail |-> None]],
             acked' = acked \cap 1..t,
             Does(p, [Onward(m) EXCEPT !.turn = t, !.lines = <<>>])
      PROVE  CleanInv'
  <2> DEFINE o == Onward(m)
             n == [o EXCEPT !.turn = t, !.lines = <<>>]
  <2>1. f2.lines = SubSeq(f.lines, 1, i) /\ f2.tail = None
    BY <1>5, <1>9 DEF FilesOK
  <2>2. f.lines \in Seq(Turns \cup {Bad}) /\ acked \in SUBSET Turns
    BY DEF FilesOK, File
  <2>3. LinesOK(manifest, f2, acked \cap 1..t)  BY <1>4, <1>5, <1>9, <2>1, <2>2, PrefixLines
  <2>4. m.at < Len(Steps[m.op])  BY <1>3, Lengths
  <2>5. /\ o \in Process /\ o.op = m.op /\ o.at = m.at + 1 /\ o.first = "nothing"
        /\ o.error = m.error /\ o.manifest = m.manifest /\ o.writing = m.writing
    BY <1>1, <1>2, <2>4, OnwardIs DEF Process
  <2>6. o.at = 7 /\ o.op = "rollback"  BY <1>3, <2>5
  <2> HIDE DEF o
  <2>7. /\ n.op = "rollback" /\ n.at = 7 /\ n.first = "nothing" /\ ~n.error /\ ~n.writing
        /\ n.manifest = m.manifest
    BY <1>2, <2>5, <2>6 DEF Process
  <2>8. Does(p, n)  BY <1>9 DEF o
  <2> HIDE DEF n
  <2>9. KnowsTail(n, f2)  BY <2>7 DEF KnowsTail, Writes
  <2>10. KnowsLines(n, f2)  BY <2>7 DEF KnowsLines
  <2>11. KnowsManifest(n, manifest, f2.lines)  BY <1>6, <2>7 DEF KnowsManifest
  <2>12. Knows(n, manifest, f2)  BY <2>9, <2>10, <2>11 DEF Knows
  <2>13. Owns(n)  BY <2>7, OpsAre DEF Owns
  <2>14. LinesOK(manifest', f2, acked')  BY <1>1, <1>9, <2>3
  <2>15. manifest'.job = manifest.job /\ Knows(n, manifest', f2) /\ lock' = lock
    BY <1>1, <2>12
  <2> QED  BY <1>7, <2>1, <2>8, <2>13, <2>14, <2>15, OwnerStep
<1> QED  BY <1>8, <1>9, Zenon DEF Rewrite

LEMMA ReadManifestClean ==
  ASSUME ProcsOK, FilesOK, CleanInv, NEW p \in Procs, ReadManifest(p)
  PROVE  CleanInv'
<1> DEFINE m == proc[p]
           f == file["turns"]
           goes ==
             CASE m.op \in {"start", "apply"}     -> Blocked(manifest)
               [] m.op = "submit"                 -> manifest.job = None /\ m.lines # <<>>
                                                     /\ Last(m.lines) < MaxTurns
               [] m.op \in {"resume", "cancel"}   -> Failed(manifest)
               [] m.op \in {"rollback", "export"} -> ~Blocked(manifest)
           turn ==
             CASE m.op = "submit"              -> NextTurn(m.lines)
               [] m.op \in {"start", "resume"} -> manifest.job.turn
               [] m.op = "export"              -> manifest.current
               [] OTHER                        -> m.turn
           read == [Onward(m) EXCEPT !.manifest = manifest]
           n == [read EXCEPT !.turn = turn, !.lines = <<>>]
<1>1. m.op \in Ops /\ m.first = "nothing" /\ Steps[m.op][m.at] = "manifest"
      /\ Does(p, IF goes THEN n ELSE Stopped(m))
  BY Zenon DEF ReadManifest, At
<1>2. Good(m) /\ m \in Process /\ ~m.error /\ ~m.writing /\ m.at \in 1..Len(Steps[m.op])
  BY <1>1, AtPlace DEF Place
<1>3. \/ m.op \in {"start", "resume", "cancel", "rollback"} /\ m.at = 4
      \/ m.op \in {"apply", "submit"} /\ m.at = 5
      \/ m.op = "export" /\ m.at = 1
  BY <1>1, <1>2, Places
<1>4. UNCHANGED <<file, manifest, lock, acked>>  BY DEF ReadManifest, files, history
<1>5. ~Writes(m)  BY <1>2 DEF Writes
<1>6. Knows(m, manifest, f) /\ LinesOK(manifest, f, acked)  BY DEF CleanInv
<1>7. CASE ~goes
  <2>1. Does(p, Stopped(m))  BY <1>1, <1>7
  <2> QED  BY <1>1, <1>4, <1>5, <2>1, StopsQuiet
<1>8. CASE goes
  <2> DEFINE o == Onward(m)
  <2>1. m.at < Len(Steps[m.op])
    <3>1. CASE m.op = "export"  BY <1>3, <3>1, Lengths
    <3>2. CASE m.op # "export"
      <4>1. m.op \in Ops \ {"export", "read"} /\ Steps[m.op][m.at] # "unlock"
        BY <1>1, <1>3, <3>2
      <4> QED  BY <4>1, NotLast
    <3> QED  BY <3>1, <3>2
  <2>2. /\ o \in Process /\ o.op = m.op /\ o.at = m.at + 1 /\ o.first = "nothing"
        /\ o.writing = m.writing /\ o.error = m.error
    BY <1>1, <1>2, <2>1, OnwardIs DEF Process
  <2>3. m.op = "submit" => manifest.job = None /\ Upto(f.lines, turn)
    <3> SUFFICES ASSUME m.op = "submit" PROVE manifest.job = None /\ Upto(f.lines, turn)
      OBVIOUS
    <3>1. manifest.job = None /\ m.lines # <<>> /\ m.lines \in Seq(Turns)
      BY <1>2, <1>8 DEF Process
    <3>2. m.lines = f.lines  BY <1>3, <1>6 DEF Knows, KnowsLines
    <3>3. turn = Last(f.lines) + 1  BY <3>2 DEF NextTurn
    <3> DEFINE l == f.lines
    <3>4. l \in Seq(Turns) /\ l # <<>> /\ InOrder(l) /\ turn = l[Len(l)] + 1
      BY <1>6, <3>1, <3>2, <3>3 DEF LinesOK, Last
    <3> HIDE DEF l, turn
    <3>5. Len(l) \in Nat /\ Len(l) > 0 /\ DOMAIN l = 1..Len(l) /\ Len(l) \in DOMAIN l
      BY <3>4
    <3>6. ASSUME NEW i \in DOMAIN l PROVE l[i] <= turn
      <4>1. l[i] \in Turns /\ l[Len(l)] \in Turns  BY <3>4, <3>5
      <4>2. l[i] <= l[Len(l)]
        <5>1. CASE i = Len(l)  BY <4>1, <5>1 DEF Turns
        <5>2. CASE i # Len(l)
          <6>1. i < Len(l)  BY <3>5, <5>2
          <6> QED  BY <3>4, <3>5, <6>1 DEF InOrder
        <5> QED  BY <5>1, <5>2
      <4> QED  BY <3>4, <4>1, <4>2 DEF Turns
    <3> QED  BY <3>1, <3>6 DEF Upto, l
  <2>4. /\ m.op \in {"start", "resume"} => turn = manifest.job.turn
        /\ m.op = "apply" => turn = m.turn
    OBVIOUS
  <2>5. /\ m.op \in {"resume", "cancel"} => Failed(manifest)
        /\ m.op = "rollback" => ~Blocked(manifest)
    BY <1>8
  <2>6. m.op = "apply" => Runs(manifest, m.turn) /\ f.tail = None
    BY <1>2, <1>3, <1>5, <1>6 DEF Knows, KnowsTail, KnowsManifest
  <2>7. Does(p, n)  BY <1>1, <1>8
  <2> HIDE DEF turn, o
  <2>8. /\ n.op = m.op /\ n.at = m.at + 1 /\ n.first = "nothing" /\ ~n.writing /\ ~n.error
        /\ n.manifest = manifest /\ n.turn = turn
    BY <1>2, <2>2 DEF Process, o
  <2> HIDE DEF n, goes
  <2>9. KnowsTail(n, f)  BY <1>3, <2>6, <2>8 DEF KnowsTail, Writes
  <2>10. KnowsLines(n, f)  BY <1>3, <2>8 DEF KnowsLines, Repairs
  <2>11. KnowsManifest(n, manifest, f.lines)
    BY <1>3, <2>3, <2>4, <2>5, <2>6, <2>8 DEF KnowsManifest
  <2>12. Knows(n, manifest, f)  BY <2>9, <2>10, <2>11 DEF Knows
  <2>13. Owns(n) => Owns(m)  BY <1>1, <1>3, <2>8 DEF Owns
  <2> QED  BY <1>4, <1>5, <2>7, <2>12, <2>13, QuietLock
<1> QED  BY <1>7, <1>8

LEMMA OwnerWhole ==
  ASSUME ProcsOK, CleanInv, NEW p \in Procs, Owns(proc[p]), ~Writes(proc[p])
  PROVE  ~Whole
<1> SUFFICES ASSUME Whole PROVE FALSE  OBVIOUS
<1>1. PICK q \in Procs : Writes(proc[q])  BY DEF CleanInv, Whole
<1> QED  BY <1>1, OneWriter

\* While a job runs, no other process has read a manifest without it.
LEMMA ApplyRuns ==
  ASSUME ProcsOK, CleanInv, NEW p \in Procs, Owns(proc[p]), NEW q \in Procs, q # p,
         proc[q].op = "apply", ~proc[q].error
  PROVE  manifest.job # None /\ ~Failed(manifest)
<1>1. Good(proc[q]) /\ Knows(proc[q], manifest, file["turns"]) /\ ~Owns(proc[q])
  BY DEF ProcsOK, CleanInv
<1>2. proc[q].at \in Nat /\ proc[q].op \in Ops  BY <1>1, OpsAre DEF Good, Process
<1>3. proc[q].at < 9  BY <1>1, <1>2 DEF Owns
<1>4. Runs(manifest, proc[q].turn)  BY <1>1, <1>3 DEF Knows, KnowsManifest
<1>5. proc[q].turn \in Turns  BY <1>1 DEF Good, Holds
<1> QED  BY <1>4, <1>5, RunsJob

LEMMA StartClean ==
  ASSUME ProcsOK, FilesOK, CleanInv, NEW p \in Procs, Start(p)
  PROVE  CleanInv'
<1> DEFINE m == proc[p]
           f == file["turns"]
           n == Onward(m)
<1>1. m.op \in Ops /\ m.first = "nothing" /\ Steps[m.op][m.at] = "start" /\ Does(p, n)
      /\ UNCHANGED <<file, lock, acked>>
  BY DEF Start, At, history
<1>2. Good(m) /\ m \in Process /\ ~m.error /\ ~m.writing /\ Holds(m)
      /\ m.at \in 1..Len(Steps[m.op])
  BY <1>1, AtPlace DEF Place
<1>3. m.op = "start" /\ m.at = 6  BY <1>1, <1>2, Places
<1>4. Knows(m, manifest, f) /\ LinesOK(manifest, f, acked)  BY DEF CleanInv
<1>5. m.manifest = manifest /\ m.turn = manifest.job.turn /\ manifest.job # None
  BY <1>2, <1>3, <1>4 DEF Knows, KnowsManifest, Holds
<1>6. manifest \in Manifest /\ manifest.job \in Job  BY <1>5 DEF FilesOK, Manifest
<1>7. manifest' = [manifest EXCEPT !.job.status = "running"]  BY <1>5 DEF Start
<1>8. manifest'.job = [manifest.job EXCEPT !.status = "running"]
  BY <1>6, <1>7 DEF Manifest
<1>9. Runs(manifest', m.turn)
  BY <1>5, <1>6, <1>8 DEF Runs, Job
<1>10. manifest'.job.turn = manifest.job.turn  BY <1>5, <1>9 DEF Runs
<1>11. Owns(m) /\ ~Writes(m) /\ m.op \in WorkerOps
  BY <1>1, <1>2, <1>3 DEF Owns, Writes, WorkerOps
<1>12. ~Whole  BY <1>11, OwnerWhole
<1>13. m.at < Len(Steps[m.op])  BY <1>3, Lengths
<1>14. /\ n.op = m.op /\ n.at = m.at + 1 /\ n.first = "nothing" /\ n.error = m.error
       /\ n.writing = m.writing /\ n.turn = m.turn
  BY <1>1, <1>2, <1>13, OnwardIs
<1> HIDE DEF n
<1>15. KnowsTail(n, f) /\ KnowsLines(n, f)  BY <1>3, <1>14 DEF KnowsTail, KnowsLines, Writes
<1>16. KnowsManifest(n, manifest', f.lines)  BY <1>3, <1>9, <1>14 DEF KnowsManifest
<1>17. Knows(n, manifest', f)  BY <1>15, <1>16 DEF Knows
<1>18. LinesOK(manifest', f, acked)  BY <1>4, <1>5, <1>10 DEF LinesOK
<1>19. Owns(n)  BY <1>1, <1>3, <1>14 DEF Owns
<1>20. \A q \in Procs : q # p => proc[q].op # "apply"
  BY <1>11 DEF ProcsOK, Onlys, WorkerOps
<1> QED  BY <1>1, <1>3, <1>11, <1>12, <1>17, <1>18, <1>19, <1>20, OwnerStep DEF Whole

LEMMA WriteManifestClean ==
  ASSUME ProcsOK, FilesOK, CleanInv, NEW p \in Procs, WriteManifest(p)
  PROVE  CleanInv'
<1> DEFINE m == proc[p]
           f == file["turns"]
           n == [Onward(m) EXCEPT !.manifest = None]
<1>1. m.op \in Ops /\ m.first = "nothing" /\ Does(p, n)
      /\ Steps[m.op][m.at] \in {"publish", "queue", "clear", "fail"}
      /\ UNCHANGED <<file, lock>>
  BY DEF WriteManifest, At
<1>2. Good(m) /\ m \in Process /\ ~m.error /\ ~m.writing /\ Holds(m)
      /\ m.at \in 1..Len(Steps[m.op])
  BY <1>1, AtPlace DEF Place
<1>3. /\ Steps[m.op][m.at] = "publish"
         => (m.op = "apply" /\ m.at = 8) \/ (m.op = "rollback" /\ m.at = 7)
      /\ Steps[m.op][m.at] = "queue" => m.op \in {"submit", "resume"} /\ m.at = 7
      /\ Steps[m.op][m.at] = "clear" => m.op = "cancel" /\ m.at = 6
      /\ Steps[m.op][m.at] = "fail" => m.op = "fail" /\ m.at = 4
  <2>1. m.op \in Ops /\ m.at \in 1..Len(Steps[m.op])  BY <1>1, <1>2
  <2> HIDE DEF m
  <2>2. Steps[m.op][m.at] = "publish"
        => (m.op = "apply" /\ m.at = 8) \/ (m.op = "rollback" /\ m.at = 7)
    BY <2>1, Places
  <2>3. Steps[m.op][m.at] = "queue" => m.op \in {"submit", "resume"} /\ m.at = 7
    BY <2>1, Places
  <2>4. Steps[m.op][m.at] = "clear" => m.op = "cancel" /\ m.at = 6  BY <2>1, Places
  <2>5. Steps[m.op][m.at] = "fail" => m.op = "fail" /\ m.at = 4  BY <2>1, Places
  <2> QED  BY <2>2, <2>3, <2>4, <2>5
<1>4. Knows(m, manifest, f) /\ LinesOK(manifest, f, acked)  BY DEF CleanInv
<1>5. Owns(m) /\ ~Writes(m)  BY <1>1, <1>2, <1>3 DEF Owns, Writes
<1>6. ~Whole  BY <1>5, OwnerWhole
<1>7. /\ n.op = m.op /\ n.at = m.at + 1 /\ n.first = "nothing" /\ ~n.error /\ ~n.writing
  <2> DEFINE o == Onward(m)
  <2>1. m.op \in Ops \ {"export", "read"} /\ Steps[m.op][m.at] # "unlock"
    BY <1>1, <1>5 DEF Owns
  <2>2. m.at < Len(Steps[m.op])  BY <2>1, NotLast
  <2>3. /\ o \in Process /\ o.op = m.op /\ o.at = m.at + 1 /\ o.first = "nothing"
        /\ o.writing = m.writing /\ o.error = m.error
    BY <1>1, <1>2, <2>2, OnwardIs DEF Process
  <2> HIDE DEF o
  <2> QED  BY <1>2, <2>3 DEF Process, o
<1> HIDE DEF n
<1>8. Owns(n)  BY <1>1, <1>2, <1>5, <1>7 DEF Owns, Process
<1>9. manifest \in Manifest  BY DEF FilesOK
<1>10. ASSUME NEW mf, manifest' = mf,
              \A q \in Procs : q # p /\ proc[q].op = "apply" /\ ~proc[q].error
                               => mf.job = manifest.job,
              LinesOK(mf, f, acked'), m.op = "apply" => f.tail = None
       PROVE  CleanInv'
  <2>1. /\ n.op = "apply" => n.at = 9
        /\ n.op \in {"submit", "resume", "rollback"} => n.at = 8
        /\ n.op = "cancel" => n.at = 7
        /\ n.op = "fail" => n.at = 5
        /\ n.op \in {"apply", "submit", "resume", "rollback", "cancel", "fail"}
    BY <1>1, <1>3, <1>7
  <2>2. KnowsTail(n, f)  BY <1>7, <1>10, <2>1 DEF KnowsTail, Writes
  <2>3. KnowsLines(n, f)  BY <2>1 DEF KnowsLines
  <2>4. KnowsManifest(n, mf, f.lines)  BY <2>1 DEF KnowsManifest
  <2>5. Knows(n, mf, f)  BY <2>2, <2>3, <2>4 DEF Knows
  <2> QED  BY <1>1, <1>5, <1>6, <1>8, <1>10, <2>5, OwnerStep DEF Whole
<1>11. CASE At(p, "publish")
  <2>1. /\ manifest' = [current |-> m.turn, job |-> IF m.op = "apply" THEN None ELSE m.manifest.job]
        /\ acked' = IF m.op = "apply" THEN acked \cup {m.turn} ELSE acked
    BY <1>11 DEF WriteManifest, At
  <2>2. CASE m.op = "apply"
    <3>1. m.at = 8  BY <1>3, <1>11, <2>2 DEF At
    <3>2. m.turn \in ToSet(f.lines) /\ f.tail = None
      BY <1>2, <1>4, <1>5, <2>2, <3>1 DEF Knows, KnowsTail, KnowsManifest
    <3>3. LinesOK(manifest', f, acked')  BY <1>4, <2>1, <2>2, <3>2 DEF LinesOK
    <3>4. \A q \in Procs : q # p => proc[q].op # "apply"
      BY <2>2 DEF ProcsOK, Onlys, WorkerOps
    <3> QED  BY <1>10, <3>2, <3>3, <3>4
  <2>3. CASE m.op # "apply"
    <3>1. m.op = "rollback" /\ m.at = 7  BY <1>3, <1>11, <2>3 DEF At
    <3>2. m.manifest = manifest  BY <1>2, <1>4, <3>1 DEF Knows, KnowsManifest
    <3>3. manifest'.job = manifest.job /\ acked' = acked  BY <2>1, <2>3, <3>2
    <3>4. LinesOK(manifest', f, acked')  BY <1>4, <3>3 DEF LinesOK
    <3> QED  BY <1>10, <2>3, <3>3, <3>4
  <2> QED  BY <2>2, <2>3
<1>12. CASE At(p, "queue")
  <2>1. /\ manifest' = [m.manifest EXCEPT !.job = [turn |-> m.turn, status |-> "queued"]]
        /\ acked' = acked
    BY <1>1, <1>12, Zenon DEF WriteManifest, At
  <2>2. m.op \in {"submit", "resume"} /\ m.at = 7  BY <1>3, <1>12 DEF At
  <2>3. m.manifest = manifest /\ Upto(f.lines, m.turn)
        /\ (manifest.job = None \/ Failed(manifest))
    BY <1>2, <1>4, <2>2 DEF Knows, KnowsManifest, LinesOK, Failed
  <2>4. manifest'.job.turn = m.turn  BY <1>9, <2>1, <2>3 DEF Manifest
  <2>5. LinesOK(manifest', f, acked')  BY <1>4, <2>1, <2>3, <2>4 DEF LinesOK
  <2>6. \A q \in Procs : q # p /\ proc[q].op = "apply" => proc[q].error
    BY <1>5, <2>3, ApplyRuns
  <2> QED  BY <1>10, <2>2, <2>5, <2>6
<1>13. CASE At(p, "clear")
  <2>1. manifest' = [m.manifest EXCEPT !.job = None] /\ acked' = acked
    BY <1>1, <1>13, Zenon DEF WriteManifest, At
  <2>2. m.op = "cancel" /\ m.at = 6  BY <1>3, <1>13 DEF At
  <2>3. m.manifest = manifest /\ Failed(manifest)
    BY <1>2, <1>4, <2>2 DEF Knows, KnowsManifest
  <2>4. manifest'.job = None  BY <1>9, <2>1, <2>3 DEF Manifest
  <2>5. LinesOK(manifest', f, acked')  BY <1>4, <2>1, <2>4 DEF LinesOK
  <2>6. \A q \in Procs : q # p /\ proc[q].op = "apply" => proc[q].error
    BY <1>5, <2>3, ApplyRuns
  <2> QED  BY <1>10, <2>2, <2>5, <2>6
<1>14. CASE At(p, "fail")
  <2>1. /\ manifest' = IF Blocked(manifest) THEN [manifest EXCEPT !.job.status = "failed"]
                       ELSE manifest
        /\ acked' = acked
    BY <1>1, <1>14, Zenon DEF WriteManifest, At
  <2>2. m.op = "fail" /\ m.at = 4  BY <1>3, <1>14 DEF At
  <2>3. manifest'.job # None => manifest.job # None /\ manifest'.job.turn = manifest.job.turn
    <3>1. CASE Blocked(manifest)
      <4>1. manifest.job # None /\ manifest.job \in Job  BY <1>9, <3>1 DEF Blocked, Manifest
      <4>2. manifest'.job = [manifest.job EXCEPT !.status = "failed"]
        BY <1>9, <2>1, <3>1 DEF Manifest
      <4>3. manifest'.job.turn = manifest.job.turn  BY <4>1, <4>2 DEF Job
      <4> QED  BY <4>1, <4>3
    <3>2. CASE ~Blocked(manifest)  BY <2>1, <3>2
    <3> QED  BY <3>1, <3>2
  <2>4. LinesOK(manifest', f, acked')  BY <1>4, <2>1, <2>3 DEF LinesOK
  <2>5. \A q \in Procs : q # p => proc[q].op # "apply"
    BY <2>2 DEF ProcsOK, Onlys, WorkerOps
  <2> QED  BY <1>10, <2>2, <2>4, <2>5
<1> QED  BY <1>11, <1>12, <1>13, <1>14 DEF WriteManifest

LEMMA OtherClean ==
  ASSUME ProcsOK, FilesOK, CleanInv, Clean', NEW p \in Procs,
         \/ WriteBundle(p) \/ BeginWork(p) \/ BeginJob(p) \/ BeginOther(p)
         \/ GenerationFails(p) \/ WriteFails(p) \/ Die(p)
  PROVE  CleanInv'
<1> DEFINE m == proc[p]
           f == file["turns"]
<1>1. manifest' = manifest /\ acked' = acked /\ file' = file
  BY DEF WriteBundle, BeginWork, BeginJob, BeginOther, Begin, GenerationFails, WriteFails, Die,
         files, history
<1>2. Knows(m, manifest, f) /\ Good(m) /\ m \in Process  BY DEF CleanInv, ProcsOK
<1>3. CASE WriteBundle(p)
  <2> DEFINE o == Onward(m)
             n == [o EXCEPT !.lines = <<>>, !.manifest = None]
  <2>1. m.op \in Ops /\ m.first = "nothing" /\ Steps[m.op][m.at] = "bundle" /\ Does(p, n)
        /\ lock' = lock
    BY <1>3 DEF WriteBundle, At
  <2>2. ~m.error /\ ~m.writing /\ m.at \in 1..Len(Steps[m.op])  BY <2>1, AtPlace DEF Place
  <2>3. m.op = "export" /\ m.at = 3  BY <2>1, <2>2, Places
  <2>4. m.at < Len(Steps[m.op])  BY <2>3, Lengths
  <2>5. o \in Process /\ o.op = m.op /\ o.at = m.at + 1  BY <1>2, <2>1, <2>2, <2>4, OnwardIs DEF Process
  <2>6. o.op = "export" /\ o.at = 4  BY <2>3, <2>5
  <2> HIDE DEF o
  <2>7. n.op = "export" /\ n.at = 4  BY <2>5, <2>6 DEF Process
  <2> HIDE DEF n
  <2>8. Knows(n, manifest, f) /\ ~Owns(n)
    BY <2>7 DEF Knows, KnowsTail, KnowsLines, KnowsManifest, Owns, Writes
  <2>9. ~Writes(m)  BY <2>3 DEF Writes
  <2> QED  BY <1>1, <2>1, <2>8, <2>9, QuietLock
<1>4. CASE BeginWork(p) \/ BeginJob(p) \/ BeginOther(p)
  <2>1. PICK op \in {"start", "submit", "resume", "cancel", "rollback", "recover", "export", "read"} :
          Begin(p, op)
    BY <1>4 DEF BeginWork, BeginJob, Offered, BeginOther
  <2> DEFINE n == [Idle EXCEPT !.op = op, !.at = 1]
  <2>2. m = Idle /\ Does(p, n) /\ lock' = lock  BY <2>1 DEF Begin
  <2>3. n.op = op /\ n.at = 1 /\ n.first = "nothing"  BY DEF Idle
  <2> HIDE DEF n
  <2>4. Knows(n, manifest, f) /\ ~Owns(n)  BY <2>3, FirstKnows
  <2>5. ~Writes(m)  BY <2>2, IdleKnows
  <2> QED  BY <1>1, <2>2, <2>4, <2>5, QuietLock
<1>5. CASE GenerationFails(p)
  <2> DEFINE g == [Idle EXCEPT !.op = "fail", !.at = 1]
  <2>1. m.op = "apply" /\ m.op \in Ops /\ Steps[m.op][m.at] = "look"
        /\ Does(p, Ended([m EXCEPT !.error = TRUE])) /\ lock' = lock
    BY <1>5 DEF GenerationFails, At
  <2>2. Ended([m EXCEPT !.error = TRUE]) = g  BY <1>2, <2>1 DEF Ended, Process
  <2>3. g.op = "fail" /\ g.at = 1 /\ g.first = "nothing"  BY DEF Idle
  <2>4. m.at = 2  BY <2>1, Working0, Places
  <2> HIDE DEF g
  <2>5. Knows(g, manifest, f) /\ ~Owns(g) /\ ~Writes(m)  BY <2>3, <2>4, FirstKnows DEF Writes
  <2> QED  BY <1>1, <2>1, <2>2, <2>5, QuietLock
<1>6. ASSUME WriteFails(p) \/ Die(p) PROVE ~(Whole /\ Writes(m))
  <2> SUFFICES ASSUME Whole, Writes(m) PROVE FALSE  OBVIOUS
  <2>1. ~EndsShort(p)  BY <1>6 DEF WriteFails, Die, Clean
  <2>2. m.op = "apply" /\ m.at = 7 /\ m.writing /\ m.op \in Ops  BY OpsAre DEF Writes
  <2>3. Place(m) /\ m.at \in 1..Len(Steps[m.op])  BY <2>2, Working0
  <2>4. Steps[m.op][m.at] = "append"  BY <2>2, <2>3, Places
  <2>5. m.first # "tell"  BY <2>2, <2>3, <2>4 DEF Place
  <2>6. On(p) = "turns"  BY <2>4, <2>5 DEF On
  <2> QED  BY <2>1, <2>2, <2>6 DEF EndsShort, Whole
<1>7. CASE Die(p)
  <2>1. Does(p, Idle)
        /\ lock' = IF lock # None /\ lock.by = p THEN [lock EXCEPT !.by = None] ELSE lock
    BY <1>7 DEF Die
  <2>2. \A q \in Procs : q # p /\ Owns(proc[q]) => lock' # None /\ lock'.by = q
    BY <2>1 DEF CleanInv
  <2> QED  BY <1>1, <1>6, <1>7, <2>1, <2>2, IdleKnows, Quiet
<1>8. CASE WriteFails(p)
  <2> DEFINE n == [m EXCEPT !.writing = FALSE]
  <2>1. Does(p, IF m.first = "tell" THEN Unreadable(n) ELSE Stopped(m)) /\ lock' = lock
        /\ (m.writing \/ \E s \in {"start", "rewrite", "publish", "queue", "clear"} : At(p, s))
    BY <1>8 DEF WriteFails
  <2>2. m.op \in Ops
    <3>1. m.op \notin Ops => ~m.writing  BY <1>2 DEF Good, Place, Idle
    <3> QED  BY <2>1, <3>1 DEF At
  <2>3. CASE m.first # "tell"
    BY <1>1, <1>6, <1>8, <2>1, <2>2, <2>3, StopsQuiet
  <2>4. CASE m.first = "tell"
    <3>1. Steps[m.op][m.at] \in {"scan", "scan_events"}  BY <2>2, <2>4, Working0 DEF Place
    <3>2. ~m.error /\ m.at \in 1..Len(Steps[m.op]) /\ Place(m) /\ Holds(m)
      BY <2>2, <3>1, AtPlace
    <3>3. ~(m.op = "apply" /\ m.at = 7)  BY <2>2, <3>1, <3>2, Places
    <3>4. /\ n \in Process /\ n.op = m.op /\ n.at = m.at /\ n.first = "tell" /\ ~n.error
          /\ ~n.writing /\ n.manifest = m.manifest /\ n.turn = m.turn /\ n.lines = m.lines
      BY <1>2, <2>4, <3>2 DEF Process
    <3> HIDE DEF n
    <3>5. Good(n)
      <4>1. Place(n)  BY <2>2, <3>1, <3>2, <3>4 DEF Place
      <4>2. Holds(n)  BY <3>2, <3>4 DEF Holds
      <4> QED  BY <3>4, <4>1, <4>2 DEF Good
    <3>6. ~Writes(m) /\ ~Writes(n)  BY <3>3, <3>4 DEF Writes
    <3>7. Knows(n, manifest, f)
      <4>1. KnowsTail(n, f)  BY <1>2, <2>4, <3>2, <3>4, <3>6 DEF Knows, KnowsTail
      <4>2. KnowsLines(n, f)  BY <1>2, <2>4, <3>4 DEF Knows, KnowsLines, Repairs
      <4>3. KnowsManifest(n, manifest, f.lines)  BY <1>2, <3>2, <3>4 DEF Knows, KnowsManifest
      <4> QED  BY <4>1, <4>2, <4>3 DEF Knows
    <3>8. Owns(n) <=> Owns(m)  BY <3>4 DEF Owns
    <3>9. CASE m.op \in {"apply", "resume"}
      <4> DEFINE o == Onward(n)
      <4>1. Does(p, o)  BY <2>1, <2>4, <3>4, <3>9 DEF Unreadable
      <4>2. m.op \in Ops \ {"export", "read"} /\ Steps[m.op][m.at] # "unlock"
        BY <2>2, <3>1, <3>9
      <4>3. m.at < Len(Steps[m.op])  BY <4>2, NotLast
      <4>4. /\ o.op = n.op /\ o.at = n.at + 1 /\ o.first = "nothing" /\ o.writing = n.writing
            /\ o.error = n.error /\ o.turn = n.turn /\ o.manifest = n.manifest
            /\ o.lines = n.lines
        BY <2>2, <3>4, <3>5, <4>3, OnwardIs
      <4>5. n.at < Len(Steps[n.op]) /\ n.op \in Ops  BY <2>2, <3>4, <4>3
      <4> HIDE DEF o
      <4>6. Knows(o, manifest, f)  BY <3>4, <3>5, <3>7, <4>4, <4>5, OnwardKnows
      <4>7. (m.op = "apply" /\ m.at = 1) \/ (m.op = "resume" /\ m.at = 5)
        BY <2>2, <3>1, <3>2, <3>9, Places
      <4>8. Owns(o) => Owns(m)  BY <2>2, <3>4, <4>4, <4>7 DEF Owns
      <4> QED  BY <1>1, <2>1, <3>6, <4>1, <4>6, <4>8, QuietLock
    <3>10. CASE m.op \notin {"apply", "resume"}
      <4>1. Does(p, Stopped(n))  BY <2>1, <2>4, <3>4, <3>10 DEF Unreadable
      <4>2. Knows(Stopped(n), manifest, f) /\ (Owns(Stopped(n)) => Owns(m))
        BY <2>2, <3>4, <3>5, <3>8, StoppedKnows
      <4> QED  BY <1>1, <2>1, <3>6, <4>1, <4>2, QuietLock
    <3> QED  BY <3>9, <3>10
  <2> QED  BY <2>3, <2>4
<1> QED  BY <1>3, <1>4, <1>5, <1>7, <1>8

LEMMA AgeClean ==
  ASSUME ProcsOK, FilesOK, CleanInv, AgeLock
  PROVE  CleanInv'
<1>1. file' = file /\ manifest' = manifest /\ proc' = proc /\ acked' = acked
      /\ lock' = [lock EXCEPT !.state = "stale"]
  BY DEF AgeLock, files, history
<1>2. lock \in LockFile  BY DEF AgeLock, MayAge, FilesOK
<1>3. lock' \in LockFile /\ lock'.by = lock.by  BY <1>1, <1>2 DEF LockFile
<1>4. lock' # None  BY <1>3, NoneAssumption
<1>5. (\A q \in Procs : Owns(proc[q]) => lock # None /\ lock.by = q)'
  BY <1>1, <1>3, <1>4 DEF CleanInv
<1>6. (file["turns"].tail # None /\ file["turns"].tail.whole => \E q \in Procs : Writes(proc[q]))'
  BY <1>1 DEF CleanInv
<1>7. LinesOK(manifest, file["turns"], acked)'  BY <1>1 DEF CleanInv
<1>8. (\A q \in Procs : Knows(proc[q], manifest, file["turns"]))'  BY <1>1 DEF CleanInv
<1> QED  BY <1>5, <1>6, <1>7, <1>8 DEF CleanInv

LEMMA NextClean ==
  ASSUME ProcsOK, FilesOK, CleanInv, Clean', [Next]_vars
  PROVE  CleanInv'
<1>1. CASE UNCHANGED vars  BY <1>1 DEF vars, files, history, CleanInv
<1>2. CASE AgeLock  BY <1>2, AgeClean
<1>3. ASSUME NEW p \in Procs, Step(p)  PROVE CleanInv'
  <2>1. CASE LookLock(p) \/ RemoveLock(p) \/ CreateLock(p) \/ StampLock(p) \/ Unlock(p)
    BY <2>1, LockClean
  <2>2. CASE Scan(p)  BY <2>2, ScanClean
  <2>3. CASE Cut(p)  BY <2>3, CutClean
  <2>4. CASE AppendLine(p) \/ AppendPart(p) \/ AppendRest(p)  BY <2>4, AppendClean
  <2>5. CASE Rewrite(p)  BY <2>5, RewriteClean
  <2>6. CASE ReadManifest(p)  BY <2>6, ReadManifestClean
  <2>7. CASE Start(p)  BY <2>7, StartClean
  <2>8. CASE WriteManifest(p)  BY <2>8, WriteManifestClean
  <2>9. CASE WriteBundle(p)  BY <2>9, OtherClean
  <2> QED  BY <1>3, <2>1, <2>2, <2>3, <2>4, <2>5, <2>6, <2>7, <2>8, <2>9 DEF Step
<1>4. ASSUME NEW p \in Procs,
             \/ BeginWork(p) \/ BeginJob(p) \/ BeginOther(p)
             \/ GenerationFails(p) \/ WriteFails(p) \/ Die(p)
      PROVE  CleanInv'
  BY <1>4, OtherClean
<1> QED  BY <1>1, <1>2, <1>3, <1>4 DEF Next

\* What has happened has happened.
LEMMA CleanBefore ==
  ASSUME FilesOK, [Next]_vars, Clean'
  PROVE  Clean
<1>1. overtaken \in BOOLEAN /\ bare \in BOOLEAN  BY DEF FilesOK
<1>2. CASE overtaken' = overtaken /\ bare' = bare  BY <1>2 DEF Clean
<1>3. ASSUME NEW p \in Procs, RemoveLock(p) \/ Cut(p) \/ Rewrite(p)  PROVE Clean
  <2>1. bare' = bare  BY <1>3 DEF RemoveLock, Cut, Rewrite
  <2>2. CASE RemoveLock(p)
    <3>1. overtaken' = (overtaken \/ Living)  BY <2>2 DEF RemoveLock
    <3> QED  BY <1>1, <2>1, <3>1 DEF Clean
  <2>3. CASE Cut(p)
    <3>1. overtaken' = (overtaken \/ proc[p].seen # Len(file[On(p)].lines))  BY <2>3 DEF Cut
    <3> QED  BY <1>1, <2>1, <3>1 DEF Clean
  <2>4. CASE Rewrite(p)
    <3>1. \/ overtaken' = overtaken
          \/ overtaken' = (overtaken \/ \E q \in Procs : First(q, "cut") /\ On(q) = "turns")
      BY <2>4 DEF Rewrite
    <3> QED  BY <1>1, <2>1, <3>1 DEF Clean
  <2> QED  BY <1>3, <2>2, <2>3, <2>4
<1>4. ASSUME NEW p \in Procs, WriteFails(p) \/ Die(p)  PROVE Clean
  <2>1. overtaken' = overtaken /\ bare' = (bare \/ EndsShort(p))  BY <1>4 DEF WriteFails, Die
  <2> QED  BY <1>1, <2>1 DEF Clean
<1>5. CASE UNCHANGED vars \/ AgeLock  BY <1>2, <1>5 DEF vars, AgeLock, history
<1>6. ASSUME NEW p \in Procs,
             \/ LookLock(p) \/ CreateLock(p) \/ StampLock(p) \/ Unlock(p) \/ Scan(p)
             \/ AppendLine(p) \/ AppendPart(p) \/ AppendRest(p) \/ ReadManifest(p)
             \/ Start(p) \/ WriteManifest(p) \/ WriteBundle(p)
      PROVE  Clean
  BY <1>2, <1>6 DEF LookLock, CreateLock, StampLock, Unlock, Scan, AppendLine, AppendPart,
                    AppendRest, ReadManifest, Start, WriteManifest, WriteBundle, history
<1>7. ASSUME NEW p \in Procs, BeginWork(p) \/ BeginJob(p) \/ BeginOther(p) \/ GenerationFails(p)
      PROVE  Clean
  BY <1>2, <1>7 DEF BeginWork, BeginJob, BeginOther, Begin, GenerationFails, history
<1> QED  BY <1>3, <1>4, <1>5, <1>6, <1>7 DEF Next, Step

LEMMA InitClean == Init => CleanInv
<1> SUFFICES ASSUME Init PROVE CleanInv  OBVIOUS
<1>1. file["turns"] = [lines |-> <<>>, tail |-> None]  BY DEF Init
<1>2. \A p \in Procs : proc[p] = Idle  BY DEF Init
<1>3. ToSet(file["turns"].lines) = {} /\ DOMAIN file["turns"].lines = {}
  BY <1>1 DEF ToSet
<1>4. LinesOK(manifest, file["turns"], acked)
  BY <1>3 DEF Init, LinesOK, InOrder, Upto
<1> QED  BY <1>1, <1>2, <1>4, IdleKnows DEF CleanInv

----------------------------------------------------------------------------
(* The properties *)

\* The inductive invariant: every process is where its operation can be, every file is
\* of its type, and, but for what the code does not guard against, what a process has
\* read under the lock is still true of the manifest and of turns.jsonl.
THEOREM FilesInvariant == Spec => []FilesInv
<1>1. Init => FilesInv  BY InitTypes, InitClean DEF FilesInv
<1>2. FilesInv /\ [Next]_vars => FilesInv'
  <2> SUFFICES ASSUME FilesInv, [Next]_vars PROVE FilesInv'  OBVIOUS
  <2>1. ProcsOK' /\ FilesOK'  BY NextProcs, NextFiles DEF FilesInv
  <2>2. ASSUME Clean' PROVE CleanInv'
    <3>1. Clean  BY <2>2, CleanBefore DEF FilesInv
    <3>2. CleanInv  BY <3>1 DEF FilesInv
    <3> QED  BY <2>2, <3>2, NextClean DEF FilesInv
  <2> QED  BY <2>1, <2>2 DEF FilesInv
<1> QED  BY <1>1, <1>2, PTL DEF Spec

\* For any number of processes, turns and failures, as long as the run is Clean:
\* a turn the manifest has named stays in turns.jsonl until a rollback takes it, and
\* the file stays readable and in order.
THEOREM NamedTurnsSurvive == Spec => []TurnsSurvive
<1>1. FilesInv => TurnsSurvive
  BY DEF FilesInv, Clean, CleanInv, LinesOK, TurnsSurvive
<1> QED  BY <1>1, FilesInvariant, PTL

\* For any number of processes, turns and failures, as long as the run is Clean:
\* a bundle, exported without the lock while others write, holds the turn its manifest
\* names, unless a rollback has taken it.
THEOREM BundleIsWhole == Spec => []BundleHasCurrentTurn
<1>1. FilesInv => BundleHasCurrentTurn
  <2> SUFFICES ASSUME FilesInv, Clean, NEW p \in Procs, At(p, "bundle")
               PROVE  proc[p].turn \in {0} \cup ToSet(proc[p].lines)
    BY DEF BundleHasCurrentTurn, Clean
  <2>1. proc[p].op \in Ops /\ Steps[proc[p].op][proc[p].at] = "bundle"  BY DEF At
  <2>2. ProcsOK /\ CleanInv  BY DEF FilesInv
  <2>3. proc[p].at \in 1..Len(Steps[proc[p].op])  BY <2>1, <2>2, AtPlace
  <2>4. proc[p].op = "export" /\ proc[p].at = 3  BY <2>1, <2>3, Places
  <2>5. Knows(proc[p], manifest, file["turns"])  BY <2>2 DEF CleanInv
  <2> QED  BY <2>4, <2>5 DEF Knows, KnowsLines
<1> QED  BY <1>1, FilesInvariant, PTL

\* From its line in events.jsonl to its unlock, a recovery comes by the end of an append.
LEMMA Reports ==
  ASSUME ProcsOK, [Next]_vars, NEW p \in Procs, proc[p].op = "recover", At(p, "note"),
         At(p, "unlock")', ~proc'[p].error
  PROVE  AppendLine(p) \/ AppendRest(p)
<1> DEFINE m == proc[p]
<1>1. m.op \in Ops /\ m.first = "nothing" /\ Steps[m.op][m.at] = "note"  BY DEF At
<1>2. Steps[proc'[p].op][proc'[p].at] = "unlock"  BY DEF At
<1>3. proc'[p] # m  BY <1>1, <1>2
<1>4. proc \in [Procs -> Process] /\ Good(m)  BY DEF ProcsOK
<1>5. ~UNCHANGED vars  BY <1>3 DEF vars
<1>6. ~AgeLock  BY <1>3 DEF AgeLock
<1>7. ASSUME NEW q \in Procs, NEW n, Does(q, n)  PROVE q = p /\ proc'[p] = n
  BY <1>3, <1>4, <1>7 DEF Does
<1>8. ASSUME NEW q \in Procs, BeginWork(q) \/ BeginJob(q) \/ BeginOther(q)  PROVE FALSE
  <2>1. PICK op : Begin(q, op)  BY <1>8 DEF BeginWork, BeginJob, BeginOther
  <2>2. q = p /\ m = Idle  BY <1>7, <2>1 DEF Begin
  <2> QED  BY <1>1, <2>2, IdleGood
<1>9. ASSUME NEW q \in Procs, WriteFails(q)  PROVE FALSE
  <2>1. Does(q, IF proc[q].first = "tell" THEN Unreadable([proc[q] EXCEPT !.writing = FALSE])
                ELSE Stopped(proc[q]))
    BY <1>9 DEF WriteFails
  <2>2. q = p /\ proc'[p] = Stopped(m)  BY <1>1, <1>7, <2>1
  <2>3. CASE Created(m)
    BY <1>4, <2>2, <2>3 DEF Stopped, Process
  <2>4. CASE ~Created(m)
    <3>1. Stopped(m) = Idle  BY <1>4, <2>4 DEF Stopped, Ended, Process
    <3> QED  BY <2>2, <3>1, IdleGood DEF At
  <2> QED  BY <2>3, <2>4
<1>10. ASSUME NEW q \in Procs, Die(q)  PROVE FALSE
  <2>1. proc'[p] = Idle  BY <1>7, <1>10 DEF Die
  <2> QED  BY <2>1, IdleGood DEF At
<1>11. ASSUME NEW q \in Procs, GenerationFails(q)  PROVE FALSE
  <2>1. q = p  BY <1>7, <1>11 DEF GenerationFails
  <2> QED  BY <1>11, <2>1 DEF GenerationFails
<1>12. ASSUME NEW q \in Procs, Step(q)  PROVE AppendLine(p) \/ AppendRest(p)
  <2>1. CASE LookLock(q) \/ CreateLock(q) \/ StampLock(q) \/ Unlock(q)
    <3>1. q = p  BY <1>7, <2>1 DEF LookLock, CreateLock, StampLock, Unlock
    <3> QED  BY <1>1, <2>1, <3>1 DEF LookLock, CreateLock, StampLock, Unlock, At
  <2>2. CASE RemoveLock(q) \/ Cut(q)
    <3>1. q = p  BY <1>7, <2>2 DEF RemoveLock, Cut
    <3> QED  BY <1>1, <2>2, <3>1 DEF RemoveLock, Cut, First
  <2>3. CASE Scan(q)
    <3>1. \E n : Does(q, n)  BY <2>3 DEF Scan
    <3>2. q = p  BY <1>7, <3>1
    <3> QED  BY <1>1, <2>3, <3>2 DEF Scan, At
  <2>4. CASE AppendPart(q)
    <3> DEFINE n == [proc[q] EXCEPT !.writing = TRUE]
    <3>1. Does(q, n)  BY <2>4 DEF AppendPart
    <3>2. q = p /\ proc'[p] = n  BY <1>7, <3>1
    <3>3. proc'[p].op = m.op /\ proc'[p].at = m.at  BY <1>4, <3>2 DEF Process
    <3> QED  BY <1>1, <1>2, <3>3
  <2>5. CASE AppendLine(q)
    <3>1. q = p  BY <1>7, <2>5 DEF AppendLine
    <3> QED  BY <2>5, <3>1
  <2>6. CASE AppendRest(q)
    <3>1. q = p  BY <1>7, <2>6 DEF AppendRest
    <3> QED  BY <2>6, <3>1
  <2>7. CASE Rewrite(q)
    <3>1. At(q, "rewrite") /\ \E n : Does(q, n)  BY <2>7 DEF Rewrite
    <3>2. q = p  BY <1>7, <3>1
    <3> QED  BY <1>1, <3>1, <3>2 DEF At
  <2>8. CASE ReadManifest(q)
    <3>1. At(q, "manifest") /\ \E n : Does(q, n)  BY <2>8 DEF ReadManifest
    <3>2. q = p  BY <1>7, <3>1
    <3> QED  BY <1>1, <3>1, <3>2 DEF At
  <2>9. CASE Start(q) \/ WriteManifest(q) \/ WriteBundle(q)
    <3>1. q = p  BY <1>7, <2>9 DEF Start, WriteManifest, WriteBundle
    <3> QED  BY <1>1, <2>9, <3>1 DEF Start, WriteManifest, WriteBundle, At
  <2> QED  BY <1>12, <2>1, <2>2, <2>3, <2>4, <2>5, <2>6, <2>7, <2>8, <2>9 DEF Step
<1> QED  BY <1>5, <1>6, <1>8, <1>9, <1>10, <1>11, <1>12 DEF Next

\* For any number of processes, turns and failures: when recoverStory reports, nothing
\* is left in turns.jsonl behind its last newline, and every line of it is readable.
THEOREM RecoveryLeavesNoRest == Spec => RecoveryRepairs
<1> DEFINE Repaired ==
      \A p \in Procs :
        proc[p].op = "recover" /\ At(p, "note") /\ At(p, "unlock")' /\ ~proc'[p].error
          => overtaken' \/ bare' \/ (file'["turns"].tail = None /\ ~Damaged(file'["turns"]))
<1>1. FilesInv /\ [Next]_vars => Repaired
  <2> SUFFICES ASSUME FilesInv, [Next]_vars, NEW p \in Procs, proc[p].op = "recover",
                      At(p, "note"), At(p, "unlock")', ~proc'[p].error, Clean'
               PROVE  file'["turns"].tail = None /\ ~Damaged(file'["turns"])
    BY DEF Clean
  <2>1. ProcsOK /\ Clean  BY CleanBefore DEF FilesInv
  <2>2. CleanInv  BY <2>1 DEF FilesInv
  <2>3. proc[p].op \in Ops /\ proc[p].first = "nothing" /\ Steps[proc[p].op][proc[p].at] = "note"
    BY DEF At
  <2>4. proc[p].at \in 1..Len(Steps[proc[p].op]) /\ ~proc[p].error  BY <2>1, <2>3, AtPlace
  <2>5. proc[p].at = 6  BY <2>3, <2>4, Places
  <2>6. On(p) = "events"  BY <2>3 DEF On
  <2>7. AppendLine(p) \/ AppendRest(p)  BY <2>1, Reports
  <2>8. file'["turns"] = file["turns"]
    <3>1. file \in [{"turns", "events"} -> File]  BY DEF FilesInv, FilesOK
    <3> QED  BY <2>6, <2>7, <3>1 DEF AppendLine, AppendRest
  <2>9. file["turns"].tail = None
    BY <2>2, <2>4, <2>5 DEF CleanInv, Knows, KnowsTail
  <2>10. ~Damaged(file["turns"])  BY <2>2 DEF CleanInv, LinesOK, Damaged
  <2> QED  BY <2>8, <2>9, <2>10 DEF Damaged
<1>2. FilesInv /\ [Next]_vars => [Repaired]_vars  BY <1>1
<1>3. Spec => [][Repaired]_vars  BY <1>2, FilesInvariant, PTL DEF Spec
<1> QED  BY <1>3 DEF RecoveryRepairs
=============================================================================
