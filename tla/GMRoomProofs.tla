---------------------------- MODULE GMRoomProofs ----------------------------
(***************************************************************************)
(* Proofs about GMAnswer and GMRoom, for any number of stories and jobs,   *)
(* any provider and any answers: what a patch does to the state, and that  *)
(* a job that says it is completed is shown, wherever the server died.     *)
(***************************************************************************)
EXTENDS GMRoom, OrderLemmas

----------------------------------------------------------------------------
(* Lists *)

LEMMA PickedList ==
  ASSUME NEW S, NEW list \in Seq(S), NEW P \in SUBSET (DOMAIN list)
  PROVE  /\ IsFiniteSet(P)
         /\ Picked(list, P) \in Seq(S) /\ Len(Picked(list, P)) = Cardinality(P)
         /\ Range(Picked(list, P)) = {list[i] : i \in P}
<1> DEFINE f == [n \in 1..Cardinality(P) |-> Nth(P, n)]
           q == Picked(list, P)
<1>1. DOMAIN list = 1..Len(list) /\ Len(list) \in Nat
  OBVIOUS
<1>2. IsFiniteSet(P) /\ P \in SUBSET Nat
  <2>1. IsFiniteSet(DOMAIN list)
    BY <1>1, FS_Interval
  <2>2. IsFiniteSet(P)
    BY <2>1, FS_Subset
  <2>3. P \in SUBSET Nat
    BY <1>1
  <2> QED
    BY <2>2, <2>3
<1>3. /\ DOMAIN f = 1..Cardinality(P) /\ f = [n \in DOMAIN f |-> f[n]]
      /\ \A n \in 1..Cardinality(P) : f[n] = NthOf(P, n)
  <2>1. DOMAIN f = 1..Cardinality(P) /\ f = [n \in DOMAIN f |-> f[n]]
    OBVIOUS
  <2>2. \A n : Nth(P, n) = NthOf(P, n)
    BY DEF Nth, NthOf, Rank
  <2>3. \A n \in 1..Cardinality(P) : f[n] = NthOf(P, n)
    BY <2>2
  <2> QED
    BY <2>1, <2>3
<1>4. /\ f \in Seq(P) /\ Len(f) = Cardinality(P) /\ DOMAIN f = 1..Cardinality(P)
      /\ \A i \in P : \E n \in DOMAIN f : f[n] = i
  <2> HIDE DEF f, q
  <2>1. P \in SUBSET Nat /\ IsFiniteSet(P)
    BY <1>2
  <2>2. f \in Seq(P)
    BY ONLY <2>1, <1>3, InOrder
  <2>3. Len(f) = Cardinality(P)
    BY ONLY <2>1, <1>3, InOrder
  <2>4. ASSUME NEW i \in P PROVE \E n \in DOMAIN f : f[n] = i
    <3>1. Rank(P, i) \in 1..Cardinality(P) /\ NthOf(P, Rank(P, i)) = i
      BY <2>1, PlaceOf
    <3> QED
      BY <1>3, <3>1
  <2> QED
    BY <1>3, <2>2, <2>3, <2>4
<1>5. q = [n \in 1..Cardinality(P) |-> list[f[n]]]
  BY DEF Picked
<1>6. Cardinality(P) \in Nat
  BY <1>2, FS_CardinalityType
<1> HIDE DEF f, q
<1>7. \A n \in 1..Cardinality(P) : f[n] \in P
  BY <1>4
<1>8. q \in [1..Cardinality(P) -> S]
  BY <1>5, <1>7
<1>9. Range(q) = {list[i] : i \in P}
  BY <1>4, <1>5, <1>7 DEF Range
<1> QED
  BY <1>2, <1>6, <1>8, <1>9 DEF q

LEMMA TrimmedList ==
  ASSUME NEW list \in Seq(Strings)
  PROVE  /\ Trimmed(list) \in Seq(Strings) /\ DOMAIN Trimmed(list) = DOMAIN list
         /\ \A i \in DOMAIN list : Trimmed(list)[i] = TrimmedTo[list[i]]
  BY AnswerAssumption DEF Trimmed

LEMMA KeptOfRange ==
  ASSUME NEW list
  PROVE  Kept(list) = {TrimmedTo[x] : x \in Range(list)} \ {Empty}
  BY DEF Kept, Range

\* appendUnique: trimmed, without blanks, each string once.
LEMMA FirstOfEachIs ==
  ASSUME NEW list \in Seq(Strings)
  PROVE  LET r == FirstOfEach(list) IN
         /\ r \in Seq(Strings) /\ Range(r) = Kept(list)
         /\ Len(r) = Cardinality(Range(r))
<1> DEFINE t == Trimmed(list)
           P == {i \in DOMAIN t : t[i] # Empty /\ \A k \in 1..(i - 1) : t[k] # t[i]}
           r == Picked(t, P)
<1>1. t \in Seq(Strings) /\ DOMAIN t = DOMAIN list /\ \A i \in DOMAIN t : t[i] = TrimmedTo[list[i]]
  BY TrimmedList
<1>2. FirstOfEach(list) = r
  BY DEF FirstOfEach
<1> HIDE DEF t
<1>3. P \in SUBSET (DOMAIN t)
  OBVIOUS
<1>4. IsFiniteSet(P) /\ r \in Seq(Strings) /\ Len(r) = Cardinality(P) /\ Range(r) = {t[i] : i \in P}
  <2> HIDE DEF P
  <2> QED
    BY <1>1, <1>3, PickedList
<1>5. ASSUME NEW n \in DOMAIN t, t[n] # Empty
      PROVE  \E i \in P : t[i] = t[n]
  <2> DEFINE M == {i \in DOMAIN t : t[i] = t[n]}
  <2>1. M \in SUBSET Nat /\ n \in M
    BY <1>1
  <2>2. PICK i \in M : \A m \in M : i <= m
    <3> HIDE DEF M
    <3> QED
      BY <2>1, LeastMember
  <2>3. \A k \in 1..(i - 1) : k \in DOMAIN t /\ k \notin M
    BY <1>1, <2>2
  <2> QED
    BY <1>5, <2>2, <2>3
<1>6. Range(r) = Kept(list)
  <2>1. Kept(list) = {t[i] : i \in DOMAIN t} \ {Empty}
    BY <1>1 DEF Kept
  <2> QED
    BY <1>4, <1>5, <2>1
<1>7. Cardinality(Range(r)) = Cardinality(P)
  <2> DEFINE g == [i \in P |-> t[i]]
  <2>1. ASSUME NEW i \in P, NEW k \in P, t[i] = t[k] PROVE i = k
    <3>1. i \in Nat /\ k \in Nat /\ i >= 1 /\ k >= 1
      BY <1>1
    <3>2. ~(i < k) /\ ~(k < i)
      BY <2>1, <3>1
    <3> QED
      BY <3>1, <3>2
  <2>2. g \in Bijection(P, Range(r))
    BY <1>4, <2>1 DEF Bijection, Injection, Surjection, IsInjective
  <2> HIDE DEF g, P
  <2> QED
    BY <1>4, <2>2, FS_Bijection DEF ExistsBijection
<1> QED
  BY <1>2, <1>4, <1>6, <1>7

LEMMA AppendUniqueIs ==
  ASSUME NEW list \in Seq(Strings), NEW more \in Seq(Strings)
  PROVE  LET r == AppendUnique(list, more) IN
         /\ r \in Seq(Strings) /\ Range(r) = Kept(list) \cup Kept(more)
         /\ Len(r) = Cardinality(Range(r))
<1>1. list \o more \in Seq(Strings)
  OBVIOUS
<1>2. Range(list \o more) = Range(list) \cup Range(more)
  <2>1. \A i \in DOMAIN list : (list \o more)[i] = list[i] /\ i \in DOMAIN (list \o more)
    OBVIOUS
  <2>2. \A i \in DOMAIN more : /\ (list \o more)[Len(list) + i] = more[i]
                               /\ Len(list) + i \in DOMAIN (list \o more)
    OBVIOUS
  <2>3. \A i \in DOMAIN (list \o more) : \/ i \in DOMAIN list
                                         \/ i - Len(list) \in DOMAIN more /\ i = Len(list) + (i - Len(list))
    OBVIOUS
  <2>4. Range(list \o more) \subseteq Range(list) \cup Range(more)
    BY <2>1, <2>2, <2>3 DEF Range
  <2>5. Range(list) \subseteq Range(list \o more)
    BY <2>1 DEF Range
  <2>6. Range(more) \subseteq Range(list \o more)
    BY <2>2 DEF Range
  <2> QED
    BY <2>4, <2>5, <2>6
<1>3. Kept(list \o more) = Kept(list) \cup Kept(more)
  BY <1>2, KeptOfRange
<1> QED
  BY <1>1, <1>3, FirstOfEachIs DEF AppendUnique

LEMMA RemoveStringsIs ==
  ASSUME NEW list \in Seq(Strings), NEW gone \in Seq(Strings)
  PROVE  LET r == RemoveStrings(list, gone) IN
         /\ r \in Seq(Strings) /\ Kept(r) = Kept(list) \ Kept(gone)
<1> DEFINE G == Range(Trimmed(gone))
           P == {i \in DOMAIN list : TrimmedTo[list[i]] \notin G}
           r == Picked(list, P)
<1>1. G = {TrimmedTo[gone[i]] : i \in DOMAIN gone}
  <2> DEFINE t == Trimmed(gone)
  <2>1. DOMAIN t = DOMAIN gone /\ \A i \in DOMAIN gone : t[i] = TrimmedTo[gone[i]]
    BY TrimmedList
  <2> HIDE DEF t
  <2>2. Range(t) = {TrimmedTo[gone[i]] : i \in DOMAIN gone}
    BY <2>1 DEF Range
  <2> QED
    BY <2>2 DEF t
<1>2. r \in Seq(Strings) /\ Range(r) = {list[i] : i \in P}
  <2>1. P \in SUBSET (DOMAIN list)
    OBVIOUS
  <2> HIDE DEF P
  <2> QED
    BY <2>1, PickedList
<1>3. Kept(gone) = G \ {Empty}
  BY <1>1 DEF Kept
<1>4. Kept(r) = {TrimmedTo[list[i]] : i \in P} \ {Empty}
  BY <1>2, KeptOfRange
<1>5. {TrimmedTo[list[i]] : i \in P} = {TrimmedTo[list[i]] : i \in DOMAIN list} \ G
  OBVIOUS
<1> QED
  BY <1>2, <1>3, <1>4, <1>5 DEF RemoveStrings, Kept

\* What appendUnique has put in a list is trimmed.
LEMMA KeptAgain ==
  ASSUME NEW list \in Seq(Strings), NEW more \in Seq(Strings)
  PROVE  Kept(AppendUnique(list, more)) = Kept(list) \cup Kept(more)
<1> DEFINE K == Kept(list) \cup Kept(more)
<1>1. \A x \in K : TrimmedTo[x] = x /\ x # Empty
  BY AnswerAssumption DEF Kept
<1>2. {TrimmedTo[x] : x \in K} \ {Empty} = K
  BY <1>1
<1>3. Range(AppendUnique(list, more)) = K
  BY AppendUniqueIs
<1> HIDE DEF K
<1> QED
  BY <1>2, <1>3, KeptOfRange DEF K

LEMMA PatchedState ==
  ASSUME NEW st \in StoryState, NEW p \in StatePatch
  PROVE  LET new == ApplyGMStatePatch(st, p)
             facts == (Kept(st.facts) \cup Kept(p.revealed)) \ Kept(p.remove)
             threads == Kept(st.threads) \ Kept(p.remove)
         IN /\ new \in StoryState
            /\ Range(new.facts) = facts \cup Kept(p.add)
            /\ Range(new.threads) = threads \cup Kept(p.add)
            /\ Len(new.facts) = Cardinality(Range(new.facts))
            /\ Len(new.threads) = Cardinality(Range(new.threads))
<1> DEFINE new == ApplyGMStatePatch(st, p)
           known == AppendUnique(st.facts, p.revealed)
           left == RemoveStrings(known, p.remove)
           open == RemoveStrings(st.threads, p.remove)
<1>1. /\ st.facts \in Seq(Strings) /\ st.threads \in Seq(Strings) /\ st.location \in Strings
      /\ p.revealed \in Seq(Strings) /\ p.add \in Seq(Strings) /\ p.remove \in Seq(Strings)
      /\ p.location \in Strings
  BY DEF StoryState, StatePatch
<1>2. known \in Seq(Strings) /\ Kept(known) = Kept(st.facts) \cup Kept(p.revealed)
  BY <1>1, AppendUniqueIs, KeptAgain
<1>3. left \in Seq(Strings) /\ Kept(left) = Kept(known) \ Kept(p.remove)
  BY <1>1, <1>2, RemoveStringsIs
<1>4. open \in Seq(Strings) /\ Kept(open) = Kept(st.threads) \ Kept(p.remove)
  BY <1>1, RemoveStringsIs
<1>5. /\ new.facts = AppendUnique(left, p.add) /\ new.threads = AppendUnique(open, p.add)
      /\ new = [location |-> new.location, facts |-> new.facts, threads |-> new.threads]
      /\ new.location \in {p.location, st.location}
  BY DEF ApplyGMStatePatch, Facts, Threads
<1>6. /\ new.facts \in Seq(Strings) /\ Range(new.facts) = Kept(left) \cup Kept(p.add)
      /\ Len(new.facts) = Cardinality(Range(new.facts))
  BY <1>1, <1>3, <1>5, AppendUniqueIs
<1>7. /\ new.threads \in Seq(Strings) /\ Range(new.threads) = Kept(open) \cup Kept(p.add)
      /\ Len(new.threads) = Cardinality(Range(new.threads))
  BY <1>1, <1>4, <1>5, AppendUniqueIs
<1>8. new \in StoryState
  BY <1>1, <1>5, <1>6, <1>7 DEF StoryState
<1> HIDE DEF new, known, left, open
<1> QED
  BY <1>2, <1>3, <1>4, <1>6, <1>7, <1>8 DEF new

----------------------------------------------------------------------------
(* The invariant *)

\* What the worker holds: a job that waits until it is marked, then one that
\* runs.
HandInv ==
  /\ hand.stage = "idle" => hand = Idle
  /\ hand.stage # "idle" => hand.job \in Jobs
  /\ hand.stage = "picked" => jobs[hand.job].status = "queued"
  /\ hand.stage \in {"generating", "failing"} => jobs[hand.job].status = "running"

JobsInv ==
  \A j \in Jobs : IF jobs[j].status = "absent" THEN jobs[j] = NoFile ELSE jobs[j].story \in Stories

FitChoices(c) == Len(c) \in 3..4 /\ \A i, k \in DOMAIN c : c[i] = c[k] => i = k

\* The job of a turn: it runs or is completed, and no worker has it any more.
HasTurn(j, s) ==
  /\ jobs[j].status \in {"running", "completed"} /\ hand.job # j
  /\ jobs[j].story = s /\ ~IsQuestion(j)

TurnsInv ==
  /\ \A s \in Stories : \A i \in DOMAIN turns[s] :
       FitChoices(turns[s][i].choices) /\ (turns[s][i].job \in Jobs => HasTurn(turns[s][i].job, s))
  /\ \A s \in Stories : \A i, k \in DOMAIN turns[s] :
       turns[s][i].job \in Jobs /\ turns[s][i].job = turns[s][k].job => i = k
  /\ \A j \in Jobs : jobs[j].status = "completed" /\ ~IsQuestion(j) =>
       \E i \in DOMAIN turns[jobs[j].story] : turns[jobs[j].story][i].job = j

\* The job of a line of qa.jsonl.
HasLine(j, s) == jobs[j].status # "absent" /\ jobs[j].story = s /\ IsQuestion(j)

QaInv ==
  /\ \A s \in Stories : \A i \in DOMAIN qa[s] : HasLine(qa[s][i].job, s)
  /\ \A s \in Stories : \A i, k \in DOMAIN qa[s] : qa[s][i].job = qa[s][k].job => i = k
  /\ \A j \in Jobs : jobs[j].status = "completed" /\ IsQuestion(j) =>
       \E i \in DOMAIN qa[jobs[j].story] :
         qa[jobs[j].story][i].job = j /\ qa[jobs[j].story][i].answered

GMInv == TypeOK /\ HandInv /\ JobsInv /\ TurnsInv /\ QaInv

----------------------------------------------------------------------------
(* Types *)

LEMMA BlankIs == NoPatch \in StatePatch /\ Blank \in Output
<1>1. <<>> \in Seq(Strings) /\ <<>> \in Seq(ChoiceIds) /\ Empty \in Strings
  BY AnswerAssumption
<1>2. NoPatch \in StatePatch
  BY <1>1 DEF NoPatch, StatePatch
<1>3. "" \in Schemas
  BY DEF Schemas
<1> HIDE DEF NoPatch
<1> QED
  BY <1>1, <1>2, <1>3 DEF Blank, Output

LEMMA OutcomeIs ==
  ASSUME NEW p, NEW ok \in BOOLEAN, NEW text, NEW output \in Output
  PROVE  LET r == Generates(p, ok, text, output)
         IN  r.output \in Output /\ r.error \in BOOLEAN /\ r.raw \in BOOLEAN
<1>1. ASSUME NEW x PROVE Meaning(x, output) \in Output
  BY BlankIs DEF Meaning
<1>2. ASSUME NEW o \in Output
      PROVE  LET r == Returns(o)
             IN  r.output \in Output /\ r.error \in BOOLEAN /\ r.raw \in BOOLEAN
  BY DEF Returns
<1>3. ASSUME NEW x
      PROVE  LET r == Fails(x)
             IN  r.output \in Output /\ r.error \in BOOLEAN /\ r.raw \in BOOLEAN
  BY BlankIs DEF Fails
<1>4. CASE p = "codex_cli"
  <2>1. Generates(p, ok, text, output) = CodexGenerates(ok, text, output)
    BY <1>4 DEF Generates
  <2>2. CASE ok /\ IsObject(text)
    BY <1>1, <1>2, <2>1, <2>2 DEF CodexGenerates
  <2>3. CASE ~(ok /\ IsObject(text))
    BY <1>3, <2>1, <2>3 DEF CodexGenerates
  <2> QED
    BY <2>2, <2>3
<1>5. CASE p = "hermes_api"
  <2>1. Generates(p, ok, text, output) = HermesGenerates(ok, text, output)
    BY <1>5 DEF Generates
  <2>2. CASE ~ok
    BY <1>3, <2>1, <2>2 DEF HermesGenerates
  <2>3. CASE ok /\ ExtractJSONText(text) = NoObject
    BY <1>3, <2>1, <2>3 DEF HermesGenerates
  <2>4. CASE ok /\ ExtractJSONText(text) # NoObject
    BY <1>1, <1>2, <2>1, <2>4 DEF HermesGenerates
  <2> QED
    BY <2>2, <2>3, <2>4
<1>6. CASE p \notin {"codex_cli", "hermes_api"}
  <2> DEFINE o == [output EXCEPT !.lineage = TRUE, !.filled = TRUE, !.long = TRUE, !.answer = TRUE,
                                 !.choices = <<"A", "B", "C", "D">>]
  <2>1. Generates(p, ok, text, output) = Returns(o)
    BY <1>6 DEF Generates, MockGenerates
  <2>2. o \in Output
    <3> DEFINE c == <<"A", "B", "C", "D">>
    <3>1. c \in Seq(ChoiceIds)
      BY AnswerAssumption
    <3> HIDE DEF c
    <3>2. [output EXCEPT !.lineage = TRUE, !.filled = TRUE, !.long = TRUE, !.answer = TRUE,
                         !.choices = c] \in Output
      BY <3>1 DEF Output
    <3> QED
      BY <3>2 DEF c
  <2> HIDE DEF o
  <2> QED
    BY <1>2, <2>1, <2>2
<1> QED
  BY <1>4, <1>5, <1>6

\* The story that is written is the newest, and the others keep their order.
LEMMA TouchIs ==
  ASSUME TypeOK, NEW s \in Stories, NEW phase \in Phases, NEW active \in Jobs \cup {None},
         Touch(s, phase, active)
  PROVE  /\ order' \in Seq(Stories) /\ Range(order') = Stories
         /\ Len(order') = Cardinality(Stories)
         /\ room' \in [Stories -> [phase : Phases, active : Jobs \cup {None}]]
<1> DEFINE n == Cardinality(Stories)
           P == {i \in DOMAIN order : order[i] # s}
           rest == Picked(order, P)
<1>1. order \in Seq(Stories) /\ Range(order) = Stories /\ Len(order) = n /\ DOMAIN order = 1..n
  BY DEF TypeOK
<1>2. n \in Nat
  BY GMAssumption, FS_CardinalityType
<1>3. order \in Injection(1..n, Stories)
  <2>1. order \in Surjection(1..n, Stories)
    BY <1>1 DEF Surjection, Range
  <2>2. IsFiniteSet(1..n) /\ Cardinality(1..n) = n
    BY <1>2, FS_Interval
  <2> QED
    BY <2>1, <2>2, FS_SurjSameCardinalityImpliesInj
<1>4. PICK p \in 1..n : order[p] = s
  BY <1>1 DEF Range
<1>5. P = (1..n) \ {p}
  BY <1>1, <1>3, <1>4 DEF Injection, IsInjective
<1>6. IsFiniteSet(P) /\ Cardinality(P) = n - 1
  <2>1. IsFiniteSet(1..n) /\ Cardinality(1..n) = n
    BY <1>2, FS_Interval
  <2> QED
    BY <1>5, <2>1, FS_RemoveElement
<1>7. rest \in Seq(Stories) /\ Len(rest) = n - 1 /\ Range(rest) = {order[i] : i \in P}
  <2>1. P \in SUBSET (DOMAIN order)
    OBVIOUS
  <2> HIDE DEF P
  <2> QED
    BY <1>1, <1>6, <2>1, PickedList
<1>8. Range(rest) = Stories \ {s}
  <2>1. {order[i] : i \in P} = Stories \ {s}
    BY <1>1 DEF Range
  <2> QED
    BY <1>7, <2>1
<1>9. order' = <<s>> \o rest
  BY DEF Touch
<1>10. order' \in Seq(Stories) /\ Len(order') = n
  <2> HIDE DEF rest, P
  <2> QED
    BY <1>2, <1>7, <1>9
<1>11. Range(order') = Stories
  <2> HIDE DEF rest, P
  <2>1. order'[1] = s /\ 1 \in DOMAIN order'
    BY <1>7, <1>9
  <2>2. \A i \in DOMAIN rest : order'[i + 1] = rest[i] /\ i + 1 \in DOMAIN order'
    BY <1>7, <1>9
  <2>3. Stories \subseteq Range(order')
    BY <1>8, <2>1, <2>2 DEF Range
  <2>4. Range(order') \subseteq Stories
    BY <1>10 DEF Range
  <2> QED
    BY <2>3, <2>4
<1>12. room' \in [Stories -> [phase : Phases, active : Jobs \cup {None}]]
  BY DEF Touch, TypeOK
<1> QED
  BY <1>10, <1>11, <1>12

----------------------------------------------------------------------------
(* What the steps have in common *)

LEMMA HandIs ==
  ASSUME TypeOK, HandInv, JobsInv, hand.stage # "idle"
  PROVE  /\ hand.job \in Jobs /\ Story \in Stories /\ jobs[hand.job].status \in {"queued", "running"}
         /\ hand.stage \in {"generating", "failing"} => jobs[hand.job].status = "running"
<1>1. hand.stage \in {"idle", "picked", "generating", "failing"}
  BY DEF TypeOK
<1>2. hand.job \in Jobs /\ jobs[hand.job].status \in {"queued", "running"}
  BY <1>1 DEF HandInv
<1> QED
  BY <1>2 DEF HandInv, JobsInv, Story

LEMMA NewJobIs ==
  ASSUME NamesLeft
  PROVE  NewJob \in Jobs /\ jobs[NewJob].status = "absent"
  BY DEF NamesLeft, NewJob

\* What a step does to a job, unless it completes it.
Steady(j) ==
  \/ jobs[j].status = "absent" /\ jobs'[j].status \in {"absent", "queued"}
  \/ /\ jobs'[j].story = jobs[j].story /\ jobs'[j].type = jobs[j].type
     /\ jobs'[j].status # "absent"
     /\ jobs'[j].status = "completed" <=> jobs[j].status = "completed"
     /\ jobs[j].status = "running" => jobs'[j].status = "running" \/ hand.job = j

\* And to the hand of the worker.
HandMoves ==
  \/ hand'.job = None
  \/ hand'.job = hand.job
  \/ hand'.job \in Jobs /\ jobs[hand'.job].status = "queued"

LEMMA TurnsStay ==
  ASSUME TypeOK, TurnsInv, turns' = turns, \A j \in Jobs : Steady(j), HandMoves
  PROVE  TurnsInv'
<1>1. ASSUME NEW s \in Stories, NEW i \in DOMAIN turns[s], turns[s][i].job \in Jobs
      PROVE  HasTurn(turns[s][i].job, s)'
  <2> DEFINE j == turns[s][i].job
  <2>1. HasTurn(j, s) /\ Steady(j) /\ j \in Jobs
    BY <1>1 DEF TurnsInv
  <2>2. jobs'[j].status \in {"running", "completed"} /\ jobs'[j].story = s /\ jobs'[j].type = jobs[j].type
    BY <2>1 DEF HasTurn, Steady
  <2>3. hand'.job # j
    BY <2>1, GMAssumption DEF HasTurn, HandMoves
  <2> QED
    BY <2>1, <2>2, <2>3 DEF HasTurn, IsQuestion
<1>2. ASSUME NEW j \in Jobs, jobs'[j].status = "completed", ~IsQuestion(j)'
      PROVE  \E i \in DOMAIN turns[jobs'[j].story] : turns[jobs'[j].story][i].job = j
  <2>1. jobs[j].status = "completed" /\ jobs'[j].story = jobs[j].story /\ jobs'[j].type = jobs[j].type
    BY <1>2 DEF Steady
  <2> QED
    BY <1>2, <2>1 DEF TurnsInv, IsQuestion
<1> QED
  BY <1>1, <1>2 DEF TurnsInv

LEMMA QaStays ==
  ASSUME TypeOK, QaInv, qa' = qa, \A j \in Jobs : Steady(j)
  PROVE  QaInv'
<1>1. ASSUME NEW s \in Stories, NEW i \in DOMAIN qa[s]
      PROVE  HasLine(qa[s][i].job, s)'
  <2> DEFINE j == qa[s][i].job
  <2>1. j \in Jobs
    <3>1. qa[s] \in Seq(Question)
      BY DEF TypeOK
    <3>2. qa[s][i] \in Question
      BY <3>1
    <3> QED
      BY <3>2 DEF Question
  <2>2. HasLine(j, s) /\ Steady(j)
    BY <2>1 DEF QaInv
  <2> QED
    BY <2>2 DEF HasLine, Steady, IsQuestion
<1>2. ASSUME NEW j \in Jobs, jobs'[j].status = "completed", IsQuestion(j)'
      PROVE  \E i \in DOMAIN qa[jobs'[j].story] :
               qa[jobs'[j].story][i].job = j /\ qa[jobs'[j].story][i].answered
  <2>1. jobs[j].status = "completed" /\ jobs'[j].story = jobs[j].story /\ jobs'[j].type = jobs[j].type
    BY <1>2 DEF Steady
  <2> QED
    BY <1>2, <2>1 DEF QaInv, IsQuestion
<1> QED
  BY <1>1, <1>2 DEF QaInv

\* A job file is written for a name that has none, and the worker goes on or
\* dies with the server.
LEMMA JobQueued ==
  ASSUME GMInv, NEW s \in Stories, NEW type \in {"story_turn", "question_answer"}, NamesLeft,
         jobs' = [jobs EXCEPT ![NewJob] = Queued(s, type)], LivesOn \/ DiesHolding(s)
  PROVE  /\ jobs' \in [Jobs -> Job] /\ lock' \in [Stories -> {"free", "held", "dead"}]
         /\ hand' \in [stage : {"idle", "picked", "generating", "failing"},
                       job : Jobs \cup {None}, raw : BOOLEAN]
         /\ deaths' \in 0..MaxDeaths
         /\ HandInv' /\ JobsInv' /\ (\A j \in Jobs : Steady(j)) /\ HandMoves
<1>1. NewJob \in Jobs /\ jobs[NewJob].status = "absent"
  BY NewJobIs
<1>2. /\ jobs \in [Jobs -> Job] /\ lock \in [Stories -> {"free", "held", "dead"}]
      /\ hand \in [stage : {"idle", "picked", "generating", "failing"},
                   job : Jobs \cup {None}, raw : BOOLEAN]
      /\ deaths \in 0..MaxDeaths /\ HandInv /\ JobsInv
  BY DEF GMInv, TypeOK
<1>3. Queued(s, type) \in Job
  BY DEF Queued, Job
<1>4. jobs' \in [Jobs -> Job]
  BY <1>2, <1>3
<1>5. /\ jobs'[NewJob] = Queued(s, type)
      /\ \A j \in Jobs : j # NewJob => jobs'[j] = jobs[j]
  BY <1>1, <1>2
<1>6. \A j \in Jobs : Steady(j)
  BY <1>1, <1>5 DEF Steady, Queued
<1>7. JobsInv'
  BY <1>2, <1>5 DEF JobsInv, Queued
<1>8. CASE LivesOn
  <2>1. UNCHANGED <<lock, hand, deaths>>
    BY <1>8 DEF LivesOn
  <2>2. HandInv'
    BY <1>1, <1>2, <1>5, <2>1 DEF HandInv, Idle
  <2> QED
    BY <1>2, <1>4, <1>6, <1>7, <2>1, <2>2 DEF HandMoves
<1>9. CASE DiesHolding(s)
  <2>1. hand' = Idle /\ lock' \in [Stories -> {"free", "held", "dead"}] /\ deaths' \in 0..MaxDeaths
    BY <1>2, <1>9, GMAssumption DEF DiesHolding
  <2>2. HandInv'
    BY <2>1 DEF HandInv, Idle
  <2> QED
    BY <1>4, <1>6, <1>7, <2>1, <2>2 DEF HandMoves, Idle
<1> QED
  BY <1>8, <1>9

----------------------------------------------------------------------------
(* One lemma for each action *)

\* submitStoryInput and resumeFailedJob write the same files.
LEMMA StoryTurnQueued ==
  ASSUME GMInv, NEW s \in Stories, SubmitStoryInput(s) \/ ResumeFailedJob(s)
  PROVE  GMInv'
<1>1. /\ NamesLeft /\ jobs' = [jobs EXCEPT ![NewJob] = Queued(s, "story_turn")]
      /\ \/ Touch(s, "gm_generating", NewJob) /\ LivesOn
         \/ DiesHolding(s) /\ UNCHANGED <<room, order>>
      /\ UNCHANGED <<turns, state, qa, provider, holds>>
  BY DEF SubmitStoryInput, ResumeFailedJob
<1>2. /\ jobs' \in [Jobs -> Job] /\ lock' \in [Stories -> {"free", "held", "dead"}]
      /\ hand' \in [stage : {"idle", "picked", "generating", "failing"},
                    job : Jobs \cup {None}, raw : BOOLEAN]
      /\ deaths' \in 0..MaxDeaths
      /\ HandInv' /\ JobsInv' /\ (\A j \in Jobs : Steady(j)) /\ HandMoves
  BY <1>1, JobQueued
<1>3. NewJob \in Jobs
  BY <1>1, NewJobIs
<1>4. /\ order' \in Seq(Stories) /\ Range(order') = Stories /\ Len(order') = Cardinality(Stories)
      /\ room' \in [Stories -> [phase : Phases, active : Jobs \cup {None}]]
  <2>1. TypeOK
    BY DEF GMInv
  <2>2. CASE Touch(s, "gm_generating", NewJob)
    <3>1. "gm_generating" \in Phases
      BY DEF Phases
    <3> QED
      BY <1>3, <2>1, <2>2, <3>1, TouchIs
  <2>3. CASE UNCHANGED <<room, order>>
    BY <2>1, <2>3 DEF TypeOK
  <2> QED
    BY <1>1, <2>2, <2>3
<1>5. TypeOK'
  BY <1>1, <1>2, <1>4 DEF GMInv, TypeOK
<1>6. TurnsInv' /\ QaInv'
  BY <1>1, <1>2, TurnsStay, QaStays DEF GMInv
<1> QED
  BY <1>2, <1>5, <1>6 DEF GMInv

LEMMA QuestionSubmitted ==
  ASSUME GMInv, NEW s \in Stories, SubmitQuestion(s)
  PROVE  GMInv'
<1>1. PICK n \in Jobs : n = NewJob /\ jobs[n].status = "absent"
  <2>1. NewJob \in Jobs /\ jobs[NewJob].status = "absent"
    BY NewJobIs DEF SubmitQuestion
  <2> QED
    BY <2>1
<1> DEFINE line == [job |-> n, answered |-> FALSE]
<1>2. /\ NamesLeft /\ jobs' = [jobs EXCEPT ![n] = Queued(s, "question_answer")]
      /\ \/ qa' = [qa EXCEPT ![s] = Append(@, line)] /\ LivesOn
         \/ DiesHolding(s) /\ UNCHANGED qa
      /\ UNCHANGED <<order, room, turns, state, provider, holds>>
  BY <1>1 DEF SubmitQuestion
<1>3. /\ jobs' \in [Jobs -> Job] /\ lock' \in [Stories -> {"free", "held", "dead"}]
      /\ hand' \in [stage : {"idle", "picked", "generating", "failing"},
                    job : Jobs \cup {None}, raw : BOOLEAN]
      /\ deaths' \in 0..MaxDeaths
      /\ HandInv' /\ JobsInv' /\ (\A j \in Jobs : Steady(j)) /\ HandMoves
  BY <1>2, <1>1, JobQueued
<1>4. TypeOK /\ TurnsInv /\ QaInv /\ qa \in [Stories -> Seq(Question)] /\ jobs \in [Jobs -> Job]
  BY DEF GMInv, TypeOK
<1>5. TurnsInv'
  BY <1>2, <1>3, <1>4, TurnsStay
<1>6. CASE UNCHANGED qa
  <2>1. QaInv'
    BY <1>3, <1>4, <1>6, QaStays
  <2>2. TypeOK'
    BY <1>2, <1>3, <1>4, <1>6 DEF TypeOK
  <2> QED
    BY <1>3, <1>5, <2>1, <2>2 DEF GMInv
<1>7. CASE qa' = [qa EXCEPT ![s] = Append(@, line)]
  <2>1. line \in Question /\ line.job = n
    BY <1>1 DEF Question
  <2> HIDE DEF line
  <2>2. qa' \in [Stories -> Seq(Question)]
    BY <1>4, <1>7, <2>1
  <2>3. TypeOK'
    BY <1>2, <1>3, <1>4, <2>2 DEF TypeOK
  <2>4. /\ DOMAIN qa'[s] = 1..(Len(qa[s]) + 1) /\ qa'[s][Len(qa[s]) + 1] = line
        /\ \A i \in DOMAIN qa[s] : qa'[s][i] = qa[s][i]
        /\ DOMAIN qa[s] = 1..Len(qa[s]) /\ Len(qa[s]) \in Nat
        /\ \A s2 \in Stories : s2 # s => qa'[s2] = qa[s2]
    BY <1>4, <1>7, <2>1
  <2>5. \A s2 \in Stories : \A i \in DOMAIN qa[s2] :
          qa[s2][i].job # n /\ qa[s2][i].job \in Jobs
    <3>1. \A s2 \in Stories : \A i \in DOMAIN qa[s2] : qa[s2][i] \in Question
      BY <1>4
    <3>2. \A s2 \in Stories : \A i \in DOMAIN qa[s2] : HasLine(qa[s2][i].job, s2)
      BY <1>4 DEF QaInv
    <3> QED
      BY <1>1, <3>1, <3>2 DEF HasLine, Question
  <2>6. ASSUME NEW j \in Jobs, NEW s2 \in Stories, HasLine(j, s2)
        PROVE  HasLine(j, s2)'
    BY <1>3, <2>6 DEF HasLine, Steady, IsQuestion
  <2>7. HasLine(n, s)'
    <3>1. jobs'[n] = Queued(s, "question_answer")
      BY <1>2, <1>1, <1>4
    <3> QED
      BY <3>1 DEF HasLine, IsQuestion, Queued
  <2>8. ASSUME NEW s2 \in Stories, NEW i \in DOMAIN qa'[s2]
        PROVE  HasLine(qa[s2][i].job, s2)'
    <3>1. CASE i \in DOMAIN qa[s2] /\ qa'[s2][i] = qa[s2][i]
      BY <1>4, <2>5, <2>6, <3>1 DEF QaInv
    <3>2. CASE s2 = s /\ i = Len(qa[s]) + 1
      BY <2>1, <2>4, <2>7, <3>2
    <3> QED
      BY <2>4, <3>1, <3>2
  <2>9. ASSUME NEW s2 \in Stories, NEW i \in DOMAIN qa'[s2], NEW k \in DOMAIN qa'[s2],
               qa'[s2][i].job = qa'[s2][k].job
        PROVE  i = k
    <3>1. CASE s2 # s
      BY <1>4, <2>4, <2>9, <3>1 DEF QaInv
    <3>2. CASE s2 = s /\ i \in DOMAIN qa[s] /\ k \in DOMAIN qa[s]
      BY <1>4, <2>4, <2>9, <3>2 DEF QaInv
    <3>3. CASE s2 = s /\ i = Len(qa[s]) + 1 /\ k \in DOMAIN qa[s]
      BY <2>1, <2>4, <2>5, <2>9, <3>3
    <3>4. CASE s2 = s /\ k = Len(qa[s]) + 1 /\ i \in DOMAIN qa[s]
      BY <2>1, <2>4, <2>5, <2>9, <3>4
    <3> QED
      BY <2>4, <3>1, <3>2, <3>3, <3>4
  <2>10. ASSUME NEW j \in Jobs, jobs'[j].status = "completed", IsQuestion(j)'
         PROVE  \E i \in DOMAIN qa'[jobs'[j].story] :
                  qa'[jobs'[j].story][i].job = j /\ qa'[jobs'[j].story][i].answered
    <3>1. jobs[j].status = "completed" /\ jobs'[j].story = jobs[j].story /\ IsQuestion(j)
      BY <1>3, <2>10 DEF Steady, IsQuestion
    <3>2. jobs[j].story \in Stories
      BY <3>1 DEF GMInv, JobsInv
    <3>3. PICK i \in DOMAIN qa[jobs[j].story] :
            qa[jobs[j].story][i].job = j /\ qa[jobs[j].story][i].answered
      BY <1>4, <3>1 DEF QaInv
    <3> QED
      BY <2>4, <3>1, <3>2, <3>3
  <2>11. QaInv'
    BY <2>8, <2>9, <2>10 DEF QaInv
  <2> QED
    BY <1>3, <1>5, <2>3, <2>11 DEF GMInv
<1> QED
  BY <1>2, <1>6, <1>7

\* A step that writes no job, no turn and no answer.
LEMMA FilesStay ==
  ASSUME GMInv, UNCHANGED <<jobs, turns, qa>>, HandMoves
  PROVE  JobsInv' /\ TurnsInv' /\ QaInv'
<1>1. \A j \in Jobs : Steady(j)
  BY DEF Steady
<1>2. JobsInv'
  BY DEF GMInv, JobsInv
<1> QED
  BY <1>1, <1>2, TurnsStay, QaStays DEF GMInv

LEMMA FailedJobCancelled ==
  ASSUME GMInv, NEW s \in Stories, CancelFailedJob(s)
  PROVE  GMInv'
<1>1. /\ Touch(s, "waiting_for_choice", None)
      /\ UNCHANGED <<turns, state, qa, jobs, lock, hand, provider, holds, deaths>>
  BY DEF CancelFailedJob
<1>2. /\ order' \in Seq(Stories) /\ Range(order') = Stories /\ Len(order') = Cardinality(Stories)
      /\ room' \in [Stories -> [phase : Phases, active : Jobs \cup {None}]]
  <2>1. "waiting_for_choice" \in Phases /\ None \in Jobs \cup {None}
    BY DEF Phases
  <2> QED
    BY <1>1, <2>1, TouchIs DEF GMInv
<1>3. TypeOK'
  BY <1>1, <1>2 DEF GMInv, TypeOK
<1>4. HandInv'
  BY <1>1 DEF GMInv, HandInv, Idle
<1> QED
  BY <1>1, <1>3, <1>4, FilesStay DEF GMInv, HandMoves

LEMMA LockHeldOrFreed ==
  ASSUME GMInv, NEW s \in Stories, HoldLock(s) \/ LockFreed(s)
  PROVE  GMInv'
<1>1. UNCHANGED <<order, room, turns, state, qa, jobs, hand, provider, deaths>>
  BY DEF HoldLock, LockFreed
<1>2. lock' \in [Stories -> {"free", "held", "dead"}] /\ holds' \in 0..MaxHolds
  <2>1. lock \in [Stories -> {"free", "held", "dead"}] /\ holds \in 0..MaxHolds
    BY DEF GMInv, TypeOK
  <2>2. CASE HoldLock(s)
    BY <2>1, <2>2, GMAssumption DEF HoldLock
  <2>3. CASE LockFreed(s)
    BY <2>1, <2>3 DEF LockFreed
  <2> QED
    BY <2>2, <2>3
<1>3. TypeOK'
  BY <1>1, <1>2 DEF GMInv, TypeOK
<1>4. HandInv'
  BY <1>1 DEF GMInv, HandInv, Idle
<1> QED
  BY <1>1, <1>3, <1>4, FilesStay DEF GMInv, HandMoves

LEMMA ServerDied ==
  ASSUME GMInv, Die
  PROVE  GMInv'
<1>1. hand' = Idle /\ UNCHANGED <<order, room, turns, state, qa, jobs, provider, holds>>
  BY DEF Die
<1>2. lock' \in [Stories -> {"free", "held", "dead"}] /\ deaths' \in 0..MaxDeaths
  BY GMAssumption DEF GMInv, TypeOK, Die
<1>3. TypeOK'
  BY <1>1, <1>2 DEF GMInv, TypeOK, Idle
<1>4. HandInv'
  BY <1>1 DEF HandInv, Idle
<1> QED
  BY <1>1, <1>3, <1>4, FilesStay DEF GMInv, HandMoves, Idle

LEMMA JobPicked ==
  ASSUME GMInv, PickJob
  PROVE  GMInv'
<1>1. /\ UNCHANGED <<order, room, turns, state, qa, jobs, lock, provider, holds, deaths>>
      /\ \E j \in Jobs : jobs[j].status = "queued" /\ hand' = [Idle EXCEPT !.stage = "picked", !.job = j]
  BY DEF PickJob, Servable
<1>2. PICK j \in Jobs : jobs[j].status = "queued" /\ hand' = [stage |-> "picked", job |-> j, raw |-> FALSE]
  BY <1>1 DEF Idle
<1>3. TypeOK'
  BY <1>1, <1>2 DEF GMInv, TypeOK
<1>4. HandInv'
  BY <1>1, <1>2 DEF HandInv
<1> QED
  BY <1>1, <1>2, <1>3, <1>4, FilesStay DEF GMInv, HandMoves

LEMMA JobMarkedStarted ==
  ASSUME GMInv, MarkJobStarted
  PROVE  GMInv'
<1>1. hand.stage = "picked" /\ UNCHANGED <<order, room, turns, state, qa, lock, provider, holds, deaths>>
  BY DEF MarkJobStarted
<1>2. hand.job \in Jobs /\ jobs[hand.job].status = "queued" /\ jobs[hand.job].story \in Stories
  BY <1>1, HandIs DEF GMInv, HandInv, Story
<1>3. CASE MayWrite
  <2>1. /\ jobs' = [jobs EXCEPT ![hand.job].status = "running"]
        /\ hand' = [hand EXCEPT !.stage = "generating"]
    BY <1>3 DEF MarkJobStarted
  <2>2. jobs \in [Jobs -> Job] /\ hand \in [stage : {"idle", "picked", "generating", "failing"},
                                           job : Jobs \cup {None}, raw : BOOLEAN]
    BY DEF GMInv, TypeOK
  <2>3. jobs' \in [Jobs -> Job]
    BY <1>2, <2>1, <2>2 DEF Job
  <2>4. hand' \in [stage : {"idle", "picked", "generating", "failing"},
                   job : Jobs \cup {None}, raw : BOOLEAN]
    BY <2>1, <2>2
  <2>5. TypeOK'
    BY <1>1, <2>3, <2>4 DEF GMInv, TypeOK
  <2>6. /\ jobs'[hand.job] = [jobs[hand.job] EXCEPT !.status = "running"]
        /\ \A j \in Jobs : j # hand.job => jobs'[j] = jobs[j]
        /\ hand'.job = hand.job /\ hand'.stage = "generating"
    BY <1>2, <2>1, <2>2
  <2>7. /\ jobs'[hand.job].status = "running" /\ jobs'[hand.job].story = jobs[hand.job].story
        /\ jobs'[hand.job].type = jobs[hand.job].type
    BY <1>2, <2>2, <2>6 DEF Job
  <2>8. \A j \in Jobs : Steady(j)
    BY <1>2, <2>6, <2>7 DEF Steady
  <2>9. HandInv'
    BY <1>2, <2>6, <2>7 DEF HandInv
  <2>10. JobsInv'
    BY <1>2, <2>6, <2>7 DEF GMInv, JobsInv
  <2> QED
    BY <1>1, <2>5, <2>6, <2>8, <2>9, <2>10, TurnsStay, QaStays DEF GMInv, HandMoves
<1>4. CASE ~MayWrite
  <2>1. hand' = Idle /\ UNCHANGED jobs
    BY <1>4 DEF MarkJobStarted
  <2>2. TypeOK'
    BY <1>1, <2>1 DEF GMInv, TypeOK, Idle
  <2>3. HandInv'
    BY <2>1 DEF HandInv, Idle
  <2> QED
    BY <1>1, <2>1, <2>2, <2>3, FilesStay DEF GMInv, HandMoves, Idle
<1> QED
  BY <1>3, <1>4

LEMMA WentToFail ==
  ASSUME GMInv, hand.stage = "generating", NEW raw \in BOOLEAN, GoFail(raw), UNCHANGED <<provider, holds>>
  PROVE  GMInv'
<1>1. /\ hand' = [hand EXCEPT !.stage = "failing", !.raw = raw]
      /\ UNCHANGED <<order, room, turns, state, qa, jobs, lock, deaths, provider, holds>>
  BY DEF GoFail
<1>2. hand \in [stage : {"idle", "picked", "generating", "failing"},
                job : Jobs \cup {None}, raw : BOOLEAN]
  BY DEF GMInv, TypeOK
<1>3. hand'.job = hand.job /\ hand'.stage = "failing"
  BY <1>1, <1>2
<1>4. TypeOK'
  BY <1>1, <1>2 DEF GMInv, TypeOK
<1>5. HandInv'
  BY <1>1, <1>3 DEF GMInv, HandInv
<1> QED
  BY <1>1, <1>3, <1>4, <1>5, FilesStay DEF GMInv, HandMoves

LEMMA JobFailed ==
  ASSUME GMInv, FailGMJob
  PROVE  GMInv'
<1>1. /\ hand.stage = "failing" /\ hand' = Idle
      /\ UNCHANGED <<turns, state, qa, lock, provider, holds, deaths>>
  BY DEF FailGMJob
<1>2. /\ hand.job \in Jobs /\ jobs[hand.job].status = "running" /\ jobs[hand.job].story \in Stories
      /\ Story \in Stories
  BY <1>1, HandIs DEF GMInv, Story
<1>3. HandInv'
  BY <1>1 DEF HandInv, Idle
<1>4. CASE Free(Story)
  <2>1. jobs' = [jobs EXCEPT ![hand.job].status = "failed",
                             ![hand.job].raw = IF hand.raw THEN "failed" ELSE "none"]
    BY <1>4 DEF FailGMJob
  <2>2. jobs \in [Jobs -> Job]
    BY DEF GMInv, TypeOK
  <2>3. /\ jobs' \in [Jobs -> Job]
        /\ \A j \in Jobs : j # hand.job => jobs'[j] = jobs[j]
        /\ jobs'[hand.job].status = "failed" /\ jobs'[hand.job].story = jobs[hand.job].story
        /\ jobs'[hand.job].type = jobs[hand.job].type
    BY <1>2, <2>1, <2>2 DEF Job
  <2>4. /\ order' \in Seq(Stories) /\ Range(order') = Stories /\ Len(order') = Cardinality(Stories)
        /\ room' \in [Stories -> [phase : Phases, active : Jobs \cup {None}]]
    <3>1. CASE Touch(Story, "failed_waiting_retry", hand.job)
      <4>1. "failed_waiting_retry" \in Phases
        BY DEF Phases
      <4> QED
        BY <1>2, <3>1, <4>1, TouchIs DEF GMInv
    <3>2. CASE UNCHANGED <<room, order>>
      BY <3>2 DEF GMInv, TypeOK
    <3> QED
      BY <1>4, <3>1, <3>2 DEF FailGMJob
  <2>5. TypeOK'
    BY <1>1, <2>3, <2>4 DEF GMInv, TypeOK, Idle
  <2>6. \A j \in Jobs : Steady(j)
    BY <1>2, <2>3 DEF Steady
  <2>7. JobsInv'
    BY <1>2, <2>3 DEF GMInv, JobsInv
  <2> QED
    BY <1>1, <1>3, <2>5, <2>6, <2>7, TurnsStay, QaStays DEF GMInv, HandMoves, Idle
<1>5. CASE ~Free(Story)
  <2>1. UNCHANGED <<jobs, room, order>>
    BY <1>5 DEF FailGMJob
  <2>2. TypeOK'
    BY <1>1, <2>1 DEF GMInv, TypeOK, Idle
  <2> QED
    BY <1>1, <1>3, <2>1, <2>2, FilesStay DEF GMInv, HandMoves, Idle
<1> QED
  BY <1>4, <1>5

\* The end of an answer or the death in it: the hand is empty.
Ended ==
  /\ hand' = Idle /\ UNCHANGED <<provider, holds>>
  /\ lock' \in [Stories -> {"free", "held", "dead"}] /\ deaths' \in 0..MaxDeaths

\* What is written of a turn: the line first, and the job file only with it.
LEMMA TurnApplied ==
  ASSUME GMInv, hand.stage = "generating", ~IsQuestion(hand.job),
         NEW out \in Output, ValidateGMOutput(out), NEW n \in 0..4, ApplyTurn(out, n), Ended
  PROVE  GMInv'
<1>1. PICK j \in Jobs : /\ j = hand.job /\ jobs[j].status = "running" /\ jobs[j].story \in Stories
                        /\ ~IsQuestion(j)
  BY HandIs DEF GMInv, Story
<1>2. PICK s \in Stories : s = jobs[j].story /\ s = Story
  BY <1>1 DEF Story
<1> DEFINE line == [job |-> j, choices |-> out.choices, patch |-> out.patch]
           done == [jobs[j] EXCEPT !.status = "completed", !.raw = "raw"]
<1>3. /\ turns' = IF n >= 1 THEN [turns EXCEPT ![s] = Append(@, line)] ELSE turns
      /\ jobs' = IF n >= 2 THEN [jobs EXCEPT ![j] = done] ELSE jobs
      /\ state' = IF n >= 3 THEN [state EXCEPT ![s] = ApplyGMStatePatch(@, out.patch)] ELSE state
      /\ Touch(s, "waiting_for_choice", None) \/ UNCHANGED <<room, order>>
      /\ UNCHANGED qa
  BY <1>1, <1>2 DEF ApplyTurn, Written, TurnOf, Completed
<1>4. /\ turns \in [Stories -> Seq(Turn)] /\ jobs \in [Jobs -> Job] /\ state \in [Stories -> StoryState]
      /\ TypeOK /\ TurnsInv /\ QaInv /\ JobsInv /\ n \in Int
  BY DEF GMInv, TypeOK
<1>5. line \in Turn /\ line.job = j /\ FitChoices(line.choices)
  BY DEF Output, Turn, ValidateGMOutput, ValidChoices, FitChoices
<1>6. done \in Job /\ done.status = "completed" /\ done.story = s /\ done.type = jobs[j].type
  BY <1>2, <1>4 DEF Job
<1> HIDE DEF line, done
<1>7. turns' \in [Stories -> Seq(Turn)] /\ jobs' \in [Jobs -> Job]
  BY <1>3, <1>4, <1>5, <1>6
<1>8. state' \in [Stories -> StoryState]
  <2>1. state[s] \in StoryState /\ out.patch \in StatePatch
    BY <1>4 DEF Output
  <2>2. ApplyGMStatePatch(state[s], out.patch) \in StoryState
    BY <2>1, PatchedState
  <2> QED
    BY <1>3, <1>4, <2>2
<1>9. /\ order' \in Seq(Stories) /\ Range(order') = Stories /\ Len(order') = Cardinality(Stories)
      /\ room' \in [Stories -> [phase : Phases, active : Jobs \cup {None}]]
  <2>1. CASE Touch(s, "waiting_for_choice", None)
    <3>1. "waiting_for_choice" \in Phases /\ None \in Jobs \cup {None}
      BY DEF Phases
    <3> QED
      BY <1>4, <2>1, <3>1, TouchIs
  <2>2. CASE UNCHANGED <<room, order>>
    BY <1>4, <2>2 DEF TypeOK
  <2> QED
    BY <1>3, <2>1, <2>2
<1>10. TypeOK'
  BY <1>3, <1>4, <1>7, <1>8, <1>9 DEF TypeOK, Ended, Idle
<1>11. HandInv'
  BY DEF HandInv, Ended, Idle
<1>12. /\ \A i \in Jobs : i # j => jobs'[i] = jobs[i]
       /\ jobs'[j].status \in {"running", "completed"} /\ (jobs'[j].status = "completed" => n >= 2)
       /\ jobs'[j].story = s /\ jobs'[j].type = jobs[j].type
  BY <1>1, <1>2, <1>3, <1>4, <1>6
<1>13. JobsInv'
  BY <1>4, <1>12 DEF JobsInv
<1>14. QaInv'
  <2>1. ASSUME NEW t \in Stories, NEW i \in DOMAIN qa[t] PROVE HasLine(qa[t][i].job, t)'
    <3>1. qa[t] \in Seq(Question)
      BY <1>4 DEF TypeOK
    <3>2. qa[t][i] \in Question
      BY <3>1
    <3>3. HasLine(qa[t][i].job, t) /\ qa[t][i].job \in Jobs
      BY <1>4, <3>2 DEF QaInv, Question
    <3> QED
      BY <1>1, <1>3, <1>12, <3>3 DEF HasLine, IsQuestion
  <2>2. ASSUME NEW i \in Jobs, jobs'[i].status = "completed", IsQuestion(i)'
        PROVE  i # j /\ jobs'[i] = jobs[i] /\ IsQuestion(i)
    BY <1>1, <1>12, <2>2 DEF IsQuestion
  <2>3. ASSUME NEW i \in Jobs, jobs'[i].status = "completed", IsQuestion(i)'
        PROVE  \E k \in DOMAIN qa[jobs'[i].story] :
                 qa[jobs'[i].story][k].job = i /\ qa[jobs'[i].story][k].answered
    BY <1>4, <2>2, <2>3 DEF QaInv
  <2>4. \A t \in Stories : \A i, k \in DOMAIN qa[t] : qa[t][i].job = qa[t][k].job => i = k
    BY <1>4 DEF QaInv
  <2>5. qa' = qa
    BY <1>3
  <2>6. \A t \in Stories : \A i \in DOMAIN qa[t] : HasLine(qa[t][i].job, t)'
    BY <2>1
  <2> QED
    BY <2>3, <2>4, <2>5, <2>6 DEF QaInv
<1>15. ASSUME NEW t \in Stories, NEW i \in DOMAIN turns[t]
       PROVE  FitChoices(turns[t][i].choices) /\ turns[t][i].job # j
  BY <1>1, <1>4 DEF TurnsInv, HasTurn
<1>16. ASSUME NEW k \in Jobs, NEW t \in Stories, HasTurn(k, t), k # j
       PROVE  HasTurn(k, t)'
  <2>1. hand'.job = None
    BY DEF Ended, Idle
  <2> QED
    BY <1>12, <1>16, <2>1, GMAssumption DEF HasTurn, IsQuestion
<1>17. HasTurn(j, s)'
  <2>1. hand'.job = None
    BY DEF Ended, Idle
  <2> QED
    BY <1>1, <1>12, <2>1, GMAssumption DEF HasTurn, IsQuestion
<1>18. TurnsInv'
  <2>1. CASE n >= 1
    <3> DEFINE l == Len(turns[s])
    <3>1. turns' = [turns EXCEPT ![s] = Append(@, line)]
      BY <1>3, <2>1
    <3>2. turns[s] \in Seq(Turn)
      BY <1>4
    <3>3. /\ DOMAIN turns'[s] = 1..(l + 1) /\ turns'[s][l + 1] = line
          /\ \A i \in DOMAIN turns[s] : turns'[s][i] = turns[s][i]
          /\ DOMAIN turns[s] = 1..l /\ l \in Nat
          /\ \A t \in Stories : t # s => turns'[t] = turns[t]
      BY <1>4, <1>5, <3>1, <3>2
    <3> HIDE DEF l
    <3>4. ASSUME NEW t \in Stories, NEW i \in DOMAIN turns'[t]
          PROVE  \/ i \in DOMAIN turns[t] /\ turns'[t][i] = turns[t][i]
                 \/ t = s /\ i = l + 1 /\ turns'[t][i] = line
      BY <3>3
    <3>5. ASSUME NEW t \in Stories, NEW i \in DOMAIN turns'[t]
          PROVE  /\ FitChoices(turns'[t][i].choices)
                 /\ turns'[t][i].job \in Jobs =>
                      \E k \in Jobs : k = turns'[t][i].job /\ HasTurn(k, t)'
      <4>1. CASE i \in DOMAIN turns[t] /\ turns'[t][i] = turns[t][i]
        <5>1. turns[t][i].job \in Jobs => HasTurn(turns[t][i].job, t)
          BY <1>4, <4>1 DEF TurnsInv
        <5> QED
          BY <1>15, <1>16, <4>1, <5>1
      <4>2. CASE t = s /\ turns'[t][i] = line
        BY <1>5, <1>17, <4>2
      <4> QED
        BY <3>4, <4>1, <4>2
    <3>6. ASSUME NEW t \in Stories, NEW i \in DOMAIN turns'[t], NEW k \in DOMAIN turns'[t],
                 turns'[t][i].job \in Jobs, turns'[t][i].job = turns'[t][k].job
          PROVE  i = k
      <4>1. CASE i \in DOMAIN turns[t] /\ k \in DOMAIN turns[t] /\ turns'[t][i] = turns[t][i]
                 /\ turns'[t][k] = turns[t][k]
        BY <1>4, <3>6, <4>1 DEF TurnsInv
      <4>2. CASE t = s /\ i = l + 1 /\ turns'[t][i] = line
        BY <1>5, <1>15, <3>4, <3>6, <4>2
      <4>3. CASE t = s /\ k = l + 1 /\ turns'[t][k] = line
        BY <1>5, <1>15, <3>4, <3>6, <4>3
      <4> QED
        BY <3>4, <4>1, <4>2, <4>3
    <3>7. ASSUME NEW i \in Jobs, jobs'[i].status = "completed", ~IsQuestion(i)'
          PROVE  \E k \in DOMAIN turns'[jobs'[i].story] : turns'[jobs'[i].story][k].job = i
      <4>1. CASE i = j
        BY <1>5, <1>12, <3>3, <4>1
      <4>2. CASE i # j
        <5>1. jobs'[i] = jobs[i] /\ ~IsQuestion(i)
          BY <1>12, <3>7, <4>2 DEF IsQuestion
        <5>2. PICK k \in DOMAIN turns[jobs[i].story] : turns[jobs[i].story][k].job = i
          BY <1>4, <3>7, <5>1 DEF TurnsInv
        <5>3. jobs[i].story \in Stories
          BY <1>4, <3>7, <5>1 DEF JobsInv
        <5> QED
          BY <3>3, <5>1, <5>2, <5>3
      <4> QED
        BY <4>1, <4>2
    <3> QED
      BY <3>5, <3>6, <3>7 DEF TurnsInv
  <2>2. CASE n < 1
    <3>1. turns' = turns /\ jobs' = jobs
      BY <1>3, <1>4, <2>2
    <3>2. \A i \in Jobs : Steady(i)
      BY <3>1 DEF Steady
    <3> QED
      BY <1>4, <3>1, <3>2, TurnsStay DEF HandMoves, Ended, Idle
  <2> QED
    BY <1>4, <2>1, <2>2
<1> QED
  BY <1>10, <1>11, <1>13, <1>14, <1>18 DEF GMInv

\* What is written of an answer to a question: the line first, and the job
\* file only with it.
LEMMA AnswerApplied ==
  ASSUME GMInv, hand.stage = "generating", IsQuestion(hand.job), NEW n \in 0..2, ApplyAnswer(n), Ended
  PROVE  GMInv'
<1>1. PICK j \in Jobs : /\ j = hand.job /\ jobs[j].status = "running" /\ jobs[j].story \in Stories
                        /\ IsQuestion(j)
  BY HandIs DEF GMInv, Story
<1>2. PICK s \in Stories : s = jobs[j].story /\ s = Story
  BY <1>1 DEF Story
<1> DEFINE line == [job |-> j, answered |-> TRUE]
           done == [jobs[j] EXCEPT !.status = "completed", !.raw = "raw"]
           lines == RewriteQuestionProjection(s)
<1>3. /\ qa' = IF n >= 1 THEN [qa EXCEPT ![s] = lines] ELSE qa
      /\ jobs' = IF n >= 2 THEN [jobs EXCEPT ![j] = done] ELSE jobs
      /\ UNCHANGED <<order, room, turns, state>>
  BY <1>1, <1>2 DEF ApplyAnswer, Written, Completed
<1>4. /\ qa \in [Stories -> Seq(Question)] /\ jobs \in [Jobs -> Job]
      /\ TypeOK /\ TurnsInv /\ QaInv /\ JobsInv /\ n \in Int
  BY DEF GMInv, TypeOK
<1>5. line \in Question /\ line.job = j /\ line.answered
  BY DEF Question
<1>6. done \in Job /\ done.status = "completed" /\ done.story = s /\ done.type = jobs[j].type
  BY <1>2, <1>4 DEF Job
<1> DEFINE l == Len(qa[s])
<1>7. qa[s] \in Seq(Question) /\ DOMAIN qa[s] = 1..l /\ l \in Nat
  BY <1>4
<1>8. \A i \in DOMAIN qa[s] : qa[s][i] \in Question
  BY <1>7
\* The line of the question is there once, and answered.
<1>9. /\ lines \in Seq(Question)
      /\ \E k \in DOMAIN lines : lines[k].job = j /\ lines[k].answered
      /\ \A i \in DOMAIN lines : lines[i].job = j \/ (i \in DOMAIN qa[s] /\ lines[i] = qa[s][i])
      /\ \A i, k \in DOMAIN lines : lines[i].job = lines[k].job => i = k
      /\ DOMAIN qa[s] \subseteq DOMAIN lines
      /\ \A i \in DOMAIN qa[s] : lines[i].job = qa[s][i].job /\ (qa[s][i].answered => lines[i].answered)
  <2>1. CASE AnsweredIn(s)
    <3>1. lines = [i \in DOMAIN qa[s] |->
                     IF qa[s][i].job = j THEN [qa[s][i] EXCEPT !.answered = TRUE] ELSE qa[s][i]]
      BY <1>1, <2>1 DEF RewriteQuestionProjection
    <3> HIDE DEF lines
    <3>2. \A i \in DOMAIN qa[s] : /\ lines[i] \in Question /\ lines[i].job = qa[s][i].job
                                   /\ (qa[s][i].answered \/ qa[s][i].job = j => lines[i].answered)
                                   /\ (qa[s][i].job # j => lines[i] = qa[s][i])
      BY <1>8, <3>1 DEF Question
    <3>3. DOMAIN lines = DOMAIN qa[s]
      BY <3>1
    <3>4. lines \in Seq(Question)
      <4>1. DOMAIN lines = 1..l /\ lines = [i \in 1..l |-> lines[i]] /\ l \in Nat
        BY <1>7, <3>1
      <4> HIDE DEF l
      <4>2. \A i \in 1..l : lines[i] \in Question
        BY <1>7, <3>2
      <4> QED
        BY <4>1, <4>2
    <3>5. \E k \in DOMAIN lines : lines[k].job = j /\ lines[k].answered
      BY <1>1, <2>1, <3>2, <3>3 DEF AnsweredIn
    <3>6. \A i, k \in DOMAIN qa[s] : qa[s][i].job = qa[s][k].job => i = k
      BY <1>4 DEF QaInv
    <3> QED
      BY <3>2, <3>3, <3>4, <3>5, <3>6
  <2>2. CASE ~AnsweredIn(s)
    <3>1. lines = Append(qa[s], line)
      BY <1>1, <2>2 DEF RewriteQuestionProjection
    <3> HIDE DEF lines, line, l
    <3>2. /\ lines \in Seq(Question) /\ DOMAIN lines = 1..(l + 1) /\ lines[l + 1] = line
          /\ \A i \in DOMAIN qa[s] : lines[i] = qa[s][i]
      BY <1>5, <1>7, <3>1 DEF l
    <3>3. \A i \in DOMAIN qa[s] : qa[s][i].job # j
      BY <1>1, <2>2 DEF AnsweredIn
    <3>4. \A i, k \in DOMAIN qa[s] : qa[s][i].job = qa[s][k].job => i = k
      BY <1>4 DEF QaInv
    <3>5. \A i \in DOMAIN lines : i \in DOMAIN qa[s] \/ i = l + 1
      BY <1>7, <3>2
    <3>6. l + 1 \in DOMAIN lines /\ DOMAIN qa[s] \subseteq DOMAIN lines
      BY <1>7, <3>2
    <3>7. \A i, k \in DOMAIN lines : lines[i].job = lines[k].job => i = k
      BY <1>5, <3>2, <3>3, <3>4, <3>5
    <3> QED
      BY <1>5, <3>2, <3>5, <3>6, <3>7
  <2> QED
    BY <2>1, <2>2
<1> HIDE DEF line, done, lines, l
<1>10. qa' \in [Stories -> Seq(Question)] /\ jobs' \in [Jobs -> Job]
  BY <1>3, <1>4, <1>6, <1>9
<1>11. TypeOK'
  BY <1>3, <1>4, <1>10 DEF TypeOK, Ended, Idle
<1>12. HandInv'
  BY DEF HandInv, Ended, Idle
<1>13. /\ \A i \in Jobs : i # j => jobs'[i] = jobs[i]
       /\ jobs'[j].status \in {"running", "completed"} /\ (jobs'[j].status = "completed" => n >= 2)
       /\ jobs'[j].story = s /\ jobs'[j].type = jobs[j].type
  BY <1>1, <1>2, <1>3, <1>4, <1>6
<1>14. JobsInv'
  BY <1>4, <1>13 DEF JobsInv
<1>15. TurnsInv'
  <2>1. \A t \in Stories : \A i \in DOMAIN turns[t] : turns[t][i].job # j
    BY <1>1, <1>4 DEF TurnsInv, HasTurn
  <2>2. ASSUME NEW t \in Stories, NEW i \in DOMAIN turns[t], turns[t][i].job \in Jobs
        PROVE  HasTurn(turns[t][i].job, t)'
    <3>1. HasTurn(turns[t][i].job, t) /\ turns[t][i].job # j
      BY <1>4, <2>1, <2>2 DEF TurnsInv
    <3>2. hand'.job = None
      BY DEF Ended, Idle
    <3> QED
      BY <1>3, <1>13, <2>2, <3>1, <3>2, GMAssumption DEF HasTurn, IsQuestion
  <2>3. ASSUME NEW i \in Jobs, jobs'[i].status = "completed", ~IsQuestion(i)'
        PROVE  \E k \in DOMAIN turns[jobs'[i].story] : turns[jobs'[i].story][k].job = i
    <3>1. i # j /\ jobs'[i] = jobs[i] /\ ~IsQuestion(i)
      BY <1>1, <1>13, <2>3 DEF IsQuestion
    <3> QED
      BY <1>4, <2>3, <3>1 DEF TurnsInv
  <2>4. /\ \A t \in Stories : \A i \in DOMAIN turns[t] : FitChoices(turns[t][i].choices)
        /\ \A t \in Stories : \A i, k \in DOMAIN turns[t] :
             turns[t][i].job \in Jobs /\ turns[t][i].job = turns[t][k].job => i = k
    BY <1>4 DEF TurnsInv
  <2>5. turns' = turns
    BY <1>3
  <2>6. \A t \in Stories : \A i \in DOMAIN turns[t] :
          turns[t][i].job \in Jobs => HasTurn(turns[t][i].job, t)'
    BY <2>2
  <2> QED
    BY <2>3, <2>4, <2>5, <2>6 DEF TurnsInv
<1>16. QaInv'
  <2>1. CASE n >= 1
    <3>1. qa'[s] = lines /\ \A t \in Stories : t # s => qa'[t] = qa[t]
      BY <1>3, <1>4, <2>1
    <3>2. ASSUME NEW k \in Jobs, NEW t \in Stories, HasLine(k, t) PROVE HasLine(k, t)'
      BY <1>1, <1>2, <1>13, <3>2 DEF HasLine, IsQuestion
    <3>3. HasLine(j, s)'
      BY <1>1, <1>13 DEF HasLine, IsQuestion
    <3>4. \A t \in Stories : \A i \in DOMAIN qa[t] : HasLine(qa[t][i].job, t) /\ qa[t][i].job \in Jobs
      <4>1. \A t \in Stories : \A i \in DOMAIN qa[t] : qa[t][i] \in Question
        BY <1>4
      <4> QED
        BY <1>4, <4>1 DEF QaInv, Question
    <3>5. ASSUME NEW t \in Stories, NEW i \in DOMAIN qa'[t]
          PROVE  \E k \in Jobs : k = qa'[t][i].job /\ HasLine(k, t)'
      <4>1. CASE i \in DOMAIN qa[t] /\ qa'[t][i] = qa[t][i]
        BY <3>2, <3>4, <4>1
      <4>2. CASE t = s /\ qa'[t][i].job = j
        BY <3>3, <4>2
      <4> QED
        BY <1>9, <3>1, <4>1, <4>2
    <3>6. ASSUME NEW t \in Stories, NEW i \in DOMAIN qa'[t], NEW k \in DOMAIN qa'[t],
                 qa'[t][i].job = qa'[t][k].job
          PROVE  i = k
      <4>1. CASE t = s
        BY <1>9, <3>1, <3>6, <4>1
      <4>2. CASE t # s
        BY <1>4, <3>1, <3>6, <4>2 DEF QaInv
      <4> QED
        BY <4>1, <4>2
    <3>7. ASSUME NEW i \in Jobs, jobs'[i].status = "completed", IsQuestion(i)'
          PROVE  \E k \in DOMAIN qa'[jobs'[i].story] :
                   qa'[jobs'[i].story][k].job = i /\ qa'[jobs'[i].story][k].answered
      <4>1. CASE i = j
        BY <1>5, <1>9, <1>13, <3>1, <4>1
      <4>2. CASE i # j
        <5>1. jobs'[i] = jobs[i] /\ IsQuestion(i)
          BY <1>13, <3>7, <4>2 DEF IsQuestion
        <5>2. PICK k \in DOMAIN qa[jobs[i].story] :
                qa[jobs[i].story][k].job = i /\ qa[jobs[i].story][k].answered
          BY <1>4, <3>7, <5>1 DEF QaInv
        <5>3. jobs[i].story \in Stories
          BY <1>4, <3>7, <5>1 DEF JobsInv
        <5>4. CASE jobs[i].story = s
          BY <1>9, <3>1, <5>1, <5>2, <5>4
        <5>5. CASE jobs[i].story # s
          BY <3>1, <5>1, <5>2, <5>3, <5>5
        <5> QED
          BY <5>4, <5>5
      <4> QED
        BY <4>1, <4>2
    <3> QED
      BY <3>5, <3>6, <3>7 DEF QaInv
  <2>2. CASE n < 1
    <3>1. qa' = qa /\ jobs' = jobs
      BY <1>3, <1>4, <2>2
    <3>2. \A i \in Jobs : Steady(i)
      BY <3>1 DEF Steady
    <3> QED
      BY <1>4, <3>1, <3>2, QaStays
  <2> QED
    BY <1>4, <2>1, <2>2
<1> QED
  BY <1>11, <1>12, <1>14, <1>15, <1>16 DEF GMInv

\* Generate: the job goes on to fail, or its answer is written up to its end
\* or up to the death of the server.
LEMMA GenerateIs ==
  ASSUME GMInv, Generate
  PROVE  /\ hand.stage = "generating" /\ UNCHANGED <<provider, holds>>
         /\ \/ \E raw \in BOOLEAN : GoFail(raw)
            \/ \E out \in Output, n \in 0..Writes : Valid(out) /\ ApplyOutput(out, n) /\ Ended
<1>1. hand.stage = "generating" /\ UNCHANGED <<provider, holds>>
  BY DEF Generate
<1>2. PICK a \in Answers, ok \in BOOLEAN :
        LET outcome == Generates(provider, ok, a.text, a.output) IN
        CASE outcome.error -> GoFail(outcome.raw)
          [] ~outcome.error /\ (~Valid(outcome.output) \/ ~MayWrite) -> GoFail(FALSE)
          [] OTHER ->
               \/ /\ ApplyOutput(outcome.output, Writes)
                  /\ hand' = Idle
                  /\ UNCHANGED <<lock, deaths>>
               \/ \E n \in 0..(Writes - 1) :
                    ApplyOutput(outcome.output, n) /\ DiesHolding(Story)
  BY DEF Generate
<1> DEFINE outcome == Generates(provider, ok, a.text, a.output)
<1>3. outcome.output \in Output /\ outcome.error \in BOOLEAN /\ outcome.raw \in BOOLEAN
  BY GMAssumption, OutcomeIs
<1> HIDE DEF outcome
<1>4. CASE outcome.error
  BY <1>1, <1>2, <1>3, <1>4 DEF outcome
<1>5. CASE ~outcome.error /\ (~Valid(outcome.output) \/ ~MayWrite)
  BY <1>1, <1>2, <1>5 DEF outcome
<1>6. CASE ~outcome.error /\ Valid(outcome.output) /\ MayWrite
  <2>1. \/ /\ ApplyOutput(outcome.output, Writes)
           /\ hand' = Idle
           /\ UNCHANGED <<lock, deaths>>
        \/ \E n \in 0..(Writes - 1) : ApplyOutput(outcome.output, n) /\ DiesHolding(Story)
    BY <1>2, <1>6 DEF outcome
  <2>2. Writes \in {2, 4}
    BY DEF Writes
  <2>3. lock \in [Stories -> {"free", "held", "dead"}] /\ deaths \in 0..MaxDeaths
    BY DEF GMInv, TypeOK
  <2>4. CASE ApplyOutput(outcome.output, Writes) /\ hand' = Idle /\ UNCHANGED <<lock, deaths>>
    <3>1. Writes \in 0..Writes
      BY <2>2
    <3>2. Ended
      BY <1>1, <2>3, <2>4 DEF Ended
    <3> QED
      BY <1>1, <1>3, <1>6, <2>4, <3>1, <3>2
  <2>5. ASSUME NEW n \in 0..(Writes - 1), ApplyOutput(outcome.output, n), DiesHolding(Story)
        PROVE  \E out \in Output, m \in 0..Writes : Valid(out) /\ ApplyOutput(out, m) /\ Ended
    <3>1. n \in 0..Writes
      BY <2>2
    <3>2. lock' \in [Stories -> {"free", "held", "dead"}] /\ deaths' \in 0..MaxDeaths /\ hand' = Idle
      <4>1. hand' = Idle /\ deaths < MaxDeaths /\ deaths' = deaths + 1
        BY <2>5 DEF DiesHolding
      <4>2. lock' = [lock EXCEPT ![Story] = "dead"]
        BY <2>5 DEF DiesHolding
      <4>3. lock' \in [Stories -> {"free", "held", "dead"}]
        BY <2>3, <4>2
      <4>4. deaths' \in 0..MaxDeaths
        BY <2>3, <4>1, GMAssumption
      <4> QED
        BY <4>1, <4>3, <4>4
    <3>3. Ended
      BY <1>1, <3>2 DEF Ended
    <3> QED
      BY <1>3, <1>6, <2>5, <3>1, <3>3
  <2> QED
    BY <1>1, <2>1, <2>4, <2>5
<1> QED
  BY <1>3, <1>4, <1>5, <1>6

LEMMA Generated ==
  ASSUME GMInv, Generate
  PROVE  GMInv'
<1>1. hand.stage = "generating" /\ UNCHANGED <<provider, holds>>
  BY GenerateIs
<1>2. ASSUME NEW raw \in BOOLEAN, GoFail(raw) PROVE GMInv'
  BY <1>1, <1>2, WentToFail
<1>3. ASSUME NEW out \in Output, NEW n \in 0..Writes, Valid(out), ApplyOutput(out, n), Ended
      PROVE  GMInv'
  <2>1. CASE IsQuestion(hand.job)
    <3>1. n \in 0..2 /\ ApplyAnswer(n)
      BY <1>3, <2>1 DEF Writes, ApplyOutput
    <3> QED
      BY <1>1, <1>3, <2>1, <3>1, AnswerApplied
  <2>2. CASE ~IsQuestion(hand.job)
    <3>1. n \in 0..4 /\ ApplyTurn(out, n) /\ ValidateGMOutput(out)
      BY <1>3, <2>2 DEF Writes, ApplyOutput, Valid
    <3> QED
      BY <1>1, <1>3, <2>2, <3>1, TurnApplied
  <2> QED
    BY <2>1, <2>2
<1> QED
  BY <1>2, <1>3, GenerateIs

----------------------------------------------------------------------------
(* Theorems *)

LEMMA GMInit == Init => GMInv
<1> SUFFICES ASSUME Init PROVE GMInv
  OBVIOUS
<1> DEFINE c == <<"A", "B", "C">>
           first == [job |-> None, choices |-> c, patch |-> NoPatch]
<1>1. c \in Seq(ChoiceIds) /\ FitChoices(c)
  BY AnswerAssumption DEF FitChoices
<1> HIDE DEF c
<1>2. first \in Turn /\ first.job = None /\ first.choices = c
  BY <1>1, BlankIs DEF Turn
<1> HIDE DEF first
<1>3. /\ \A s \in Stories : turns[s] = <<first>> /\ qa[s] = <<>>
      /\ turns \in [Stories -> Seq(Turn)] /\ qa \in [Stories -> Seq(Question)]
      /\ turns = [s \in Stories |-> <<first>>]
  <2>1. turns = [s \in Stories |-> <<first>>] /\ qa = [s \in Stories |-> <<>>]
    BY DEF Init, first, c
  <2>2. <<first>> \in Seq(Turn)
    BY <1>2
  <2>3. <<>> \in Seq(Question)
    OBVIOUS
  <2> QED
    BY <2>1, <2>2, <2>3
<1>4. order \in Seq(Stories) /\ Range(order) = Stories /\ Len(order) = Cardinality(Stories)
  <2>1. Cardinality(Stories) \in Nat
    BY GMAssumption, FS_CardinalityType
  <2>2. order \in [1..Cardinality(Stories) -> Stories] /\ Range(order) = Stories
    BY DEF Init
  <2> QED
    BY <2>1, <2>2
<1>5. /\ room \in [Stories -> [phase : Phases, active : Jobs \cup {None}]]
      /\ state \in [Stories -> StoryState]
      /\ jobs \in [Jobs -> Job] /\ (\A j \in Jobs : jobs[j] = NoFile /\ jobs[j].status = "absent")
      /\ lock \in [Stories -> {"free", "held", "dead"}]
      /\ hand \in [stage : {"idle", "picked", "generating", "failing"}, job : Jobs \cup {None}, raw : BOOLEAN]
      /\ provider \in Providers /\ holds \in 0..MaxHolds /\ deaths \in 0..MaxDeaths
      /\ hand = Idle /\ hand.stage = "idle"
  BY GMAssumption DEF Init, Phases, NoFile, Job, Idle
<1>6. TypeOK
  BY <1>3, <1>4, <1>5 DEF TypeOK
<1>7. HandInv /\ JobsInv
  BY <1>5 DEF HandInv, JobsInv
<1>8. TurnsInv
  BY <1>1, <1>2, <1>3, <1>5, GMAssumption DEF TurnsInv
<1>9. QaInv
  BY <1>3, <1>5 DEF QaInv
<1> QED
  BY <1>6, <1>7, <1>8, <1>9 DEF GMInv

LEMMA GMNext == GMInv /\ [Next]_vars => GMInv'
<1> SUFFICES ASSUME GMInv, [Next]_vars PROVE GMInv'
  OBVIOUS
<1>1. ASSUME NEW s \in Stories, SubmitStoryInput(s) \/ ResumeFailedJob(s) PROVE GMInv'
  BY <1>1, StoryTurnQueued
<1>2. ASSUME NEW s \in Stories, SubmitQuestion(s) PROVE GMInv'
  BY <1>2, QuestionSubmitted
<1>3. ASSUME NEW s \in Stories, CancelFailedJob(s) PROVE GMInv'
  BY <1>3, FailedJobCancelled
<1>4. ASSUME NEW s \in Stories, HoldLock(s) \/ LockFreed(s) PROVE GMInv'
  BY <1>4, LockHeldOrFreed
<1>5. CASE PickJob
  BY <1>5, JobPicked
<1>6. CASE MarkJobStarted
  BY <1>6, JobMarkedStarted
<1>7. CASE Generate
  BY <1>7, Generated
<1>8. CASE FailGMJob
  BY <1>8, JobFailed
<1>9. CASE Die
  BY <1>9, ServerDied
<1>10. CASE UNCHANGED vars
  BY <1>10 DEF vars, GMInv, TypeOK, HandInv, JobsInv, TurnsInv, QaInv, HasTurn, HasLine, IsQuestion
<1> QED
  BY <1>1, <1>2, <1>3, <1>4, <1>5, <1>6, <1>7, <1>8, <1>9, <1>10 DEF Next, WorkerStep

THEOREM GMInvariant == Spec => []GMInv
<1> QED
  BY GMInit, GMNext, PTL DEF Spec

THEOREM GMTypes == Spec => []TypeOK
<1>1. GMInv => TypeOK
  BY DEF GMInv
<1> QED
  BY <1>1, GMInvariant, PTL

LEMMA FitChoicesDiffer ==
  ASSUME NEW c \in Seq(ChoiceIds), FitChoices(c)
  PROVE  Cardinality(Range(c)) = Len(c)
<1> DEFINE n == Len(c)
<1>1. n \in Nat /\ DOMAIN c = 1..n
  OBVIOUS
<1>2. c \in Bijection(1..n, Range(c))
  <2>1. c \in [1..n -> Range(c)]
    BY <1>1 DEF Range
  <2>2. \A i, k \in 1..n : c[i] = c[k] => i = k
    BY <1>1 DEF FitChoices
  <2>3. \A x \in Range(c) : \E i \in 1..n : c[i] = x
    BY <1>1 DEF Range
  <2> HIDE DEF n
  <2> QED
    BY <2>1, <2>2, <2>3 DEF Bijection, Injection, Surjection, IsInjective
<1>3. IsFiniteSet(1..n) /\ Cardinality(1..n) = n
  BY <1>1, FS_Interval
<1> HIDE DEF n
<1>4. Cardinality(Range(c)) = n
  BY <1>2, <1>3, FS_Bijection DEF ExistsBijection
<1> QED
  BY <1>4 DEF n

\* A job that says it is completed is shown, wherever the server died.
THEOREM CompletedShown == Spec => []CompletedIsShown
<1>1. ASSUME GMInv, NEW j \in Jobs, jobs[j].status = "completed"
      PROVE  LET s == jobs[j].story
                 mine == {i \in DOMAIN turns[s] : turns[s][i].job = j}
                 lines == {i \in DOMAIN qa[s] : qa[s][i].job = j}
             IN IF IsQuestion(j)
                THEN Cardinality(lines) = 1 /\ \A i \in lines : qa[s][i].answered
                ELSE /\ Cardinality(mine) = 1
                     /\ \A i \in mine : LET c == turns[s][i].choices IN
                          Len(c) \in 3..4 /\ Cardinality(Range(c)) = Len(c)
  <2> DEFINE s == jobs[j].story
             mine == {i \in DOMAIN turns[s] : turns[s][i].job = j}
             lines == {i \in DOMAIN qa[s] : qa[s][i].job = j}
  <2>1. s \in Stories /\ TurnsInv /\ QaInv /\ turns \in [Stories -> Seq(Turn)]
    BY <1>1 DEF GMInv, JobsInv, TypeOK
  <2>2. CASE IsQuestion(j)
    <3>1. PICK k \in DOMAIN qa[s] : qa[s][k].job = j /\ qa[s][k].answered
      BY <1>1, <2>1, <2>2 DEF QaInv
    <3>2. lines = {k}
      BY <2>1, <3>1 DEF QaInv
    <3> QED
      BY <2>2, <3>1, <3>2, FS_Singleton
  <2>3. CASE ~IsQuestion(j)
    <3>1. PICK k \in DOMAIN turns[s] : turns[s][k].job = j
      BY <1>1, <2>1, <2>3 DEF TurnsInv
    <3>2. mine = {k}
      BY <2>1, <3>1 DEF TurnsInv
    <3>3. turns[s][k].choices \in Seq(ChoiceIds) /\ FitChoices(turns[s][k].choices)
      <4>1. turns[s] \in Seq(Turn)
        BY <2>1
      <4>2. turns[s][k] \in Turn
        BY <3>1, <4>1
      <4> QED
        BY <2>1, <4>2 DEF Turn, TurnsInv
    <3>4. LET c == turns[s][k].choices IN Len(c) \in 3..4 /\ Cardinality(Range(c)) = Len(c)
      BY <3>3, FitChoicesDiffer DEF FitChoices
    <3> QED
      BY <2>3, <3>2, <3>4, FS_Singleton
  <2> QED
    BY <2>2, <2>3
<1>2. GMInv => CompletedIsShown
  BY <1>1 DEF CompletedIsShown
<1> QED
  BY <1>2, GMInvariant, PTL

\* The state of a story changes with a turn, and as its patch says.
THEOREM PatchAsSaid == Spec => PatchHonoured
<1>1. ASSUME GMInv, Next, NEW s \in Stories, state'[s] # state[s]
      PROVE  AsPatched(s)
  <2>1. Generate
    BY <1>1 DEF Next, WorkerStep, SubmitStoryInput, SubmitQuestion, ResumeFailedJob, CancelFailedJob,
                HoldLock, LockFreed, PickJob, MarkJobStarted, FailGMJob, Die
  <2>2. PICK out \in Output, n \in 0..Writes : ApplyOutput(out, n)
    BY <1>1, <2>1, GenerateIs DEF GoFail
  <2>3. ~IsQuestion(hand.job) /\ ApplyTurn(out, n) /\ n \in 0..4
    BY <1>1, <2>2 DEF ApplyOutput, ApplyAnswer, Writes
  <2>4. turns \in [Stories -> Seq(Turn)] /\ state \in [Stories -> StoryState]
    BY <1>1 DEF GMInv, TypeOK
  <2>5. /\ n >= 3 /\ s = Story
        /\ state'[s] = ApplyGMStatePatch(state[s], out.patch)
        /\ turns' = [turns EXCEPT ![s] = Append(@, TurnOf(out))]
    <3>1. n >= 3 /\ state' = [state EXCEPT ![Story] = ApplyGMStatePatch(@, out.patch)]
      BY <1>1, <2>3 DEF ApplyTurn
    <3>2. s = Story
      BY <1>1, <2>4, <3>1
    <3>3. turns' = [turns EXCEPT ![Story] = Append(@, TurnOf(out))]
      <4>1. PICK lines, files \in BOOLEAN :
              /\ Written(n, lines, files)
              /\ turns' = IF lines THEN [turns EXCEPT ![Story] = Append(@, TurnOf(out))] ELSE turns
        BY <2>3 DEF ApplyTurn
      <4>2. lines
        <5>1. n >= 1
          BY <2>3, <3>1
        <5>2. lines = (n >= 1)
          BY <4>1 DEF Written
        <5> QED
          BY <5>1, <5>2
      <4> QED
        BY <4>1, <4>2
    <3> QED
      BY <2>4, <3>1, <3>2, <3>3
  <2>6. Last(turns'[s]).patch = out.patch
    <3>1. TurnOf(out).patch = out.patch
      BY DEF TurnOf
    <3>2. turns[s] \in Seq(Turn) /\ turns'[s] = Append(turns[s], TurnOf(out))
      BY <2>4, <2>5
    <3>3. Last(turns'[s]) = TurnOf(out)
      BY <3>2 DEF Last
    <3> QED
      BY <3>1, <3>3
  <2>7. state[s] \in StoryState /\ out.patch \in StatePatch
    BY <2>4 DEF Output
  <2> DEFINE p == out.patch
             facts == (Kept(state[s].facts) \cup Kept(p.revealed)) \ Kept(p.remove)
             threads == Kept(state[s].threads) \ Kept(p.remove)
  <2>8. /\ Range(state'[s].facts) = facts \cup Kept(p.add)
        /\ Range(state'[s].threads) = threads \cup Kept(p.add)
        /\ Len(state'[s].facts) = Cardinality(Range(state'[s].facts))
        /\ Len(state'[s].threads) = Cardinality(Range(state'[s].threads))
    BY <2>5, <2>7, PatchedState
  <2> QED
    BY <2>6, <2>8 DEF AsPatched
<1>2. GMInv /\ [Next]_vars => [\A s \in Stories : state'[s] # state[s] => AsPatched(s)]_vars
  BY <1>1
<1> QED
  BY <1>2, GMInvariant, PTL DEF Spec, PatchHonoured
=============================================================================
