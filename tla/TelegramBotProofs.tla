------------------------- MODULE TelegramBotProofs -------------------------
(***************************************************************************)
(* Proofs about TelegramBot, for any number of chats, packs, messages and  *)
(* deaths: its types, that an update is dealt with once by a bot that      *)
(* lives, and that no idea is lost or overwritten.                         *)
(***************************************************************************)
EXTENDS TelegramBot, FiniteSetTheorems, TLAPS

----------------------------------------------------------------------------
(* The inductive invariant *)

\* Below the update that this life of the bot deals with next.
Passed(i) ==
  IF current # None THEN i < current
  ELSE IF batch # <<>> THEN i < batch[1]
  ELSE i < offset \/ i < forgotten

\* A poll begins where the bot or Telegram stands, and the offset follows.
PlaceInv ==
  /\ Len(updates) <= MaxUpdates
  /\ batch # <<>> => /\ offset <= batch[1] /\ forgotten <= batch[1]
                     /\ batch[1] \in {offset, forgotten}
  /\ current # None => offset = current + 1 /\ forgotten <= current

CountInv ==
  \A i \in Ids : handled[i] <= 1 + deaths /\ (~Passed(i) => handled[i] <= deaths)

\* What the offset has left behind was dealt with; what was not sent was not.
DealtInv ==
  \A i \in Ids : /\ (i < forgotten \/ i < offset) /\ i # current => handled[i] > 0
                 /\ i > Len(updates) => handled[i] = 0

Saved(i) ==
  \/ i \in failed
  \/ LET m == updates[i]
         there == inbox[m.text.pack] IN
     m.text.word \in {there[<<m.id, None>>], there[<<m.id, m.text.word>>]}

SavedInv ==
  \A i \in Sent : Heard(i) /\ updates[i].text.kind = "idea" /\ handled[i] > 0 => Saved(i)

BotInv == TypeOK /\ PlaceInv /\ CountInv /\ DealtInv /\ SavedInv

----------------------------------------------------------------------------
(* Types *)

\* The number of a message in its chat is at most its place among all.
LEMMA NumberIsId ==
  ASSUME NEW s, NEW n \in Nat, s \subseteq 1..n
  PROVE  Cardinality(s) \in 0..n
<1>1. IsFiniteSet(1..n) /\ Cardinality(1..n) = n
  BY FS_Interval
<1>2. IsFiniteSet(s) /\ Cardinality(s) <= n
  BY <1>1, FS_Subset
<1> QED
  BY <1>2, FS_CardinalityType

LEMMA InitType == Init => TypeOK
<1> SUFFICES ASSUME Init PROVE TypeOK
  OBVIOUS
<1> QED
  BY TelegramAssumption DEF Init, TypeOK, Sent

LEMMA SendType ==
  ASSUME TypeOK, NEW c \in Chats, NEW t \in Text, Send(c, t)
  PROVE  TypeOK'
<1> DEFINE before == {i \in Sent : updates[i].chat = c}
           m == [chat |-> c, id |-> Cardinality(before) + 1, text |-> t]
<1>1. Len(updates) \in Nat /\ Len(updates) < MaxUpdates /\ updates' = Append(updates, m)
  BY DEF Send, TypeOK
<1>2. Cardinality(before) \in 0..Len(updates)
  BY <1>1, NumberIsId DEF Sent
<1>3. m \in Message
  BY <1>1, <1>2, TelegramAssumption DEF Message
<1> HIDE DEF m
<1>4. updates' \in Seq(Message) /\ Len(updates') = Len(updates) + 1
  BY <1>1, <1>3 DEF TypeOK
<1>5. Sent \subseteq Sent'
  BY <1>1, <1>4 DEF Sent
<1>6. batch \in Seq(Sent')
  BY <1>5 DEF TypeOK
<1> QED
  BY <1>1, <1>4, <1>5, <1>6 DEF TypeOK, Send, bot, disk

LEMMA ConfirmType ==
  ASSUME TypeOK, Confirm
  PROVE  forgotten' \in 1..(Len(updates) + 1)
BY DEF TypeOK, Confirm

LEMMA PlaceInBatch ==
  ASSUME NEW f \in Nat, NEW k \in Nat, NEW n \in Nat,
         f >= 1, f <= n + 1, k >= 1, k <= n + 1 - f
  PROVE  f + k - 1 \in 1..n
OBVIOUS

LEMMA PollType == TypeOK /\ Poll => TypeOK'
<1> SUFFICES ASSUME TypeOK, Poll PROVE TypeOK'
  OBVIOUS
<1>1. forgotten' \in 1..(Len(updates) + 1) /\ Len(updates) \in Nat
  BY ConfirmType DEF Poll, TypeOK
<1> DEFINE n == Len(updates) + 1 - forgotten'
<1>2. n \in Nat /\ batch' = [k \in 1..n |-> forgotten' + k - 1]
  BY <1>1 DEF Poll
<1>3. ASSUME NEW k \in 1..n PROVE forgotten' + k - 1 \in Sent
  <2>1. k \in Nat /\ k >= 1 /\ k <= Len(updates) + 1 - forgotten'
    BY <1>2, <1>3
  <2>2. forgotten' \in Nat /\ forgotten' >= 1 /\ forgotten' <= Len(updates) + 1
    BY <1>1
  <2> QED
    BY <1>1, <2>1, <2>2, PlaceInBatch DEF Sent
<1>4. batch' \in Seq(Sent) /\ Len(batch') = n
  BY <1>2, <1>3
<1>5. \A k \in 1..Len(batch') : batch'[k] = batch'[1] + k - 1
  BY <1>1, <1>2, <1>4
<1> QED
  BY <1>1, <1>4, <1>5 DEF TypeOK, Poll, disk, Sent

LEMMA PollFailsType == TypeOK /\ PollFails => TypeOK'
BY ConfirmType DEF TypeOK, PollFails, bot, disk, Sent

\* The head of a batch and what is left of it.
LEMMA TailOfBatch ==
  ASSUME TypeOK, batch # <<>>
  PROVE  /\ batch[1] \in Sent /\ Head(batch) = batch[1]
         /\ Tail(batch) \in Seq(Sent)
         /\ \A k \in 1..Len(Tail(batch)) : Tail(batch)[k] = Tail(batch)[1] + k - 1
         /\ Tail(batch) # <<>> => Tail(batch)[1] = batch[1] + 1
<1>1. batch \in Seq(Sent) /\ Len(batch) \in Nat /\ Len(batch) >= 1
  BY DEF TypeOK
<1>2. /\ Tail(batch) \in Seq(Sent) /\ Len(Tail(batch)) = Len(batch) - 1
      /\ \A k \in 1..Len(Tail(batch)) : Tail(batch)[k] = batch[k + 1]
  BY <1>1
<1>3. batch[1] \in Sent /\ Head(batch) = batch[1]
  BY <1>1
<1>4. \A k \in 1..Len(batch) : batch[k] = batch[1] + k - 1
  BY DEF TypeOK
<1>5. batch[1] \in Nat
  BY <1>3 DEF Sent
<1>6. \A k \in 1..Len(Tail(batch)) : Tail(batch)[k] = batch[1] + k
  BY <1>1, <1>2, <1>4, <1>5
<1>7. \A k \in 1..Len(Tail(batch)) : Tail(batch)[k] = Tail(batch)[1] + k - 1
  BY <1>1, <1>2, <1>5, <1>6
<1>8. Tail(batch) # <<>> => Tail(batch)[1] = batch[1] + 1
  BY <1>2, <1>1, <1>5, <1>6
<1> QED
  BY <1>2, <1>3, <1>7, <1>8

LEMMA TakeUpdateType == TypeOK /\ TakeUpdate => TypeOK'
<1> SUFFICES ASSUME TypeOK, TakeUpdate PROVE TypeOK'
  OBVIOUS
<1>1. batch # <<>> /\ offset' = batch[1] + 1 /\ batch' = Tail(batch)
      /\ current' \in {batch[1], None}
  BY TailOfBatch DEF TakeUpdate, After
<1>2. batch[1] \in 1..Len(updates) /\ Len(updates) \in Nat
  BY <1>1, TailOfBatch DEF Sent, TypeOK
<1>3. offset' \in 0..(Len(updates) + 1) /\ current' \in Sent \cup {None}
  BY <1>1, <1>2 DEF Sent
<1>4. handled' \in [Ids -> Nat]
  <2>1. handled \in [Ids -> Nat]
    BY DEF TypeOK
  <2>2. handled' = handled \/ \E i : handled' = [handled EXCEPT ![i] = @ + 1]
    BY DEF TakeUpdate
  <2> QED
    BY <2>1, <2>2
<1> QED
  BY <1>1, <1>3, <1>4, TailOfBatch DEF TypeOK, TakeUpdate, Sent

\* The pack of an idea, and the name it is saved under.
LEMMA IdeaHasName ==
  ASSUME TypeOK, NEW i \in Sent, updates[i].text.kind = "idea"
  PROVE  /\ updates[i].text.pack \in Packs /\ updates[i].text.word \in Words
         /\ updates[i].id \in Ids
         /\ IdeaName(updates[i]) \in Name
<1>1. updates[i] \in Message
  BY DEF TypeOK, Sent
<1>2. updates[i].text \in [kind : {"idea"}, pack : Packs, word : Words]
  BY <1>1 DEF Message, Text
<1>3. updates[i].id \in Ids
  BY <1>1 DEF Message, Ids
<1> QED
  BY <1>2, <1>3 DEF IdeaName, Name

LEMMA HandleType == TypeOK /\ Handle => TypeOK'
<1> SUFFICES ASSUME TypeOK, Handle PROVE TypeOK'
  OBVIOUS
<1>1. current \in Sent
  BY DEF Handle, TypeOK
<1>2. inbox \in [Packs -> [Name -> Words \cup {None}]] /\ handled \in [Ids -> Nat]
      /\ failed \subseteq Sent
  BY DEF TypeOK
<1>3. inbox' \in [Packs -> [Name -> Words \cup {None}]]
  <2>1. CASE inbox' = inbox
    BY <1>2, <2>1
  <2>2. CASE inbox' # inbox
    <3> DEFINE m == updates[current]
    <3>1. m.text.kind = "idea"
          /\ inbox' = [inbox EXCEPT ![m.text.pack][IdeaName(m)] = m.text.word]
      BY <2>2 DEF Handle
    <3>2. m.text.pack \in Packs /\ m.text.word \in Words
      BY <1>1, <3>1, IdeaHasName
    <3> HIDE DEF m
    <3> QED
      BY <1>2, <3>1, <3>2
  <2> QED
    BY <2>1, <2>2
<1>4. handled' = [handled EXCEPT ![current] = @ + 1]
      /\ (failed' = failed \/ failed' = failed \cup {current})
  BY DEF Handle
<1>5. handled' \in [Ids -> Nat]
  <2>1. \A i \in Ids : handled[i] \in Nat /\ handled[i] + 1 \in Nat
    BY <1>2
  <2>2. handled \in [Ids -> Nat] /\ handled' = [handled EXCEPT ![current] = handled[current] + 1]
    BY <1>2, <1>4
  <2> QED
    BY <2>1, <2>2
<1>6. failed' \subseteq Sent
  BY <1>1, <1>2, <1>4
<1> QED
  BY <1>3, <1>5, <1>6 DEF TypeOK, Handle, Sent

LEMMA DieType == TypeOK /\ Die => TypeOK'
<1> SUFFICES ASSUME TypeOK, Die PROVE TypeOK'
  OBVIOUS
<1>1. Len(updates) \in Nat
  BY DEF TypeOK
<1>2. deaths' \in 0..MaxDeaths
  BY TelegramAssumption DEF TypeOK, Die
<1> QED
  BY <1>1, <1>2 DEF TypeOK, Die, disk, Sent

LEMMA NextType == TypeOK /\ [Next]_vars => TypeOK'
<1> SUFFICES ASSUME TypeOK, [Next]_vars PROVE TypeOK'
  OBVIOUS
<1>1. CASE \E c \in Chats, t \in Text : Send(c, t)
  BY <1>1, SendType
<1>2. CASE Poll
  BY <1>2, PollType
<1>3. CASE PollFails
  BY <1>3, PollFailsType
<1>4. CASE TakeUpdate
  BY <1>4, TakeUpdateType
<1>5. CASE Handle
  BY <1>5, HandleType
<1>6. CASE Die
  BY <1>6, DieType
<1>7. CASE UNCHANGED vars
  BY <1>7 DEF TypeOK, vars, bot, disk, Sent
<1> QED
  BY <1>1, <1>2, <1>3, <1>4, <1>5, <1>6, <1>7 DEF Next

----------------------------------------------------------------------------
(* Steps *)

\* Counters are numbers, and what was sent has an id.
LEMMA Numbers ==
  ASSUME TypeOK, PlaceInv
  PROVE  /\ offset \in Nat /\ forgotten \in Nat /\ deaths \in Nat /\ MaxUpdates \in Nat
         /\ Len(updates) \in Nat /\ Sent \subseteq Ids /\ None \notin Ids
         /\ Ids \subseteq Nat
         /\ \A i \in Ids : handled[i] \in Nat
         /\ current # None => current \in Sent /\ current \in Nat
<1>1. Len(updates) \in Nat /\ MaxUpdates \in Nat /\ Len(updates) <= MaxUpdates
  BY TelegramAssumption DEF TypeOK, PlaceInv
<1>2. Sent \subseteq Ids /\ Ids \subseteq Nat
  BY <1>1 DEF Sent, Ids
<1>3. offset \in Nat /\ forgotten \in Nat /\ deaths \in Nat
  BY <1>1, TelegramAssumption DEF TypeOK
<1>4. \A i \in Ids : handled[i] \in Nat
  BY DEF TypeOK
<1>5. current # None => current \in Sent
  BY DEF TypeOK
<1> QED
  BY <1>1, <1>2, <1>3, <1>4, <1>5, TelegramAssumption DEF Ids

LEMMA InitInv == Init => BotInv
<1> SUFFICES ASSUME Init PROVE BotInv
  OBVIOUS
<1>1. TypeOK
  BY InitType
<1>2. Len(updates) = 0 /\ Sent = {} /\ MaxUpdates \in Nat /\ Ids \subseteq Nat \ {0}
  BY TelegramAssumption DEF Init, Sent, Ids
<1>3. \A i \in Ids : handled[i] = 0
  BY DEF Init
<1>4. PlaceInv
  BY <1>2 DEF Init, PlaceInv
<1>5. CountInv
  BY <1>2, <1>3 DEF Init, CountInv
<1>6. DealtInv
  <2>1. offset = 0 /\ forgotten = 1
    BY DEF Init
  <2> QED
    BY <1>2, <1>3, <2>1 DEF DealtInv
<1>7. SavedInv
  BY <1>2 DEF SavedInv
<1> QED
  BY <1>1, <1>4, <1>5, <1>6, <1>7 DEF BotInv

\* What was sent stays as it is; what is new was not dealt with.
LEMMA SendInv ==
  ASSUME BotInv, NEW c \in Chats, NEW t \in Text, Send(c, t)
  PROVE  (PlaceInv /\ CountInv /\ DealtInv /\ SavedInv)'
<1> USE DEF BotInv
<1>1. /\ Len(updates) < MaxUpdates /\ Len(updates') = Len(updates) + 1
      /\ \A i \in Sent : updates'[i] = updates[i]
  BY DEF Send, TypeOK, Sent
<1>2. Sent' = Sent \cup {Len(updates) + 1} /\ Len(updates) + 1 \in Ids
  BY <1>1, Numbers DEF Sent, Ids
<1>3. UNCHANGED <<forgotten, allowedChat, offset, batch, current, inbox, handled, failed, deaths>>
  BY DEF Send, bot, disk
<1>4. PlaceInv'
  BY <1>1, <1>3, Numbers DEF PlaceInv
<1>5. CountInv'
  BY <1>3 DEF CountInv, Passed
<1>6. DealtInv'
  <2>1. \A i \in Ids : i > Len(updates') => i > Len(updates)
    BY <1>1, Numbers
  <2> QED
    BY <1>3, <2>1 DEF DealtInv
<1>7. SavedInv'
  <2>1. handled'[Len(updates) + 1] = 0
    BY <1>2, <1>3, Numbers DEF DealtInv
  <2> SUFFICES ASSUME NEW i \in Sent', Heard(i)', updates'[i].text.kind = "idea", handled'[i] > 0
               PROVE  Saved(i)'
    BY DEF SavedInv
  <2>2. i \in Sent
    BY <1>2, <2>1
  <2>3. Saved(i)
    BY <1>1, <1>3, <2>2 DEF SavedInv, Heard
  <2> QED
    BY <1>1, <1>3, <2>2, <2>3 DEF Saved
<1> QED
  BY <1>4, <1>5, <1>6, <1>7

\* A confirmation goes to where the bot or Telegram stands.
LEMMA Confirmed ==
  ASSUME TypeOK, PlaceInv, Confirm
  PROVE  /\ forgotten' \in Nat /\ forgotten' >= offset
         /\ \A i \in Nat : i < forgotten' <=> (i < offset \/ i < forgotten)
BY Numbers DEF Confirm

LEMMA PollInv ==
  ASSUME BotInv, Poll
  PROVE  (PlaceInv /\ CountInv /\ DealtInv /\ SavedInv)'
<1> USE DEF BotInv
<1>1. /\ forgotten' \in Nat /\ forgotten' >= offset
      /\ \A i \in Nat : i < forgotten' <=> (i < offset \/ i < forgotten)
  BY Confirmed DEF Poll
<1>2. batch = <<>> /\ current = None /\ current' = None
      /\ UNCHANGED <<updates, allowedChat, offset, inbox, handled, failed, deaths>>
  BY DEF Poll, Idle, disk
<1>3. batch' # <<>> => batch'[1] = forgotten'
  <2> DEFINE n == Len(updates) + 1 - forgotten'
  <2>1. batch' = [k \in 1..n |-> forgotten' + k - 1]
    BY DEF Poll
  <2>2. n \in Int
    BY <1>1, Numbers
  <2>3. n >= 1 => batch'[1] = forgotten'
    <3> SUFFICES ASSUME n >= 1 PROVE batch'[1] = forgotten'
      OBVIOUS
    <3>1. 1 \in 1..n
      BY <2>2
    <3>2. batch'[1] = forgotten' + 1 - 1
      BY <2>1, <3>1
    <3>3. forgotten' \in Nat
      BY <1>1
    <3>4. \A f \in Nat : f + 1 - 1 = f
      OBVIOUS
    <3> QED
      BY <3>2, <3>3, <3>4, Zenon
  <2>4. n < 1 => batch' = <<>>
    BY <2>1, <2>2
  <2> QED
    BY <2>2, <2>3, <2>4
<1>4. PlaceInv'
  BY <1>1, <1>2, <1>3, Numbers DEF PlaceInv
<1>5. \A i \in Ids : Passed(i)' <=> Passed(i)
  <2> TAKE i \in Ids
  <2>1. i \in Nat
    BY Numbers
  <2>2. Passed(i) <=> i < forgotten'
    BY <1>1, <1>2, <2>1 DEF Passed
  <2>3. Passed(i)' <=> i < forgotten'
    BY <1>1, <1>2, <1>3, <2>1 DEF Passed
  <2> QED
    BY <2>2, <2>3
<1>6. CountInv'
  BY <1>2, <1>5 DEF CountInv
<1>7. DealtInv'
  BY <1>1, <1>2, Numbers DEF DealtInv
<1>8. SavedInv'
  BY <1>2 DEF SavedInv, Saved, Heard, Sent
<1> QED
  BY <1>4, <1>6, <1>7, <1>8

LEMMA PollFailsInv ==
  ASSUME BotInv, PollFails
  PROVE  (PlaceInv /\ CountInv /\ DealtInv /\ SavedInv)'
<1> USE DEF BotInv
<1>1. /\ forgotten' \in Nat /\ forgotten' >= offset
      /\ \A i \in Nat : i < forgotten' <=> (i < offset \/ i < forgotten)
  BY Confirmed DEF PollFails
<1>2. batch = <<>> /\ current = None
      /\ UNCHANGED <<updates, allowedChat, offset, batch, current, inbox, handled, failed, deaths>>
  BY DEF PollFails, Idle, bot, disk
<1>3. PlaceInv'
  BY <1>2 DEF PlaceInv
<1>4. \A i \in Ids : Passed(i)' <=> Passed(i)
  BY <1>1, <1>2, Numbers DEF Passed
<1>5. CountInv'
  BY <1>2, <1>4 DEF CountInv
<1>6. DealtInv'
  BY <1>1, <1>2, Numbers DEF DealtInv
<1>7. SavedInv'
  BY <1>2 DEF SavedInv, Saved, Heard, Sent
<1> QED
  BY <1>3, <1>5, <1>6, <1>7

\* All before the head of a batch lies behind the offset or is forgotten.
LEMMA HeadIsNext ==
  ASSUME TypeOK, PlaceInv, batch # <<>>
  PROVE  /\ batch[1] \in Nat
         /\ \A i \in Ids : i < batch[1] => i < offset \/ i < forgotten
<1>1. batch[1] \in Nat
  BY TailOfBatch, Numbers
<1> QED
  BY <1>1, Numbers DEF PlaceInv

\* The update at the head becomes the current one, or is passed by and counts.
LEMMA TakeUpdateInv ==
  ASSUME BotInv, TakeUpdate
  PROVE  (PlaceInv /\ CountInv /\ DealtInv /\ SavedInv)'
<1> USE DEF BotInv
<1> DEFINE h == batch[1]
<1>1. /\ batch # <<>> /\ current = None /\ h \in Sent
      /\ offset' = h + 1 /\ batch' = Tail(batch)
      /\ batch' # <<>> => batch'[1] = h + 1
      /\ UNCHANGED <<updates, forgotten, allowedChat, inbox, failed, deaths>>
  BY TailOfBatch DEF TakeUpdate, After
<1>2. h \in Ids /\ h \in Nat /\ offset <= h /\ forgotten <= h
  BY <1>1, Numbers DEF PlaceInv
<1>3. \/ Heard(h) /\ current' = h /\ handled' = handled
      \/ ~Heard(h) /\ current' = None /\ handled' = [handled EXCEPT ![h] = @ + 1]
  BY <1>1, TailOfBatch DEF TakeUpdate, Heard
<1>4. \A i \in Ids : Passed(i) <=> i < h
  BY <1>1 DEF Passed
<1>5. PlaceInv'
  BY <1>1, <1>2, <1>3, Numbers DEF PlaceInv
<1> HIDE DEF h
<1>6. CASE Heard(h) /\ current' = h /\ handled' = handled
  <2>1. \A i \in Ids : Passed(i)' <=> i < h
    BY <1>2, <1>6, Numbers DEF Passed
  <2>2. CountInv'
    BY <1>1, <1>4, <1>6, <2>1 DEF CountInv
  <2>3. DealtInv'
    <3>1. \A i \in Ids : (i < forgotten \/ i < h + 1) /\ i # h => i < offset \/ i < forgotten
      BY <1>1, <1>2, Numbers, HeadIsNext DEF h
    <3> QED
      BY <1>1, <1>6, <3>1, Numbers DEF DealtInv
  <2>4. SavedInv'
    BY <1>1, <1>6 DEF SavedInv, Saved, Heard, Sent
  <2> QED
    BY <1>5, <2>2, <2>3, <2>4
<1>7. CASE ~Heard(h) /\ current' = None /\ handled' = [handled EXCEPT ![h] = @ + 1]
  <2>1. handled'[h] = handled[h] + 1 /\ \A i \in Ids \ {h} : handled'[i] = handled[i]
    BY <1>2, <1>7 DEF TypeOK
  <2>2. \A i \in Ids : Passed(i)' <=> i < h + 1
    BY <1>1, <1>2, <1>7, Numbers DEF Passed
  <2>3. CountInv'
    <3> SUFFICES ASSUME NEW i \in Ids
                 PROVE  handled'[i] <= 1 + deaths /\ (~(i < h + 1) => handled'[i] <= deaths)
      BY <1>1, <2>2 DEF CountInv
    <3>1. handled[i] <= 1 + deaths /\ (~(i < h) => handled[i] <= deaths)
      BY <1>4 DEF CountInv
    <3> QED
      BY <1>2, <2>1, <3>1, Numbers
  <2>4. DealtInv'
    <3>1. \A i \in Ids : (i < forgotten \/ i < h + 1) /\ i # h => i < offset \/ i < forgotten
      BY <1>1, <1>2, Numbers, HeadIsNext DEF h
    <3>2. handled'[h] > 0
      BY <1>2, <2>1, Numbers
    <3>3. ~(h > Len(updates))
      BY <1>1, Numbers DEF Sent
    <3> QED
      BY <1>1, <2>1, <3>1, <3>2, <3>3, Numbers DEF DealtInv
  <2>5. SavedInv'
    <3> SUFFICES ASSUME NEW i \in Sent, Heard(i), updates[i].text.kind = "idea", handled'[i] > 0
                 PROVE  Saved(i)
      BY <1>1 DEF SavedInv, Saved, Heard, Sent
    <3>1. handled[i] > 0
      BY <1>7, <2>1, Numbers
    <3> QED
      BY <3>1 DEF SavedInv
  <2> QED
    BY <1>5, <2>3, <2>4, <2>5
<1> QED
  BY <1>3, <1>6, <1>7

\* A name that is taken is not used for another text.
LEMMA InboxKeeps ==
  ASSUME TypeOK, NEW i \in Sent, NEW c \in Sent,
         updates[i].text.kind = "idea", updates[c].text.kind = "idea",
         Saved(i),
         inbox' = [inbox EXCEPT ![updates[c].text.pack][IdeaName(updates[c])] = updates[c].text.word],
         UNCHANGED <<updates, failed>>
  PROVE  Saved(i)'
<1> DEFINE p == updates[c].text.pack  w == updates[c].text.word  N == IdeaName(updates[c])
           q == updates[i].text.pack  v == updates[i].text.word
           plain == <<updates[i].id, None>>  hashed == <<updates[i].id, v>>
<1>1. /\ p \in Packs /\ w \in Words /\ N \in Name /\ q \in Packs /\ v \in Words
      /\ plain \in Name /\ hashed \in Name /\ None \notin Words
  BY IdeaHasName, TelegramAssumption DEF Name
<1>2. inbox \in [Packs -> [Name -> Words \cup {None}]]
  BY DEF TypeOK
<1>3. N = <<updates[c].id, IF inbox[p][<<updates[c].id, None>>] = None THEN None ELSE w>>
  BY DEF IdeaName
<1> HIDE DEF p, w, N, q, v
<1>4. \A n \in Name : inbox'[q][n] = IF q = p /\ n = N THEN w ELSE inbox[q][n]
  BY <1>1, <1>2 DEF p, w, N
<1>5. CASE i \in failed
  BY <1>5 DEF Saved
<1>6. CASE inbox[q][plain] = v
  <2>1. ~(q = p /\ plain = N)
    BY <1>1, <1>3, <1>6
  <2>2. inbox'[q][plain] = v
    BY <1>1, <1>4, <1>6, <2>1
  <2> QED
    BY <2>2 DEF Saved, q, v
<1>7. CASE inbox[q][hashed] = v
  <2>1. q = p /\ hashed = N => w = v
    BY <1>1, <1>3
  <2>2. inbox'[q][hashed] = v
    BY <1>1, <1>4, <1>7, <2>1
  <2> QED
    BY <2>2 DEF Saved, q, v
<1> QED
  BY <1>5, <1>6, <1>7 DEF Saved, q, v

\* An idea that is handled is in the inbox, or its sender was told.
LEMMA HandledIsSaved ==
  ASSUME TypeOK, Handle, NEW c \in Sent, c = current, updates[c].text.kind = "idea"
  PROVE  Saved(c)'
<1> DEFINE m == updates[c]
<1>1. c \in Sent /\ updates' = updates
  BY DEF Handle, TypeOK
<1>2. CASE failed' = failed \cup {c}
  BY <1>2 DEF Saved
<1>3. CASE inbox' = [inbox EXCEPT ![m.text.pack][IdeaName(m)] = m.text.word]
  <2>1. m.text.pack \in Packs /\ m.text.word \in Words /\ IdeaName(m) \in Name
    BY <1>1, IdeaHasName
  <2>2. inbox'[m.text.pack][IdeaName(m)] = m.text.word
    BY <1>3, <2>1 DEF TypeOK
  <2>3. IdeaName(m) \in {<<m.id, None>>, <<m.id, m.text.word>>}
    BY DEF IdeaName
  <2> QED
    BY <1>1, <2>2, <2>3 DEF Saved
<1> QED
  BY <1>2, <1>3 DEF Handle

LEMMA HandleInv ==
  ASSUME BotInv, Handle
  PROVE  (PlaceInv /\ CountInv /\ DealtInv /\ SavedInv)'
<1> USE DEF BotInv
<1> DEFINE c == current
<1>1. /\ c # None /\ current' = None
      /\ UNCHANGED <<updates, forgotten, allowedChat, offset, batch, deaths>>
      /\ handled' = [handled EXCEPT ![c] = @ + 1]
  BY DEF Handle
<1>2. c \in Sent /\ c \in Ids /\ c \in Nat /\ offset = c + 1 /\ forgotten <= c
  BY <1>1, Numbers DEF PlaceInv
<1>3. handled'[c] = handled[c] + 1 /\ \A i \in Ids \ {c} : handled'[i] = handled[i]
  BY <1>1, <1>2 DEF TypeOK
<1>4. PlaceInv'
  BY <1>1 DEF PlaceInv
<1>5. batch # <<>> => batch[1] = c + 1
  BY <1>2, Numbers DEF PlaceInv
<1>6. \A i \in Ids : (Passed(i) <=> i < c) /\ (Passed(i)' <=> i < c + 1)
  BY <1>1, <1>2, <1>5, Numbers DEF Passed
<1>7. CountInv'
  <2> SUFFICES ASSUME NEW i \in Ids
               PROVE  handled'[i] <= 1 + deaths /\ (~(i < c + 1) => handled'[i] <= deaths)
    BY <1>1, <1>6 DEF CountInv
  <2>1. handled[i] <= 1 + deaths /\ (~(i < c) => handled[i] <= deaths)
    BY <1>6 DEF CountInv
  <2> QED
    BY <1>2, <1>3, <2>1, Numbers
<1>8. DealtInv'
  <2>1. handled'[c] > 0
    BY <1>2, <1>3, Numbers
  <2>2. ~(c > Len(updates))
    BY <1>2, Numbers DEF Sent
  <2> QED
    BY <1>1, <1>3, <2>1, <2>2, Numbers DEF DealtInv
<1>9. SavedInv'
  <2> SUFFICES ASSUME NEW i \in Sent, Heard(i), updates[i].text.kind = "idea", handled'[i] > 0
               PROVE  Saved(i)'
    BY <1>1 DEF SavedInv, Heard, Sent
  <2>1. CASE i = c
    BY <2>1, HandledIsSaved
  <2>2. CASE i # c
    <3>1. Saved(i)
      BY <1>3, <2>2, Numbers DEF SavedInv
    <3>2. CASE inbox' = inbox /\ failed \subseteq failed'
      BY <1>1, <3>1, <3>2 DEF Saved
    <3>3. CASE /\ updates[c].text.kind = "idea" /\ failed' = failed
               /\ inbox' = [inbox EXCEPT ![updates[c].text.pack][IdeaName(updates[c])]
                                            = updates[c].text.word]
      BY <1>1, <1>2, <3>1, <3>3, InboxKeeps
    <3> QED
      BY <3>2, <3>3 DEF Handle
  <2> QED
    BY <2>1, <2>2
<1> QED
  BY <1>4, <1>7, <1>8, <1>9

\* A new life may deal with everything once more.
LEMMA DieInv ==
  ASSUME BotInv, Die
  PROVE  (PlaceInv /\ CountInv /\ DealtInv /\ SavedInv)'
<1> USE DEF BotInv
<1>1. /\ deaths' = deaths + 1 /\ offset' = 0 /\ batch' = <<>> /\ current' = None
      /\ UNCHANGED <<updates, forgotten, allowedChat, inbox, handled, failed>>
  BY DEF Die, disk
<1>2. PlaceInv'
  BY <1>1 DEF PlaceInv
<1>3. CountInv'
  BY <1>1, Numbers DEF CountInv
<1>4. DealtInv'
  <2>1. \A i \in Ids : i < forgotten => i # current
    BY Numbers DEF PlaceInv
  <2> QED
    BY <1>1, <2>1, Numbers DEF DealtInv
<1>5. SavedInv'
  BY <1>1 DEF SavedInv, Saved, Heard, Sent
<1> QED
  BY <1>2, <1>3, <1>4, <1>5

LEMMA NextInv == BotInv /\ [Next]_vars => BotInv'
<1> SUFFICES ASSUME BotInv, [Next]_vars PROVE (PlaceInv /\ CountInv /\ DealtInv /\ SavedInv)'
  BY NextType DEF BotInv
<1>1. CASE \E c \in Chats, t \in Text : Send(c, t)
  BY <1>1, SendInv
<1>2. CASE Poll
  BY <1>2, PollInv
<1>3. CASE PollFails
  BY <1>3, PollFailsInv
<1>4. CASE TakeUpdate
  BY <1>4, TakeUpdateInv
<1>5. CASE Handle
  BY <1>5, HandleInv
<1>6. CASE Die
  BY <1>6, DieInv
<1>7. CASE UNCHANGED vars
  BY <1>7 DEF BotInv, PlaceInv, CountInv, DealtInv, SavedInv, Saved, Passed, Heard, Sent,
              vars, bot, disk
<1> QED
  BY <1>1, <1>2, <1>3, <1>4, <1>5, <1>6, <1>7 DEF Next

----------------------------------------------------------------------------
(* Theorems *)

\* transport.go, inbox.go: where polling stands, how often each update was dealt
\* with and what the inbox keeps fit each other in every state.
THEOREM BotInvariant == Spec => []BotInv
<1>1. BotInv /\ [Next]_vars => BotInv'
  BY NextInv
<1> QED
  BY InitInv, <1>1, PTL DEF Spec

\* Telegram, the bot and the inbox keep their types.
THEOREM TelegramTypes == Spec => []TypeOK
<1>1. BotInv => TypeOK
  BY DEF BotInv
<1> QED
  BY BotInvariant, <1>1, PTL

\* transport.go: an update is dealt with once, and once more for every death.
THEOREM HandledOncePerLife == Spec => []HandledOnce
<1>1. BotInv => HandledOnce
  BY DEF BotInv, CountInv, HandledOnce
<1> QED
  BY BotInvariant, <1>1, PTL

\* inbox.go: no idea is forgotten before it is saved, none is overwritten.
THEOREM IdeasSurvive == Spec => []IdeasKept
<1>1. BotInv => IdeasKept
  <2> SUFFICES ASSUME BotInv, NEW i \in Sent, Heard(i), updates[i].text.kind = "idea",
                      i < forgotten \/ handled[i] > 0
               PROVE  Saved(i)
    BY DEF IdeasKept, Saved
  <2>1. i \in Ids /\ (i < forgotten => i # current)
    BY Numbers DEF BotInv, PlaceInv
  <2>2. handled[i] > 0
    BY <2>1 DEF BotInv, DealtInv
  <2> QED
    BY <2>2 DEF BotInv, SavedInv
<1> QED
  BY BotInvariant, <1>1, PTL

=============================================================================
