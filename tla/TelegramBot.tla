---------------------------- MODULE TelegramBot ----------------------------
(***************************************************************************)
(* The Telegram bot and the ideas it keeps (telegram/transport.go,         *)
(* inbox.go, commands.go).  Telegram holds every update until a poll with  *)
(* a higher offset; the offset is the bot's alone and is lost with it.     *)
(*                                                                         *)
(* What /draft writes is in Documents and WorldWrite, and what Codex does  *)
(* it does through the commands modelled there: here a command is only     *)
(* handled, once or more.  All messages come in one second: the names of   *)
(* ideas tell seconds apart.                                               *)
(***************************************************************************)
EXTENDS Naturals, Sequences, FiniteSets

CONSTANTS
  Chats, Home,   \* Home: the chat of --allowed-chat-id, where it is given
  Packs,
  Words,         \* what ideas say
  None,
  MaxUpdates, MaxDeaths   \* bounds

ASSUME TelegramAssumption ==
  /\ Home \in Chats /\ None \notin Chats
  /\ None \notin 1..MaxUpdates
  /\ None \notin Packs /\ None \notin Words
  /\ MaxUpdates \in Nat /\ MaxDeaths \in Nat

VARIABLES
  updates,       \* Telegram: all it was sent, by update id
  forgotten,     \* Telegram: the updates below this id are confirmed
  allowedChat,   \* the flag of the bot, None when not given
  offset, batch, \* the bot: where to poll from, and what is left of a poll
  current,       \* the bot: the update at hand and what is next to be done
  inbox,         \* ideas/inbox of each pack
  handled,       \* how often each update was dealt with
  failed,        \* the ideas that were not saved, as their sender was told
  deaths

vars == <<updates, forgotten, allowedChat, offset, batch, current, inbox,
          handled, failed, deaths>>
bot == <<offset, batch, current>>
disk == <<inbox, handled, failed>>

----------------------------------------------------------------------------
(* Messages and names *)

\* packFromArg: an idea is for the pack whose name it begins with, or for the
\* default pack.
Text == [kind : {"idea"}, pack : Packs, word : Words]
        \cup [kind : {"empty", "command"}, pack : {None}, word : {None}]
\* Telegram numbers the messages of each chat.
Message == [chat : Chats, id : 1..MaxUpdates, text : Text]

Ids == 1..MaxUpdates
Sent == 1..Len(updates)

\* The number of the message, and the hash of its text or none.
Name == Ids \X (Words \cup {None})

\* Mutant: the file of the message is written whether it is there or not.
PlainName(m) == <<m.id, None>>

\* saveTelegramIdea: a name that is taken gets the hash of the text.
IdeaName(m) ==
  <<m.id, IF inbox[m.text.pack][<<m.id, None>>] = None THEN None ELSE m.text.word>>

----------------------------------------------------------------------------
(* Telegram and the network *)

Send(chat, text) ==
  /\ Len(updates) < MaxUpdates
  /\ LET before == {i \in Sent : updates[i].chat = chat} IN
       updates' = Append(updates,
                    [chat |-> chat, id |-> Cardinality(before) + 1, text |-> text])
  /\ UNCHANGED <<forgotten, allowedChat, bot, disk, deaths>>

Confirm == forgotten' = IF offset > forgotten THEN offset ELSE forgotten

----------------------------------------------------------------------------
(* The bot *)

Idle == batch = <<>> /\ current = None

\* getUpdates; Telegram answers with what it has not forgotten.
Poll ==
  /\ Idle
  /\ Confirm
  /\ batch' = [k \in 1..(Len(updates) + 1 - forgotten') |-> forgotten' + k - 1]
  /\ UNCHANGED <<updates, allowedChat, offset, current, disk, deaths>>

\* The answer does not come: the loop sleeps and polls again.
PollFails ==
  /\ Idle
  /\ Confirm
  /\ UNCHANGED <<updates, allowedChat, bot, disk, deaths>>

\* Mutant: the offset is the id of the last update and not the one after.
SameId(id) == id

\* Mutant: one id too far.
SkipOne(id) == id + 2

\* The offset that confirms an update.
After(id) == id + 1

\* The next of the batch.  One without text, or of another chat, is passed by.
TakeUpdate ==
  /\ current = None /\ batch # <<>>
  /\ LET i == Head(batch)
         m == updates[i]
         heard == m.text.kind # "empty" /\ allowedChat \in {None, m.chat}
     IN /\ offset' = After(i)
        /\ batch' = Tail(batch)
        /\ current' = IF heard THEN i ELSE None
        /\ handled' = IF heard THEN handled ELSE [handled EXCEPT ![i] = @ + 1]
  /\ UNCHANGED <<updates, forgotten, allowedChat, inbox, failed, deaths>>

\* handle and the reply, whose failure is ignored.  What a handler returns
\* for an error is only a reply: the update counts as dealt with.
Handle ==
  /\ current # None
  /\ LET m == updates[current] IN
     /\ \/ /\ m.text.kind = "command"
           /\ UNCHANGED <<inbox, failed>>
        \/ /\ m.text.kind = "idea"
           /\ inbox' = [inbox EXCEPT ![m.text.pack][IdeaName(m)] = m.text.word]
           /\ UNCHANGED failed
        \/ /\ m.text.kind = "idea"
           /\ failed' = failed \cup {current}
           /\ UNCHANGED inbox
     /\ handled' = [handled EXCEPT ![current] = @ + 1]
  /\ current' = None
  /\ UNCHANGED <<updates, forgotten, allowedChat, offset, batch, deaths>>

\* The bot dies, or is told to stop, and starts again.  An idea may be saved
\* by then: a death after Handle.
Die ==
  /\ deaths < MaxDeaths
  /\ deaths' = deaths + 1
  /\ offset' = 0 /\ batch' = <<>> /\ current' = None
  /\ UNCHANGED <<updates, forgotten, allowedChat, disk>>

Init ==
  /\ updates = <<>> /\ forgotten = 1
  /\ allowedChat \in {None, Home}
  /\ offset = 0 /\ batch = <<>> /\ current = None
  /\ inbox = [p \in Packs |-> [n \in Name |-> None]]
  /\ handled = [i \in Ids |-> 0] /\ failed = {}
  /\ deaths = 0

Next ==
  \/ \E c \in Chats, t \in Text : Send(c, t)
  \/ Poll \/ PollFails \/ TakeUpdate \/ Handle \/ Die

\* The loop runs on, and the network is not down for ever.
Spec == Init /\ [][Next]_vars /\ SF_vars(Poll) /\ WF_vars(TakeUpdate) /\ WF_vars(Handle)

----------------------------------------------------------------------------
(* Properties *)

TypeOK ==
  /\ updates \in Seq(Message)
  /\ forgotten \in 1..(Len(updates) + 1)
  /\ allowedChat \in Chats \cup {None}
  /\ offset \in 0..(Len(updates) + 1)
  /\ batch \in Seq(Sent)
  /\ \A k \in 1..Len(batch) : batch[k] = batch[1] + k - 1
  /\ current \in Sent \cup {None}
  /\ inbox \in [Packs -> [Name -> Words \cup {None}]]
  /\ handled \in [Ids -> Nat]
  /\ failed \subseteq Sent
  /\ deaths \in 0..MaxDeaths

Heard(i) == updates[i].text.kind # "empty" /\ allowedChat \in {None, updates[i].chat}

\* Telegram forgets no idea before it is in an inbox or its sender was told
\* that it could not be saved, and no later idea, of whatever chat and however
\* often delivered, takes its place there.
IdeasKept ==
  \A i \in Sent :
    Heard(i) /\ updates[i].text.kind = "idea" /\ (i < forgotten \/ handled[i] > 0)
      => \/ i \in failed
         \/ LET m == updates[i]
                there == inbox[m.text.pack] IN
              m.text.word \in {there[<<m.id, None>>], there[<<m.id, m.text.word>>]}

\* An update is dealt with once, and once more for every death of the bot.
HandledOnce == \A i \in Ids : handled[i] <= 1 + deaths

\* Every update is dealt with in the end, whatever dies in between.
EveryUpdateHandled == \A i \in Ids : (i \in Sent) ~> (handled[i] > 0)

============================================================================
