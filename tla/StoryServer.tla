---------------------------- MODULE StoryServer ----------------------------
(***************************************************************************)
(* world-harness serve (src/internal/harness/server/server.go): a start    *)
(* opens the accounts, imports the story and only then serves; the pages   *)
(* need a session, the worker does not.  The commands of world-tool admin  *)
(* run beside it.                                                          *)
(***************************************************************************)
EXTENDS Accounts, HectorStory

serverVars == <<accountVars, storyVars>>

Init == AccountsInit /\ StoryInit

\* Run: openAuthStore, FirstActiveAdminID, ensureSeedStories.
Start ==
  /\ Open
  /\ BeginStart
  /\ UNCHANGED <<sessions, login, reset, changes>>

StartStep ==
  /\ ImportNew \/ ImportAgain \/ WriteNext \/ Refresh \/ StartFails
  /\ UNCHANGED accountVars

LoggedIn == \E t \in Tokens : Live(t)

Page ==
  /\ Up
  /\ \/ \E n \in Names, pw \in Passwords : Authenticate(n, pw)
     \/ CreateSession \/ LoginLost
     \/ \E t \in Tokens : Logout(t)
     \/ UserPage
  /\ UNCHANGED storyVars

StoryPage ==
  /\ \/ LoggedIn /\ (Submit \/ ResumeFailedJob \/ CancelFailedJob \/ BeginImport)
     \/ ByAdmin /\ Rollback
     \/ Apply \/ Fail \/ EndImport
  /\ UNCHANGED accountVars

Outside ==
  \/ /\ EditSource \/ RejectSource
     /\ UNCHANGED accountVars
  \/ /\ AdminCommand \/ CommandOpens \/ \E t \in Tokens : Expire(t)
     /\ UNCHANGED storyVars

ServerDies ==
  /\ Die
  /\ login' = None
  /\ UNCHANGED <<users, sessions, reset, changes>>

Next == Start \/ StartStep \/ Page \/ StoryPage \/ Outside \/ ServerDies

\* The container is started again, and a start goes on.
Spec == Init /\ [][Next]_serverVars /\ WF_serverVars(Start) /\ WF_serverVars(StartStep)

----------------------------------------------------------------------------
(* Properties *)

TypeOK == AccountsTypeOK /\ StoryTypeOK

\* After whatever deaths, a server that is down comes up again, if there is
\* an active administrator or none has the name of the one it would make, and
\* the draft is still there (bootstrapAdmin, importHector).
ServerComesUp ==
  (pc = "down" /\ (ActiveAdmins # {} \/ MayInsert(BootName)) /\ source # 0)
    ~> (Up \/ source = 0)
=============================================================================
