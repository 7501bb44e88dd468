------------------------------ MODULE Accounts ------------------------------
(***************************************************************************)
(* Users and sessions in auth.sqlite (src/internal/harness/auth), the      *)
(* login, logout and user pages of the server (server/auth_handlers.go,    *)
(* server/story_admin_handlers.go) and the commands world-tool admin       *)
(* reset-password and revoke-sessions (cli/admin.go).                      *)
(*                                                                         *)
(* Every statement on the database is atomic (one connection, busy         *)
(* timeout).  A login is two statements with a comparison of hashes        *)
(* between them, and it is the one handler cut in two here; the            *)
(* other handlers look the session up and act in one step.                 *)
(***************************************************************************)
EXTENDS Naturals

CONSTANTS
  Names,       \* usernames
  Slugs,       \* what slugID makes of them: the primary keys are user_<slug>
  SlugOf,      \* two usernames may have one slug
  BootName,    \* WORLD_HARNESS_ADMIN_USERNAME
  Tokens,      \* bound: the sessions open at a time
  Passwords,   \* bound: the passwords used
  BootPassword,\* WORLD_HARNESS_ADMIN_PASSWORD
  MaxChanges,  \* bound: how often users are made, updated and given a password
  None

ASSUME AccountsAssumption ==
  /\ BootName \in Names
  /\ BootPassword \in Passwords
  /\ MaxChanges \in Nat
  /\ SlugOf \in [Names -> Slugs]

VARIABLES
  users,     \* rows of the table users
  sessions,  \* rows of the table sessions
  login,     \* a login between Authenticate and CreateSession
  reset,     \* history: the steps of taking an account back, per user
  changes    \* counter of the bound

accountVars == <<users, sessions, login, reset, changes>>

Roles == {"admin", "friend"}
User == [role : Roles, active : BOOLEAN, password : Passwords]

\* late: the login was under way when the sessions were revoked.
Session == [user : Names, password : Passwords, late : BOOLEAN]

\* What stands for a row that is not there is none.
ASSUME RowAssumption == None \notin User /\ None \notin Session

AccountsInit ==
  /\ users = [n \in Names |-> None]
  /\ sessions = [t \in Tokens |-> None]
  /\ login = None
  /\ reset = [n \in Names |-> "no"]
  /\ changes = 0

Exists(n) == users[n] # None
IsActive(n) == Exists(n) /\ users[n].active
ActiveAdmins == {n \in Names : IsActive(n) /\ users[n].role = "admin"}

\* The constraints UNIQUE of username and PRIMARY KEY of id.
MayInsert(n) == \A m \in Names : Exists(m) => SlugOf[m] # SlugOf[n]

----------------------------------------------------------------------------
(* OpenStore *)

\* Mutant: the administrator is inserted at every start.
BootstrapAlways == MayInsert(BootName)

\* bootstrapAdmin: nothing to do, or an INSERT that succeeds.
CanOpen == ActiveAdmins # {} \/ MayInsert(BootName)

BootAdmin == [role |-> "admin", active |-> TRUE, password |-> BootPassword]

OpenedUsers ==
  IF ActiveAdmins # {} THEN users ELSE [users EXCEPT ![BootName] = BootAdmin]

Open ==
  /\ CanOpen
  /\ users' = OpenedUsers

----------------------------------------------------------------------------
(* Sessions *)

Authenticate(n, pw) ==
  /\ login = None
  /\ IsActive(n) /\ users[n].password = pw
  /\ login' = [user |-> n, password |-> pw, late |-> FALSE]
  /\ UNCHANGED <<users, sessions, reset, changes>>

CreateSession ==
  /\ login # None
  /\ \E t \in Tokens :
       /\ sessions[t] = None
       /\ sessions' = [sessions EXCEPT ![t] = login]
  /\ login' = None
  /\ UNCHANGED <<users, reset, changes>>

\* The INSERT has failed.
LoginLost ==
  /\ login # None
  /\ login' = None
  /\ UNCHANGED <<users, sessions, reset, changes>>

\* UserForToken: the session is not revoked, and the user is active.
Live(t) == sessions[t] # None /\ IsActive(sessions[t].user)

\* No statement brings a row back whose revoked_at is set or whose 14 days
\* are over, so such a row is dropped.
Revoke(S) == sessions' = [t \in Tokens |-> IF t \in S THEN None ELSE sessions[t]]

Logout(t) ==
  /\ Live(t)
  /\ Revoke({t})
  /\ UNCHANGED <<users, login, reset, changes>>

Expire(t) ==
  /\ sessions[t] # None
  /\ Revoke({t})
  /\ UNCHANGED <<users, login, reset, changes>>

----------------------------------------------------------------------------
(* The user pages, for an administrator *)

ByAdmin == \E t \in Tokens : Live(t) /\ users[sessions[t].user].role = "admin"

\* Passwords are compared with those of the same user only: a new user's
\* may be any.
CreateUser(n, role) ==
  /\ MayInsert(n)
  /\ users' = [users EXCEPT ![n] = [BootAdmin EXCEPT !.role = role]]
  /\ UNCHANGED <<sessions, login, reset>>

\* Nothing keeps the last administrator, and the sessions stay as they are.
UpdateUser(n, role, active) ==
  /\ Exists(n)
  /\ users' = [users EXCEPT ![n].role = role, ![n].active = active]
  /\ UNCHANGED <<sessions, login, reset>>

\* A password that was used before is not used again.
Fresh(n, pw) == pw # users[n].password /\ \A t \in Tokens :
  sessions[t] # None /\ sessions[t].user = n => sessions[t].password # pw

ResetPassword(n, pw) ==
  /\ Exists(n) /\ Fresh(n, pw)
  /\ users' = [users EXCEPT ![n].password = pw]
  /\ reset' = [reset EXCEPT ![n] = "reset"]
  /\ UNCHANGED <<sessions, login>>

\* Mutant: the sessions of the user that are in use are kept.
SomeSessionsOf(n) == {t \in Tokens : sessions[t] # None /\ sessions[t].user = n /\ ~Live(t)}

SessionsOf(n) == {t \in Tokens : sessions[t] # None /\ sessions[t].user = n}

RevokeUserSessions(n) ==
  /\ Exists(n)
  /\ Revoke(SessionsOf(n))
  /\ login' = IF login # None /\ login.user = n THEN [login EXCEPT !.late = TRUE] ELSE login
  /\ reset' = IF reset[n] = "reset" THEN [reset EXCEPT ![n] = "done"] ELSE reset
  /\ UNCHANGED <<users, changes>>

Change == changes < MaxChanges /\ changes' = changes + 1

UserPage ==
  /\ ByAdmin
  /\ \E n \in Names :
       \/ /\ Change
          /\ \/ \E role \in Roles : CreateUser(n, role)
             \/ \E role \in Roles, active \in BOOLEAN : UpdateUser(n, role, active)
             \/ \E pw \in Passwords : ResetPassword(n, pw)
       \/ RevokeUserSessions(n)

\* A command opens the store as the server does, with the same INSERT.
CommandOpens ==
  /\ ActiveAdmins = {} /\ Open
  /\ UNCHANGED <<sessions, login, reset, changes>>

AdminCommand ==
  /\ ActiveAdmins # {}
  /\ \E n \in Names :
       \/ Change /\ \E pw \in Passwords : ResetPassword(n, pw)
       \/ RevokeUserSessions(n)

----------------------------------------------------------------------------
(* Properties *)

AccountsTypeOK ==
  /\ users \in [Names -> User \cup {None}]
  /\ sessions \in [Tokens -> Session \cup {None}]
  /\ login \in Session \cup {None}
  /\ reset \in [Names -> {"no", "reset", "done"}]
  /\ changes \in 0..MaxChanges

\* Once the password of a user has been reset and then the sessions revoked,
\* nobody is served who has come in with an older password, but for a login
\* that was between its two statements (ResetPassword leaves the sessions
\* alone, so the order of the two matters).
AccountTakenBack ==
  \A t \in Tokens :
    Live(t) /\ ~sessions[t].late /\ reset[sessions[t].user] = "done"
      => sessions[t].password = users[sessions[t].user].password
=============================================================================
