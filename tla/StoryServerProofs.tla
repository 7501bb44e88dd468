-------------------------- MODULE StoryServerProofs --------------------------
(***************************************************************************)
(* Proofs about StoryServer, for any users, sessions and passwords, any    *)
(* contents the draft takes one after the other and any number of deaths:  *)
(* an account taken back stays out, one story is served and it is whole,   *)
(* its turns stay in order, and what was played beyond the draft survives. *)
(***************************************************************************)
EXTENDS StoryServer, OrderLemmas, SequenceTheorems

----------------------------------------------------------------------------
(* Accounts: the invariant *)

\* A row or a login with a password that may still be used.
Current(s) ==
  reset[s.user] = "done" /\ ~s.late => s.password = users[s.user].password

\* Only a user who is there has a password that was reset, and a row that
\* comes in later has no reset behind it.
TakenInv ==
  /\ \A n \in Names : reset[n] # "no" => Exists(n)
  /\ \A t \in Tokens : sessions[t] # None => Current(sessions[t])
  /\ login # None => Current(login)

AccountsInv == AccountsTypeOK /\ TakenInv

LEMMA BootIs == BootName \in Names /\ BootAdmin \in User /\ BootAdmin # None
<1>1. BootAdmin \in User
  BY AccountsAssumption DEF BootAdmin, User, Roles
<1> QED
  BY <1>1, AccountsAssumption, RowAssumption

\* A user who is inserted was not there, and nobody had reset a password.
LEMMA UserInserted ==
  ASSUME AccountsInv, NEW n \in Names, MayInsert(n), NEW u \in User,
         users' = [users EXCEPT ![n] = u], UNCHANGED <<sessions, reset>>,
         login' \in {login, None}, changes' \in 0..MaxChanges
  PROVE  AccountsInv'
<1>1. /\ users \in [Names -> User \cup {None}] /\ sessions \in [Tokens -> Session \cup {None}]
      /\ login \in Session \cup {None} /\ reset \in [Names -> {"no", "reset", "done"}]
  BY DEF AccountsInv, AccountsTypeOK
<1>2. ~Exists(n) /\ reset[n] = "no"
  BY AccountsAssumption DEF MayInsert, AccountsInv, TakenInv
<1>3. AccountsTypeOK'
  BY <1>1 DEF AccountsTypeOK
<1>4. /\ users'[n] = u /\ u # None
      /\ \A m \in Names : m # n => users'[m] = users[m]
  BY <1>1, RowAssumption
<1>5. ASSUME NEW s \in Session, Current(s) PROVE Current(s)'
  <2>1. s.user \in Names
    BY DEF Session
  <2> QED
    BY <1>2, <1>4, <1>5, <2>1 DEF Current
<1>6. \A m \in Names : reset'[m] # "no" => Exists(m)'
  BY <1>2, <1>4 DEF AccountsInv, TakenInv, Exists
<1>7. ASSUME NEW t \in Tokens, sessions[t] # None PROVE Current(sessions[t])'
  BY <1>1, <1>5, <1>7 DEF AccountsInv, TakenInv, Current
<1>8. login' # None => Current(login)'
  BY <1>1, <1>5 DEF AccountsInv, TakenInv, Current
<1>9. TakenInv'
  BY <1>6, <1>7, <1>8 DEF TakenInv
<1> QED
  BY <1>3, <1>9 DEF AccountsInv

LEMMA StoreOpened ==
  ASSUME AccountsInv, Open, UNCHANGED <<sessions, login, reset, changes>>
  PROVE  AccountsInv'
<1>1. CASE ActiveAdmins # {}
  <2>1. UNCHANGED accountVars
    BY <1>1 DEF Open, OpenedUsers, accountVars
  <2> QED
    BY <2>1 DEF accountVars, AccountsInv, AccountsTypeOK, TakenInv, Current, Exists
<1>2. CASE ActiveAdmins = {}
  <2>1. MayInsert(BootName) /\ users' = [users EXCEPT ![BootName] = BootAdmin]
    BY <1>2 DEF Open, CanOpen, OpenedUsers
  <2> QED
    BY <2>1, BootIs, UserInserted DEF AccountsInv, AccountsTypeOK
<1> QED
  BY <1>1, <1>2

\* Rows that go, and a login that goes or becomes a row.
LEMMA SessionsMove ==
  ASSUME AccountsInv, UNCHANGED <<users, reset, changes>>,
         login' \in {login, None},
         sessions' \in [Tokens -> Session \cup {None}],
         \A t \in Tokens : sessions'[t] \in {sessions[t], None} \/ (login # None /\ sessions'[t] = login)
  PROVE  AccountsInv'
<1>1. AccountsTypeOK'
  BY DEF AccountsInv, AccountsTypeOK
<1>2. ASSUME NEW s, Current(s) PROVE Current(s)'
  BY <1>2 DEF Current
<1>3. ASSUME NEW t \in Tokens, sessions'[t] # None
      PROVE  \E s : s = sessions'[t] /\ Current(s)'
  BY <1>2, <1>3 DEF AccountsInv, TakenInv
<1>4. login' # None => \E s : s = login' /\ Current(s)'
  BY <1>2 DEF AccountsInv, TakenInv
<1>5. TakenInv'
  BY <1>3, <1>4 DEF AccountsInv, TakenInv, Exists, Current
<1> QED
  BY <1>1, <1>5 DEF AccountsInv

\* The first statement of a login: the password is the one of now.
LEMMA Authenticated ==
  ASSUME AccountsInv, NEW n \in Names, NEW pw \in Passwords, Authenticate(n, pw)
  PROVE  AccountsInv'
<1> DEFINE s == [user |-> n, password |-> pw, late |-> FALSE]
<1>1. /\ login' = s /\ UNCHANGED <<users, sessions, reset, changes>>
      /\ users[n].password = pw
  BY DEF Authenticate
<1>2. s \in Session /\ s.user = n /\ s.password = pw
  BY DEF Session
<1> HIDE DEF s
<1>3. AccountsTypeOK'
  BY <1>1, <1>2 DEF AccountsInv, AccountsTypeOK
<1>4. Current(s)'
  BY <1>1, <1>2 DEF Current
<1>5. \A t \in Tokens : sessions'[t] # None => Current(sessions[t])'
  BY <1>1 DEF AccountsInv, TakenInv, Current
<1>6. TakenInv'
  BY <1>1, <1>4, <1>5 DEF AccountsInv, TakenInv, Exists, Current
<1> QED
  BY <1>3, <1>6 DEF AccountsInv

LEMMA UserUpdated ==
  ASSUME AccountsInv, NEW n \in Names, NEW role \in Roles, NEW active \in BOOLEAN,
         UpdateUser(n, role, active), changes' \in 0..MaxChanges
  PROVE  AccountsInv'
<1>1. /\ users' = [users EXCEPT ![n].role = role, ![n].active = active]
      /\ UNCHANGED <<sessions, login, reset>> /\ users[n] # None
  BY DEF UpdateUser, Exists
<1>2. users \in [Names -> User \cup {None}] /\ users[n] \in User
  BY <1>1 DEF AccountsInv, AccountsTypeOK
<1>3. /\ users'[n] = [users[n] EXCEPT !.role = role, !.active = active]
      /\ \A m \in Names : m # n => users'[m] = users[m]
  BY <1>1, <1>2
<1>4. users'[n] \in User /\ users'[n].password = users[n].password
  BY <1>2, <1>3 DEF User
<1>5. users' \in [Names -> User \cup {None}] /\ users'[n] # None
  BY <1>1, <1>2, <1>4, RowAssumption
<1>6. AccountsTypeOK'
  BY <1>1, <1>5 DEF AccountsInv, AccountsTypeOK
<1>7. ASSUME NEW s \in Session, Current(s) PROVE Current(s)'
  <2>1. s.user \in Names
    BY DEF Session
  <2> QED
    BY <1>1, <1>3, <1>4, <1>7, <2>1 DEF Current
<1>8. \A t \in Tokens : sessions[t] # None => Current(sessions[t])'
  BY <1>1, <1>7 DEF AccountsInv, AccountsTypeOK, TakenInv, Current
<1>9. login # None => Current(login)'
  BY <1>1, <1>7 DEF AccountsInv, AccountsTypeOK, TakenInv, Current
<1>10. TakenInv'
  BY <1>1, <1>3, <1>5, <1>8, <1>9 DEF AccountsInv, TakenInv, Exists
<1> QED
  BY <1>6, <1>10 DEF AccountsInv

\* A new password: the sessions have not been revoked since.
LEMMA PasswordReset ==
  ASSUME AccountsInv, NEW n \in Names, NEW pw \in Passwords, ResetPassword(n, pw),
         changes' \in 0..MaxChanges
  PROVE  AccountsInv'
<1>1. /\ users' = [users EXCEPT ![n].password = pw] /\ reset' = [reset EXCEPT ![n] = "reset"]
      /\ UNCHANGED <<sessions, login>> /\ users[n] # None
  BY DEF ResetPassword, Exists
<1>2. /\ users \in [Names -> User \cup {None}] /\ users[n] \in User
      /\ reset \in [Names -> {"no", "reset", "done"}]
  BY <1>1 DEF AccountsInv, AccountsTypeOK
<1>3. /\ users'[n] = [users[n] EXCEPT !.password = pw] /\ reset'[n] = "reset"
      /\ \A m \in Names : m # n => users'[m] = users[m] /\ reset'[m] = reset[m]
  BY <1>1, <1>2
<1>4. users'[n] \in User
  BY <1>2, <1>3 DEF User
<1>5. users' \in [Names -> User \cup {None}] /\ users'[n] # None
  BY <1>1, <1>2, <1>4, RowAssumption
<1>6. AccountsTypeOK'
  BY <1>1, <1>2, <1>5 DEF AccountsInv, AccountsTypeOK
<1>7. ASSUME NEW s \in Session, Current(s) PROVE Current(s)'
  <2>1. s.user \in Names
    BY DEF Session
  <2> QED
    BY <1>1, <1>3, <1>7, <2>1 DEF Current
<1>8. \A t \in Tokens : sessions[t] # None => Current(sessions[t])'
  BY <1>1, <1>7 DEF AccountsInv, AccountsTypeOK, TakenInv, Current
<1>9. login # None => Current(login)'
  BY <1>1, <1>7 DEF AccountsInv, AccountsTypeOK, TakenInv, Current
<1>10. TakenInv'
  BY <1>1, <1>3, <1>5, <1>8, <1>9 DEF AccountsInv, TakenInv, Exists
<1> QED
  BY <1>6, <1>10 DEF AccountsInv

\* No session of the user is left, and a login under way is marked as late.
LEMMA UserRevoked ==
  ASSUME AccountsInv, NEW n \in Names, RevokeUserSessions(n)
  PROVE  AccountsInv'
<1>1. /\ sessions' = [t \in Tokens |-> IF t \in SessionsOf(n) THEN None ELSE sessions[t]]
      /\ login' = IF login # None /\ login.user = n THEN [login EXCEPT !.late = TRUE] ELSE login
      /\ reset' = IF reset[n] = "reset" THEN [reset EXCEPT ![n] = "done"] ELSE reset
      /\ UNCHANGED <<users, changes>> /\ Exists(n)
  BY DEF RevokeUserSessions, Revoke
<1>2. /\ sessions \in [Tokens -> Session \cup {None}] /\ login \in Session \cup {None}
      /\ reset \in [Names -> {"no", "reset", "done"}]
  BY DEF AccountsInv, AccountsTypeOK
<1>3. login' \in Session \cup {None} /\ (login' # None /\ login'.user = n => login'.late)
  <2>1. CASE login # None /\ login.user = n
    <3>1. login \in Session /\ login' = [login EXCEPT !.late = TRUE]
      BY <1>1, <1>2, <2>1
    <3> QED
      BY <3>1 DEF Session
  <2>2. CASE ~(login # None /\ login.user = n)
    BY <1>1, <1>2, <2>2
  <2> QED
    BY <2>1, <2>2
<1>4. reset' \in [Names -> {"no", "reset", "done"}] /\ \A m \in Names : m # n => reset'[m] = reset[m]
  BY <1>1, <1>2
<1>5. AccountsTypeOK'
  BY <1>1, <1>2, <1>3, <1>4 DEF AccountsInv, AccountsTypeOK
<1>6. ASSUME NEW s \in Session, s.user # n, Current(s) PROVE Current(s)'
  <2>1. s.user \in Names
    BY DEF Session
  <2> QED
    BY <1>1, <1>4, <1>6, <2>1 DEF Current
<1>7. ASSUME NEW t \in Tokens, sessions'[t] # None
      PROVE  \E s \in Session : s = sessions'[t] /\ Current(s)'
  <2>1. sessions'[t] = sessions[t] /\ sessions[t] \in Session /\ sessions[t].user # n
    BY <1>1, <1>2, <1>7 DEF SessionsOf
  <2> QED
    BY <1>6, <1>7, <2>1 DEF AccountsInv, TakenInv
<1>8. ASSUME login' # None PROVE \E s \in Session : s = login' /\ Current(s)'
  <2>1. CASE login'.user = n
    BY <1>3, <1>8, <2>1 DEF Current
  <2>2. CASE login'.user # n
    <3>1. login' = login /\ login \in Session
      <4>1. CASE login # None /\ login.user = n
        <5>1. login \in Session
          BY <1>2, <4>1
        <5>2. login'.user = n
          BY <1>1, <4>1, <5>1 DEF Session
        <5> QED
          BY <2>2, <5>2
      <4> QED
        BY <1>1, <1>2, <1>8, <4>1
    <3> QED
      BY <1>6, <1>8, <2>2, <3>1 DEF AccountsInv, TakenInv
  <2> QED
    BY <2>1, <2>2
<1>9. \A m \in Names : reset'[m] # "no" => Exists(m)'
  BY <1>1, <1>4 DEF AccountsInv, TakenInv, Exists
<1>10. TakenInv'
  BY <1>7, <1>8, <1>9 DEF TakenInv, Current
<1> QED
  BY <1>5, <1>10 DEF AccountsInv

LEMMA AccountsInitial == Init => AccountsInv
<1> SUFFICES ASSUME AccountsInit PROVE AccountsInv
  BY DEF Init
<1>1. AccountsTypeOK
  BY AccountsAssumption DEF AccountsInit, AccountsTypeOK
<1> QED
  BY <1>1 DEF AccountsInit, AccountsInv, TakenInv

LEMMA AccountsNext == AccountsInv /\ [Next]_serverVars => AccountsInv'
<1> SUFFICES ASSUME AccountsInv, [Next]_serverVars PROVE AccountsInv'
  OBVIOUS
<1>1. CASE UNCHANGED accountVars
  BY <1>1 DEF accountVars, AccountsInv, AccountsTypeOK, TakenInv, Current, Exists
<1>2. CASE Start
  BY <1>2, StoreOpened DEF Start
<1>3. ASSUME NEW n \in Names, Change,
             \/ \E role \in Roles : CreateUser(n, role)
             \/ \E role \in Roles, active \in BOOLEAN : UpdateUser(n, role, active)
             \/ \E pw \in Passwords : ResetPassword(n, pw)
      PROVE  AccountsInv'
  <2>1. changes' \in 0..MaxChanges
    BY <1>3, AccountsAssumption DEF Change, AccountsInv, AccountsTypeOK
  <2>2. ASSUME NEW role \in Roles, CreateUser(n, role) PROVE AccountsInv'
    <3>1. [BootAdmin EXCEPT !.role = role] \in User
      BY BootIs DEF User
    <3> QED
      BY <2>1, <2>2, <3>1, UserInserted DEF CreateUser
  <2> QED
    BY <1>3, <2>1, <2>2, UserUpdated, PasswordReset
<1>4. ASSUME NEW S, Revoke(S), UNCHANGED <<users, login, reset, changes>> PROVE AccountsInv'
  <2>1. sessions' = [t \in Tokens |-> IF t \in S THEN None ELSE sessions[t]]
    BY <1>4 DEF Revoke
  <2>2. sessions \in [Tokens -> Session \cup {None}]
    BY DEF AccountsInv, AccountsTypeOK
  <2>3. /\ sessions' \in [Tokens -> Session \cup {None}]
        /\ \A t \in Tokens : sessions'[t] \in {sessions[t], None}
    BY <2>1, <2>2
  <2> QED
    BY <1>4, <2>3, SessionsMove
<1>5. CASE Page
  <2>1. ASSUME NEW n \in Names, NEW pw \in Passwords, Authenticate(n, pw) PROVE AccountsInv'
    BY <2>1, Authenticated
  <2>2. CASE CreateSession \/ LoginLost
    <3>1. sessions \in [Tokens -> Session \cup {None}] /\ login \in Session \cup {None}
      BY DEF AccountsInv, AccountsTypeOK
    <3>2. /\ UNCHANGED <<users, reset, changes>> /\ login' = None
          /\ sessions' \in [Tokens -> Session \cup {None}]
          /\ \A t \in Tokens :
               sessions'[t] \in {sessions[t], None} \/ (login # None /\ sessions'[t] = login)
      BY <2>2, <3>1 DEF CreateSession, LoginLost
    <3> QED
      BY <3>2, SessionsMove
  <2>3. ASSUME NEW t \in Tokens, Logout(t) PROVE AccountsInv'
    BY <1>4, <2>3 DEF Logout
  <2>4. CASE UserPage
    BY <1>3, <2>4, UserRevoked DEF UserPage
  <2> QED
    BY <1>5, <2>1, <2>2, <2>3, <2>4 DEF Page
<1>6. CASE Outside
  <2>1. CASE AdminCommand
    BY <1>3, <2>1, UserRevoked DEF AdminCommand
  <2>2. CASE CommandOpens
    BY <2>2, StoreOpened DEF CommandOpens
  <2>3. ASSUME NEW t \in Tokens, Expire(t) PROVE AccountsInv'
    BY <1>4, <2>3 DEF Expire
  <2> QED
    BY <1>1, <1>6, <2>1, <2>2, <2>3 DEF Outside
<1>7. CASE ServerDies
  <2>1. /\ login' = None /\ UNCHANGED <<users, sessions, reset, changes>>
        /\ sessions \in [Tokens -> Session \cup {None}]
    BY <1>7 DEF ServerDies, AccountsInv, AccountsTypeOK
  <2> QED
    BY <2>1, SessionsMove
<1> QED
  BY <1>1, <1>2, <1>5, <1>6, <1>7 DEF Next, serverVars, StartStep, StoryPage

THEOREM AccountsInvariant == Spec => []AccountsInv
<1> QED
  BY AccountsInitial, AccountsNext, PTL DEF Spec

\* After a reset of the password and then a revocation of the sessions, in
\* that order, an older password serves nobody, for any users and sessions.
THEOREM TakenBack == Spec => []AccountTakenBack
<1>1. AccountsInv => AccountTakenBack
  BY DEF AccountsInv, TakenInv, AccountTakenBack, Live, Current
<1> QED
  BY <1>1, AccountsInvariant, PTL

----------------------------------------------------------------------------
(* The invariant of the story *)

USE DEF traces

Growing(turns) == \A i, j \in DOMAIN turns : i < j => turns[i].id < turns[j].id
NotBeyond(turns, n) == \A i \in DOMAIN turns : turns[i].id <= n

\* The turns ascend, up to n, unless they are still those of the headings.
Sorted(turns) == AsWritten(turns) \/ Growing(turns)
InOrderTo(turns, n) == AsWritten(turns) \/ (Growing(turns) /\ NotBeyond(turns, n))

\* The job of a story is for a turn that comes after all that are there; after
\* a rollback beside a failed job it need not be the next.
JobAhead(turns, m) ==
  m.job = 0 \/ AsWritten(turns) \/ NotBeyond(turns, m.job - 1)

\* A story that is made or replaced.
Fits(m, st, turns) ==
  /\ ~outpaced => JobAhead(turns, m)
  /\ ~halved => st # "blank"
  /\ InOrderTo(turns, m.cur) /\ m.cur \in Ids(turns)

\* What is left to be written, rest of it turns, and what stands there.
Writing(m, st, rest) ==
  LET f == dir[work.dir] IN
  \/ /\ work.writes = ReplaceWrites(m, st, rest)
     /\ f.manifest # Nil /\ source # 0 /\ NotBeyond(f.turns, HistoryTurn)
     /\ Fits(m, st, rest)
  \/ /\ work.writes = <<<<"remove", "manifest">>, <<"remove", "state">>>> \o CreateWrites(m, st, rest)
     /\ f.manifest # Nil /\ f.turns = <<>>
     /\ Fits(m, st, rest)
  \/ /\ work.writes = <<<<"remove", "state">>>> \o CreateWrites(m, st, rest)
     /\ f.manifest = Nil /\ f.turns = <<>>
     /\ Fits(m, st, rest)
  \/ /\ work.writes = CreateWrites(m, st, rest)
     /\ f.manifest = Nil
     /\ Fits(m, st, f.turns \o rest)
  \/ /\ work.writes = <<<<"state", st>>>>
     /\ f.manifest = m
     /\ Fits(m, st, f.turns)

WorkInv ==
  work = NoWork
    \/ /\ work.dir \in Dirs
       /\ \E m \in Manifest, st \in {"seed", "played", "blank"}, rest \in Seq(TurnRec) :
            Writing(m, st, rest)

\* Where the start stands: at most one story is listed.
StartInv ==
  /\ \A d, e \in Listed : d = e
  /\ \A d \in Dirs : ~dir[d].made => dir[d] = Empty
  /\ pc \in {"down", "import"} => work = NoWork
  /\ pc \in {"refresh", "up"} /\ work = NoWork => Listed # {}
  /\ work # NoWork => Listed \subseteq {work.dir}
  /\ edit # Nil => Up /\ edit.dir \in Listed

\* Unless an import has gone past it, a story has no turn beyond its current
\* one, and a job for none but a later one than all of them.
StoriesInv ==
  ~outpaced => \A d \in Dirs :
    /\ Sorted(dir[d].turns)
    /\ d \in Listed => /\ InOrderTo(dir[d].turns, dir[d].manifest.cur)
                       /\ JobAhead(dir[d].turns, dir[d].manifest)

StateLeft == work.writes # <<>> /\ Head(work.writes)[1] = "state"

StatesInv ==
  ~halved => \A d \in Listed :
    (StateLeft /\ work.dir = d) \/ dir[d].state \notin {Nil, "blank"}

ServedInv ==
  Up /\ ~outpaced /\ ~adrift =>
    \A d \in Listed : dir[d].manifest.cur \in Ids(dir[d].turns)

StoryInv ==
  StoryTypeOK /\ WorkInv /\ StartInv /\ StoriesInv /\ StatesInv /\ ServedInv

----------------------------------------------------------------------------
(* Turn ids, turns and drafts *)

LEMMA Bounds ==
  /\ Len(Versions) \in Nat /\ Len(Versions) # 0
  /\ MaxTurn \in Nat /\ MaxDeaths \in Nat /\ Inbox \in SUBSET (1..MaxTurn)
<1> DEFINE C == Seq(1..MaxTurn) \ {<<>>}
<1>1. Versions \in Seq(C) /\ Versions # <<>>
  BY HectorAssumption
<1> HIDE DEF C
<1>2. Len(Versions) \in Nat /\ Len(Versions) # 0
  BY <1>1
<1> QED
  BY <1>2, HectorAssumption

LEMMA MaxOfIs ==
  ASSUME NEW n \in Nat, NEW S \in SUBSET (0..n), S # {}
  PROVE  MaxOf(S) \in S /\ \A m \in S : m <= MaxOf(S)
<1> DEFINE T == {n - x : x \in S}
<1>1. T \in SUBSET Nat /\ T # {}
  <2>1. \A x \in S : x \in 0..n /\ n - x \in Nat
    OBVIOUS
  <2>2. T # {}
    OBVIOUS
  <2> QED
    BY <2>1, <2>2
<1>2. PICK k \in T : \A m \in T : k <= m
  <2> HIDE DEF T
  <2> QED
    BY <1>1, LeastMember
<1>3. PICK x \in S : k = n - x
  BY <1>2
<1>4. \A m \in S : m <= x
  BY <1>2, <1>3
<1> QED
  BY <1>3, <1>4 DEF MaxOf

LEMMA IdsAre ==
  ASSUME NEW turns \in Seq(TurnRec)
  PROVE  /\ Ids(turns) \in SUBSET (1..MaxTurn)
         /\ MaxOf(Ids(turns)) \in 0..MaxTurn
         /\ NotBeyond(turns, MaxOf(Ids(turns)))
         /\ \A n \in Int : MaxOf(Ids(turns)) <= n => NotBeyond(turns, n)
         /\ \A n \in Nat : NotBeyond(turns, n) => MaxOf(Ids(turns)) <= n
<1>1. \A i \in DOMAIN turns : turns[i].id \in 1..MaxTurn
  <2>1. \A i \in DOMAIN turns : turns[i] \in TurnRec
    OBVIOUS
  <2> QED
    BY <2>1 DEF TurnRec
<1>2. Ids(turns) \in SUBSET (1..MaxTurn) /\ Ids(turns) \in SUBSET (0..MaxTurn)
  BY <1>1, Bounds DEF Ids
<1>3. CASE Ids(turns) = {}
  <2>1. MaxOf(Ids(turns)) = 0 /\ DOMAIN turns = {}
    BY <1>3 DEF MaxOf, Ids
  <2> QED
    BY <1>2, <2>1, Bounds DEF NotBeyond
<1>4. CASE Ids(turns) # {}
  <2>1. MaxOf(Ids(turns)) \in Ids(turns) /\ \A m \in Ids(turns) : m <= MaxOf(Ids(turns))
    BY <1>2, <1>4, Bounds, MaxOfIs
  <2>2. PICK k \in DOMAIN turns : turns[k].id = MaxOf(Ids(turns))
    BY <2>1 DEF Ids
  <2>3. \A i \in DOMAIN turns : turns[i].id <= MaxOf(Ids(turns))
    BY <2>1 DEF Ids
  <2> QED
    BY <1>1, <1>2, <2>1, <2>2, <2>3, Bounds DEF NotBeyond
<1> QED
  BY <1>3, <1>4

LEMMA NotBeyondMore ==
  ASSUME NEW turns \in Seq(TurnRec), NEW m \in Int, NEW n \in Int, m <= n, NotBeyond(turns, m)
  PROVE  NotBeyond(turns, n)
<1> SUFFICES ASSUME NEW i \in DOMAIN turns PROVE turns[i].id <= n
  BY DEF NotBeyond
<1>1. turns[i] \in TurnRec
  OBVIOUS
<1>2. turns[i].id \in 1..MaxTurn /\ turns[i].id <= m
  BY <1>1 DEF TurnRec, NotBeyond
<1> QED
  BY <1>2, Bounds

\* A bound that is raised, and turns that were joined.
LEMMA InOrderMore ==
  ASSUME NEW turns \in Seq(TurnRec), NEW m \in Int, NEW n \in Int, m <= n, InOrderTo(turns, m)
  PROVE  InOrderTo(turns, n) /\ Sorted(turns)
<1>1. CASE AsWritten(turns)
  BY <1>1 DEF InOrderTo, Sorted
<1>2. CASE Growing(turns) /\ NotBeyond(turns, m)
  BY <1>2, NotBeyondMore DEF InOrderTo, Sorted
<1> QED
  BY <1>1, <1>2 DEF InOrderTo

LEMMA ElementsOf ==
  ASSUME NEW S, NEW s \in Seq(S)
  PROVE  /\ DOMAIN s = 1..Len(s) /\ Len(s) \in Nat /\ (\A i \in DOMAIN s : s[i] \in S)
         /\ s # <<>> => Len(s) # 0
  OBVIOUS

LEMMA SeqOfMore ==
  ASSUME NEW T, NEW S \in SUBSET T, NEW s \in Seq(S)
  PROVE  s \in Seq(T)
  OBVIOUS

LEMMA InAscentIs ==
  ASSUME NEW S \in SUBSET (1..MaxTurn)
  PROVE  LET f == InAscent(S)
         IN  /\ f \in Seq(1..MaxTurn) /\ Ascend(f)
             /\ \A n : n \in S <=> \E i \in DOMAIN f : f[i] = n
<1> DEFINE f == InAscent(S)
<1>1. S \in SUBSET Nat
  BY Bounds
<1>2. IsFiniteSet(S)
  <2>1. IsFiniteSet(1..MaxTurn)
    BY Bounds, FS_Interval
  <2> QED
    BY <2>1, FS_Subset
<1>3. /\ DOMAIN f = 1..Cardinality(S) /\ f = [i \in DOMAIN f |-> f[i]]
      /\ \A i \in 1..Cardinality(S) : f[i] = NthOf(S, i)
  <2>1. \A i : NthOf(S, i) = CHOOSE n \in S : Cardinality({m \in S : m <= n}) = i
    BY DEF NthOf, Rank
  <2> QED
    BY <2>1 DEF InAscent
<1> HIDE DEF f
<1>4. f \in Seq(S)
  BY <1>1, <1>2, <1>3, InOrder
<1>5. \A i, j \in DOMAIN f : i < j => f[i] < f[j]
  BY <1>1, <1>2, <1>3, InOrder
<1>6. \A n \in S : \E i \in DOMAIN f : f[i] = n
  <2> SUFFICES ASSUME NEW n \in S PROVE \E i \in DOMAIN f : f[i] = n
    OBVIOUS
  <2>1. Rank(S, n) \in 1..Cardinality(S) /\ NthOf(S, Rank(S, n)) = n
    BY <1>1, <1>2, PlaceOf
  <2> QED
    BY <1>3, <2>1
<1>7. \A i \in DOMAIN f : f[i] \in S
  BY <1>4
<1>8. f \in Seq(1..MaxTurn)
  BY <1>4, SeqOfMore
<1> QED
  BY <1>5, <1>6, <1>7, <1>8 DEF f, Ascend

LEMMA AsTurnsIs ==
  ASSUME NEW ids \in Seq(1..MaxTurn), NEW by \in {"draft", "import", "played"}
  PROVE  LET r == AsTurns(ids, by)
         IN  /\ r \in Seq(TurnRec)
             /\ \A n : n \in Ids(r) <=> \E i \in DOMAIN ids : ids[i] = n
             /\ Ascend(ids) => Growing(r)
             /\ r # <<>> => r[1].by = by
<1> DEFINE r == AsTurns(ids, by)
<1>1. DOMAIN ids = 1..Len(ids) /\ Len(ids) \in Nat /\ \A i \in DOMAIN ids : ids[i] \in 1..MaxTurn
  BY ElementsOf
<1>2. r = [i \in 1..Len(ids) |-> [id |-> ids[i], by |-> by]]
  BY <1>1 DEF AsTurns
<1> HIDE DEF r
<1>3. \A i \in 1..Len(ids) : r[i] \in TurnRec /\ r[i].id = ids[i] /\ r[i].by = by
  BY <1>1, <1>2 DEF TurnRec
<1>4. r \in Seq(TurnRec) /\ DOMAIN r = 1..Len(ids)
  BY <1>1, <1>2, <1>3
<1>5. \A n : n \in Ids(r) <=> \E i \in DOMAIN ids : ids[i] = n
  BY <1>1, <1>3, <1>4 DEF Ids
<1>6. Ascend(ids) => Growing(r)
  BY <1>1, <1>3, <1>4 DEF Ascend, Growing
<1>7. r # <<>> => r[1].by = by
  BY <1>3, <1>4
<1> QED
  BY <1>4, <1>5, <1>6, <1>7 DEF r

LEMMA DraftIs ==
  ASSUME source \in 0..Len(Versions), source # 0
  PROVE  /\ source \in 1..Len(Versions)
         /\ Headings \in Seq(1..MaxTurn) /\ Headings # <<>>
         /\ DraftTurn \in 1..MaxTurn /\ (\E i \in DOMAIN Headings : Headings[i] = DraftTurn)
         /\ (Ascend(Headings) => \A i \in DOMAIN Headings : Headings[i] <= DraftTurn)
         /\ History \in SUBSET (1..MaxTurn) /\ HistoryTurn \in History
         /\ (\A t \in History : t <= HistoryTurn)
<1>1. Len(Versions) \in Nat /\ source \in 1..Len(Versions)
  BY Bounds
<1>2. Headings \in Seq(1..MaxTurn) /\ Headings # <<>>
  <2> DEFINE C == Seq(1..MaxTurn) \ {<<>>}
  <2>1. Versions \in Seq(C)
    BY HectorAssumption
  <2> HIDE DEF C
  <2>2. Versions[source] \in C
    BY <1>1, <2>1
  <2> QED
    BY <2>2 DEF C, Headings
<1> HIDE DEF Headings
<1>3. /\ Len(Headings) \in Nat /\ Len(Headings) # 0 /\ DOMAIN Headings = 1..Len(Headings)
      /\ \A i \in DOMAIN Headings : Headings[i] \in 1..MaxTurn
  BY <1>2, ElementsOf
<1>4. Len(Headings) \in DOMAIN Headings /\ DraftTurn = Headings[Len(Headings)]
  BY <1>3 DEF DraftTurn, Last
<1>5. DraftTurn \in 1..MaxTurn /\ \E i \in DOMAIN Headings : Headings[i] = DraftTurn
  BY <1>3, <1>4
<1>6. ASSUME Ascend(Headings), NEW i \in DOMAIN Headings PROVE Headings[i] <= DraftTurn
  <2>1. CASE i = Len(Headings)
    BY <1>3, <1>4, <2>1, Bounds
  <2>2. CASE i # Len(Headings)
    <3>1. i < Len(Headings)
      BY <1>3, <2>2
    <3>2. Headings[i] < DraftTurn
      BY <1>4, <1>6, <3>1 DEF Ascend
    <3> QED
      BY <1>3, <1>5, <3>2, Bounds
  <2> QED
    BY <2>1, <2>2
<1>7. History \in SUBSET (1..MaxTurn) /\ History # {}
  <2>1. ToSet(Headings) \in SUBSET (1..MaxTurn) /\ ToSet(Headings) # {}
    BY <1>3, <1>4 DEF ToSet
  <2> QED
    BY <2>1, Bounds DEF History
<1>8. HistoryTurn \in History /\ \A t \in History : t <= HistoryTurn
  <2>1. History \in SUBSET (0..MaxTurn)
    BY <1>7, Bounds
  <2> HIDE DEF History
  <2> QED
    BY <1>7, <2>1, Bounds, MaxOfIs DEF HistoryTurn
<1> QED
  BY <1>1, <1>2, <1>5, <1>6, <1>7, <1>8

\* The turns of createStory and those of the history.
LEMMA DraftTurnsAre ==
  ASSUME source \in 0..Len(Versions), source # 0
  PROVE  /\ DraftTurns \in Seq(TurnRec) /\ DraftTurns # <<>> /\ DraftTurns[1].by = "draft"
         /\ DraftTurn \in Ids(DraftTurns)
         /\ Ascend(Headings) => Growing(DraftTurns) /\ NotBeyond(DraftTurns, DraftTurn)
<1>1. /\ Headings \in Seq(1..MaxTurn) /\ Headings # <<>>
      /\ (\E i \in DOMAIN Headings : Headings[i] = DraftTurn)
      /\ (Ascend(Headings) => \A i \in DOMAIN Headings : Headings[i] <= DraftTurn)
  BY DraftIs
<1> DEFINE r == AsTurns(Headings, "draft")
<1> HIDE DEF Headings, DraftTurn
<1>2. /\ r \in Seq(TurnRec) /\ (Ascend(Headings) => Growing(r))
      /\ (\A n : n \in Ids(r) <=> \E i \in DOMAIN Headings : Headings[i] = n)
      /\ (r # <<>> => r[1].by = "draft")
  BY <1>1, AsTurnsIs
<1>3. DOMAIN r = DOMAIN Headings /\ \A i \in DOMAIN r : r[i].id = Headings[i]
  BY DEF AsTurns
<1>4. r # <<>>
  BY <1>1, <1>3
<1>5. r = DraftTurns
  BY DEF DraftTurns
<1> HIDE DEF r
<1> QED
  BY <1>1, <1>2, <1>3, <1>4, <1>5 DEF NotBeyond

LEMMA HistoryTurnsAre ==
  ASSUME source \in 0..Len(Versions), source # 0
  PROVE  /\ HistoryTurns \in Seq(TurnRec) /\ Growing(HistoryTurns) /\ ~AsWritten(HistoryTurns)
         /\ Ids(HistoryTurns) = History
<1>1. History \in SUBSET (1..MaxTurn)
  BY DraftIs
<1> DEFINE f == InAscent(History)
           r == AsTurns(f, "import")
<1> HIDE DEF History
<1>2. f \in Seq(1..MaxTurn) /\ Ascend(f) /\ \A n : n \in History <=> \E i \in DOMAIN f : f[i] = n
  BY <1>1, InAscentIs
<1>3. r = HistoryTurns
  BY DEF HistoryTurns
<1> HIDE DEF f
<1>4. /\ r \in Seq(TurnRec) /\ Growing(r) /\ (r # <<>> => r[1].by = "import")
      /\ \A n : n \in Ids(r) <=> \E i \in DOMAIN f : f[i] = n
  BY <1>2, AsTurnsIs
<1> HIDE DEF r
<1>5. Ids(r) = History
  BY <1>2, <1>4
<1> QED
  BY <1>3, <1>4, <1>5 DEF AsWritten

LEMMA LastIs ==
  ASSUME NEW turns \in Seq(TurnRec), turns # <<>>
  PROVE  /\ Last(turns).id \in 1..MaxTurn
         /\ Growing(turns) => NotBeyond(turns, Last(turns).id)
<1>1. /\ DOMAIN turns = 1..Len(turns) /\ Len(turns) \in Nat /\ Len(turns) # 0
      /\ \A i \in DOMAIN turns : turns[i] \in TurnRec
  BY ElementsOf
<1>2. Len(turns) \in DOMAIN turns /\ Last(turns) = turns[Len(turns)]
  BY <1>1 DEF Last
<1>3. \A i \in DOMAIN turns : turns[i].id \in 1..MaxTurn
  BY <1>1 DEF TurnRec
<1>4. ASSUME Growing(turns), NEW i \in DOMAIN turns PROVE turns[i].id <= Last(turns).id
  <2>1. CASE i = Len(turns)
    BY <1>2, <1>3, <2>1, Bounds
  <2>2. CASE i # Len(turns)
    <3>1. i < Len(turns)
      BY <1>1, <2>2
    <3>2. turns[i].id < Last(turns).id
      BY <1>2, <1>4, <3>1 DEF Growing
    <3> QED
      BY <1>2, <1>3, <3>2, Bounds
  <2> QED
    BY <2>1, <2>2
<1> QED
  BY <1>2, <1>3, <1>4 DEF NotBeyond

LEMMA TurnAppended ==
  ASSUME NEW turns \in Seq(TurnRec), NEW r \in TurnRec
  PROVE  LET new == Append(turns, r) IN
         /\ new \in Seq(TurnRec) /\ r.id \in Ids(new)
         /\ InOrderTo(turns, r.id - 1) => InOrderTo(new, r.id)
         /\ \A t \in ToSet(turns) : t \in ToSet(new)
<1> DEFINE new == Append(turns, r)
           l == Len(turns)
<1>1. /\ DOMAIN new = 1..(l + 1) /\ new[l + 1] = r /\ (\A i \in 1..l : new[i] = turns[i])
      /\ DOMAIN turns = 1..l /\ l \in Nat /\ new \in Seq(TurnRec)
      /\ new # <<>> /\ (turns # <<>> => l # 0)
  OBVIOUS
<1>2. r.id \in 1..MaxTurn /\ \A i \in 1..l : turns[i].id \in 1..MaxTurn
  <2>1. \A i \in 1..l : turns[i] \in TurnRec
    BY <1>1
  <2> QED
    BY <2>1 DEF TurnRec
<1> HIDE DEF new, l
<1>3. r.id \in Ids(new)
  BY <1>1 DEF Ids
<1>4. ASSUME Growing(turns), NotBeyond(turns, r.id - 1) PROVE Growing(new) /\ NotBeyond(new, r.id)
  <2>1. ASSUME NEW i \in 1..l PROVE turns[i].id < r.id
    <3>1. turns[i].id <= r.id - 1
      BY <1>1, <1>4 DEF NotBeyond
    <3> QED
      BY <1>2, <3>1, Bounds
  <2>2. NotBeyond(new, r.id)
    BY <1>1, <1>2, <2>1, Bounds DEF NotBeyond
  <2>3. Growing(new)
    BY <1>1, <1>4, <2>1 DEF Growing
  <2> QED
    BY <2>2, <2>3
<1>5. ASSUME AsWritten(turns) PROVE AsWritten(new)
  BY <1>1, <1>5 DEF AsWritten
<1>6. InOrderTo(turns, r.id - 1) => InOrderTo(new, r.id)
  BY <1>4, <1>5 DEF InOrderTo
<1>7. \A t \in ToSet(turns) : t \in ToSet(new)
  BY <1>1 DEF ToSet
<1> QED
  BY <1>1, <1>3, <1>6, <1>7 DEF new

LEMMA UpToIs ==
  ASSUME NEW turns \in Seq(TurnRec), NEW t \in Ids(turns)
  PROVE  LET new == UpTo(turns, t) IN
         /\ new \in Seq(TurnRec) /\ t \in Ids(new)
         /\ Sorted(turns) => InOrderTo(new, t)
         /\ \A m : JobAhead(turns, m) => JobAhead(new, m)
<1> DEFINE M == {i \in DOMAIN turns : turns[i].id = t}
           k == CHOOSE i \in DOMAIN turns : turns[i].id = t /\ \A j \in 1..(i - 1) : turns[j].id # t
           new == UpTo(turns, t)
<1>1. DOMAIN turns = 1..Len(turns) /\ Len(turns) \in Nat
  OBVIOUS
<1>2. k \in DOMAIN turns /\ turns[k].id = t
  <2>1. M \in SUBSET Nat /\ M # {}
    BY <1>1 DEF Ids
  <2>2. PICK i \in M : \A j \in M : i <= j
    <3> HIDE DEF M
    <3> QED
      BY <2>1, LeastMember
  <2>3. \A j \in 1..(i - 1) : turns[j].id # t
    BY <1>1, <2>2
  <2>4. \E n \in DOMAIN turns : turns[n].id = t /\ \A j \in 1..(n - 1) : turns[j].id # t
    BY <2>2, <2>3
  <2> QED
    BY <2>4
<1>3. new = SubSeq(turns, 1, k)
  BY DEF UpTo
<1> HIDE DEF k, new
<1>4. /\ new \in Seq(TurnRec) /\ DOMAIN new = 1..k /\ k \in 1..Len(turns)
      /\ \A i \in 1..k : new[i] = turns[i] /\ i \in DOMAIN turns
  BY <1>1, <1>2, <1>3
<1>5. t \in Ids(new)
  BY <1>2, <1>4 DEF Ids
<1>6. ASSUME Growing(turns) PROVE Growing(new) /\ NotBeyond(new, t)
  <2>1. Growing(new)
    BY <1>4, <1>6 DEF Growing
  <2>2. \A i \in DOMAIN turns : turns[i].id \in 1..MaxTurn
    <3>1. \A i \in DOMAIN turns : turns[i] \in TurnRec
      OBVIOUS
    <3> QED
      BY <3>1 DEF TurnRec
  <2>3. ASSUME NEW i \in 1..k PROVE new[i].id <= t
    <3>1. i \in Nat /\ k \in Nat /\ i <= k /\ i \in DOMAIN turns /\ new[i] = turns[i]
      BY <1>1, <1>4
    <3>2. i < k => turns[i].id < t
      BY <1>2, <1>6, <3>1 DEF Growing
    <3>3. i = k \/ i < k
      BY <3>1
    <3>4. turns[i].id \in 1..MaxTurn /\ t \in 1..MaxTurn
      BY <1>2, <2>2, <3>1
    <3> QED
      BY <1>2, <3>1, <3>2, <3>3, <3>4
  <2>4. NotBeyond(new, t)
    BY <1>4, <2>3 DEF NotBeyond
  <2> QED
    BY <2>1, <2>4
<1>7. ASSUME AsWritten(turns) PROVE AsWritten(new)
  <2>1. 1 \in 1..k /\ new[1] = turns[1]
    BY <1>1, <1>4
  <2>2. new # <<>>
    BY <1>4, <2>1
  <2> QED
    BY <1>7, <2>1, <2>2 DEF AsWritten
<1>8. Sorted(turns) => InOrderTo(new, t)
  BY <1>6, <1>7 DEF Sorted, InOrderTo
<1>9. \A n : NotBeyond(turns, n) => NotBeyond(new, n)
  BY <1>4 DEF NotBeyond
<1>10. \A m : JobAhead(turns, m) => JobAhead(new, m)
  BY <1>7, <1>9 DEF JobAhead
<1> QED
  BY <1>4, <1>5, <1>8, <1>10 DEF new

LEMMA TurnsJoined ==
  ASSUME NEW turns \in Seq(TurnRec), NEW rest \in Seq(TurnRec)
  PROVE  /\ turns \o rest \in Seq(TurnRec)
         /\ Sorted(turns \o rest) => Sorted(turns)
         /\ rest = <<>> => turns \o rest = turns
         /\ rest # <<>> =>
              /\ Head(rest) \in TurnRec /\ Tail(rest) \in Seq(TurnRec)
              /\ Append(turns, Head(rest)) \in Seq(TurnRec)
              /\ Append(turns, Head(rest)) \o Tail(rest) = turns \o rest
<1>1. turns \o rest \in Seq(TurnRec) /\ (rest = <<>> => turns \o rest = turns)
  OBVIOUS
<1>2. /\ DOMAIN turns \subseteq DOMAIN (turns \o rest)
      /\ \A i \in DOMAIN turns : (turns \o rest)[i] = turns[i]
      /\ turns # <<>> => 1 \in DOMAIN turns
      /\ turns = <<>> => DOMAIN turns = {}
  OBVIOUS
<1>3. Sorted(turns \o rest) => Sorted(turns)
  <2> DEFINE all == turns \o rest
  <2> HIDE DEF all
  <2>1. DOMAIN turns \subseteq DOMAIN all /\ \A i \in DOMAIN turns : all[i] = turns[i]
    BY <1>2 DEF all
  <2>2. Growing(all) => Growing(turns)
    BY <2>1 DEF Growing
  <2>3. AsWritten(all) => AsWritten(turns) \/ Growing(turns)
    BY <1>2, <2>1 DEF AsWritten, Growing
  <2>4. Sorted(all) => Sorted(turns)
    BY <2>2, <2>3 DEF Sorted
  <2> QED
    BY <2>4 DEF all
<1>4. ASSUME rest # <<>>
      PROVE  /\ Head(rest) \in TurnRec /\ Tail(rest) \in Seq(TurnRec)
             /\ Append(turns, Head(rest)) \in Seq(TurnRec)
             /\ Append(turns, Head(rest)) \o Tail(rest) = turns \o rest
  <2>1. Head(rest) \in TurnRec /\ Tail(rest) \in Seq(TurnRec)
    BY <1>4
  <2>2. Append(turns, Head(rest)) \in Seq(TurnRec)
    BY <2>1
  <2>3. Append(turns, Head(rest)) \o Tail(rest) = turns \o rest
    BY <1>4, <2>1, <2>2
  <2> QED
    BY <2>1, <2>2, <2>3
<1> QED
  BY <1>1, <1>3, <1>4

LEMMA CreateWritesAre ==
  ASSUME NEW m \in Manifest, NEW st \in {"seed", "played", "blank"}, NEW rest \in Seq(TurnRec)
  PROVE  LET all == CreateWrites(m, st, rest) IN
         /\ all \in Seq(FileWrite) /\ Len(all) = Len(rest) + 2
         /\ rest = <<>> => all = <<<<"manifest", m>>, <<"state", st>>>>
         /\ rest # <<>> => Head(all) = <<"turn", Head(rest)>> /\ Tail(all) = CreateWrites(m, st, Tail(rest))
<1> DEFINE last == <<<<"manifest", m>>, <<"state", st>>>>
           first == TurnWrites(rest)
           all == CreateWrites(m, st, rest)
<1>1. <<"manifest", m>> \in FileWrite /\ <<"state", st>> \in FileWrite
  BY DEF FileWrite
<1>2. last \in Seq(FileWrite) /\ Len(last) = 2
  BY <1>1
<1>3. /\ DOMAIN first = 1..Len(rest) /\ Len(rest) \in Nat
      /\ \A i \in 1..Len(rest) : first[i] = <<"turn", rest[i]>> /\ first[i] \in FileWrite
  <2>1. \A i \in 1..Len(rest) : rest[i] \in TurnRec
    OBVIOUS
  <2> QED
    BY <2>1 DEF TurnWrites, FileWrite
<1>4. first \in Seq(FileWrite) /\ Len(first) = Len(rest)
  <2>1. first = [i \in 1..Len(rest) |-> first[i]]
    BY DEF TurnWrites
  <2> HIDE DEF first
  <2> QED
    BY <1>3, <2>1
<1>5. all = first \o last
  BY DEF CreateWrites
<1> HIDE DEF first, last, all
<1>6. all \in Seq(FileWrite) /\ Len(all) = Len(rest) + 2
  <2>1. all \in Seq(FileWrite) /\ Len(all) = Len(first) + Len(last)
    BY <1>2, <1>4, <1>5, ConcatProperties, Zenon
  <2> QED
    BY <1>2, <1>4, <2>1
<1>7. rest = <<>> => all = last
  <2>1. rest = <<>> => first = <<>>
    BY <1>4
  <2>2. <<>> \o last = last
    BY <1>2
  <2> QED
    BY <1>5, <2>1, <2>2
<1>8. ASSUME rest # <<>>
      PROVE  Head(all) = <<"turn", Head(rest)>> /\ Tail(all) = CreateWrites(m, st, Tail(rest))
  <2>1. Tail(rest) \in Seq(TurnRec) /\ Len(Tail(rest)) = Len(rest) - 1 /\ Len(rest) > 0
    BY <1>8
  <2>2. Head(all) = <<"turn", Head(rest)>>
    BY <1>2, <1>3, <1>4, <1>5, <2>1
  <2>3. Tail(first) = TurnWrites(Tail(rest))
    <3>1. Tail(first) \in Seq(FileWrite) /\ Len(Tail(first)) = Len(rest) - 1
      BY <1>4, <2>1
    <3>2. TurnWrites(Tail(rest)) = [i \in 1..(Len(rest) - 1) |-> <<"turn", Tail(rest)[i]>>]
      BY <2>1 DEF TurnWrites
    <3>3. \A i \in 1..(Len(rest) - 1) : Tail(first)[i] = <<"turn", Tail(rest)[i]>>
      BY <1>3, <1>4, <2>1
    <3>4. Tail(first) = [i \in 1..(Len(rest) - 1) |-> Tail(first)[i]]
      <4>1. Tail(first) \in Seq(FileWrite) /\ Len(Tail(first)) = Len(rest) - 1
        BY <1>4, <2>1
      <4>2. Tail(first) \in [1..Len(Tail(first)) -> FileWrite]
        BY <4>1, LenProperties, Zenon
      <4> QED
        BY <4>1, <4>2
    <3> QED
      BY <3>2, <3>3, <3>4
  <2>4. Tail(all) = Tail(first) \o last
    BY <1>2, <1>4, <1>5, <2>1
  <2> QED
    BY <2>2, <2>3, <2>4 DEF CreateWrites, last
<1> QED
  BY <1>6, <1>7, <1>8 DEF last, all

\* What replaceStory removes comes before what createStory writes.
LEMMA RemovedFirst ==
  ASSUME NEW m \in Manifest, NEW st \in {"seed", "played", "blank"}, NEW rest \in Seq(TurnRec)
  PROVE  LET all == CreateWrites(m, st, rest)
             a == <<"remove", "turns">>
             b == <<"remove", "manifest">>
             c == <<"remove", "state">>
         IN /\ Head(<<c>> \o all) = c /\ Tail(<<c>> \o all) = all /\ Len(<<c>> \o all) > 1
            /\ Head(<<b, c>> \o all) = b /\ Tail(<<b, c>> \o all) = <<c>> \o all /\ Len(<<b, c>> \o all) > 1
            /\ Head(<<a, b, c>> \o all) = a /\ Tail(<<a, b, c>> \o all) = <<b, c>> \o all
            /\ Len(<<a, b, c>> \o all) > 1
            /\ <<a, b, c>> \o all \in Seq(FileWrite)
<1> DEFINE all == CreateWrites(m, st, rest)
           a == <<"remove", "turns">>
           b == <<"remove", "manifest">>
           c == <<"remove", "state">>
<1>1. all \in Seq(FileWrite) /\ Len(all) > 1
  BY CreateWritesAre
<1>2. a \in FileWrite /\ b \in FileWrite /\ c \in FileWrite
  BY DEF FileWrite
<1> HIDE DEF all, a, b, c
<1>3. Head(<<c>> \o all) = c /\ Tail(<<c>> \o all) = all /\ Len(<<c>> \o all) > 1
  BY <1>1, <1>2
<1>4. Head(<<b, c>> \o all) = b /\ Tail(<<b, c>> \o all) = <<c>> \o all /\ Len(<<b, c>> \o all) > 1
  BY <1>1, <1>2
<1>5. /\ Head(<<a, b, c>> \o all) = a /\ Tail(<<a, b, c>> \o all) = <<b, c>> \o all
      /\ Len(<<a, b, c>> \o all) > 1 /\ <<a, b, c>> \o all \in Seq(FileWrite)
  BY <1>1, <1>2
<1> QED
  BY <1>3, <1>4, <1>5 DEF all, a, b, c

----------------------------------------------------------------------------
(* One story of the directory is written *)

LEMMA OneWritten ==
  ASSUME dir \in [Dirs -> File], NEW d \in Dirs, NEW g \in File, dir' = [dir EXCEPT ![d] = g]
  PROVE  /\ dir' \in [Dirs -> File] /\ dir'[d] = g
         /\ \A e \in Dirs : e # d => dir'[e] = dir[e]
         /\ g.manifest # Nil => Listed' = Listed \cup {d}
         /\ g.manifest = Nil => Listed' = Listed \ {d}
<1>1. dir' \in [Dirs -> File] /\ dir'[d] = g /\ \A e \in Dirs : e # d => dir'[e] = dir[e]
  OBVIOUS
<1> QED
  BY <1>1 DEF Listed

LEMMA Served ==
  ASSUME StoryInv
  PROVE  /\ Listed \subseteq Dirs
         /\ \A d \in Listed : /\ dir[d] \in File /\ dir[d].made = TRUE
                              /\ dir[d].manifest \in Manifest /\ dir[d].turns \in Seq(TurnRec)
                              /\ Listed = {d} /\ Story = d
         /\ Listed # {} => Story \in Listed
         /\ edit # Nil => pc = "up" /\ work = NoWork
<1>1. Listed \subseteq Dirs /\ \A d \in Listed : dir[d] \in File
  BY DEF StoryInv, StoryTypeOK, Listed
<1>2. ASSUME NEW d \in Listed
      PROVE  /\ dir[d].made = TRUE
             /\ dir[d].manifest \in Manifest /\ dir[d].turns \in Seq(TurnRec)
             /\ Listed = {d} /\ Story = d
  <2>1. dir[d].manifest \in Manifest /\ dir[d].turns \in Seq(TurnRec) /\ dir[d].made \in BOOLEAN
    BY <1>1 DEF File, Listed
  <2>2. dir[d].made = TRUE
    BY <1>1, <2>1 DEF StoryInv, StartInv, Listed, Empty
  <2>3. Listed = {d}
    BY DEF StoryInv, StartInv
  <2>4. Story = d
    BY <2>3 DEF Story
  <2> QED
    BY <2>1, <2>2, <2>3, <2>4
<1>3. Listed # {} => Story \in Listed
  BY DEF Story
<1>4. edit # Nil => pc = "up" /\ work = NoWork
  BY DEF StoryInv, StartInv, Up
<1> QED
  BY <1>1, <1>2, <1>3, <1>4

\* What the invariant says of the stories, in terms of what stands there then.
LEMMA StoriesKept ==
  ASSUME jumbled' = jumbled,
         ASSUME ~outpaced', NEW e \in Dirs
         PROVE  /\ Sorted(dir'[e].turns)
                /\ e \in Listed' => /\ InOrderTo(dir'[e].turns, dir'[e].manifest.cur)
                                    /\ JobAhead(dir'[e].turns, dir'[e].manifest)
  PROVE  StoriesInv'
  BY DEF StoriesInv, Sorted, InOrderTo, AsWritten, JobAhead, Growing, NotBeyond

\* A story that is there is changed in one go, while no start writes one.
LEMMA StoryChanged ==
  ASSUME StoryInv, NEW d \in Listed, NEW g \in File, dir' = [dir EXCEPT ![d] = g],
         g.manifest # Nil, g.made = dir[d].made,
         work = NoWork, work' = NoWork, UNCHANGED <<source, deaths, halved, jumbled>>,
         pc' \in {"refresh", "up"},
         edit' = Nil \/ (edit' = edit /\ pc' = pc),
         outpaced' \in BOOLEAN, outpaced => outpaced', adrift' \in BOOLEAN,
         ~outpaced' => /\ InOrderTo(g.turns, g.manifest.cur)
                       /\ JobAhead(g.turns, g.manifest),
         ~halved => g.state \notin {Nil, "blank"},
         pc' = "up" /\ ~outpaced' /\ ~adrift' => g.manifest.cur \in Ids(g.turns)
  PROVE  StoryInv'
<1>1. d \in Dirs /\ Listed = {d} /\ dir[d].made = TRUE /\ dir \in [Dirs -> File]
  BY Served DEF StoryInv, StoryTypeOK
<1>2. /\ dir' \in [Dirs -> File] /\ dir'[d] = g
      /\ (\A e \in Dirs : e # d => dir'[e] = dir[e])
      /\ Listed' = {d}
  BY <1>1, OneWritten
<1>3. StoryTypeOK'
  <2>1. work' \in [dir : Dirs \cup {Nil}, writes : Seq(FileWrite)]
    BY DEF StoryInv, StoryTypeOK
  <2>2. edit' \in [dir : Dirs, manifest : Manifest] \cup {Nil}
    BY DEF StoryInv, StoryTypeOK
  <2> QED
    BY <1>2, <2>1, <2>2 DEF StoryInv, StoryTypeOK
<1>4. WorkInv'
  BY DEF WorkInv, NoWork
<1>5. StartInv'
  <2>1. \A e \in Dirs : ~dir'[e].made => dir'[e] = Empty
    BY <1>1, <1>2 DEF StoryInv, StartInv
  <2>2. edit' # Nil => pc' = "up" /\ edit'.dir \in Listed'
    BY <1>1, <1>2 DEF StoryInv, StartInv, Up
  <2>3. work' = NoWork'
    BY DEF NoWork
  <2> QED
    BY <1>2, <2>1, <2>2, <2>3 DEF StartInv, Up, Empty
<1>6. StoriesInv'
  <2>1. ASSUME ~outpaced', NEW e \in Dirs
        PROVE  /\ Sorted(dir'[e].turns)
               /\ e \in Listed' => /\ InOrderTo(dir'[e].turns, dir'[e].manifest.cur)
                                   /\ JobAhead(dir'[e].turns, dir'[e].manifest)
    <3>1. CASE e = d
      BY <1>2, <2>1, <3>1 DEF InOrderTo, Sorted
    <3>2. CASE e # d
      BY <1>2, <2>1, <3>2 DEF StoryInv, StoriesInv
    <3> QED
      BY <3>1, <3>2
  <2>2. jumbled' = jumbled
    OBVIOUS
  <2> QED
    BY <2>1, <2>2, StoriesKept
<1>7. StatesInv'
  BY <1>2 DEF StatesInv
<1>8. ServedInv'
  BY <1>2 DEF ServedInv, Up, Ids
<1> QED
  BY <1>3, <1>4, <1>5, <1>6, <1>7, <1>8 DEF StoryInv

----------------------------------------------------------------------------
(* The actions *)

LEMMA ManifestIs ==
  ASSUME NEW m \in Manifest
  PROVE  /\ m.cur \in 0..MaxTurn /\ m.job \in 0..MaxTurn
         /\ \A c, j \in 0..MaxTurn : /\ [m EXCEPT !.cur = c, !.job = j] \in Manifest
                                     /\ [m EXCEPT !.job = j] \in Manifest
                                     /\ [m EXCEPT !.cur = c] \in Manifest
  BY DEF Manifest

\* A manifest whose current turn is raised, as an import and a refresh do.
RaisedTo(m, n) == [m EXCEPT !.cur = Larger(m.cur, n), !.hash = source]

LEMMA Raised ==
  ASSUME NEW m \in Manifest, NEW n \in 0..MaxTurn, source \in 0..Len(Versions), source # 0,
         NEW new, new = RaisedTo(m, n)
  PROVE  /\ new \in Manifest /\ new.job = m.job
         /\ new.cur \in {m.cur, n} /\ new.cur >= m.cur /\ new.cur >= n
         /\ m.cur \in 0..MaxTurn /\ m.job \in 0..MaxTurn
<1>1. /\ m.cur \in 0..MaxTurn /\ m.job \in 0..MaxTurn
      /\ Larger(m.cur, n) \in {m.cur, n} /\ Larger(m.cur, n) >= m.cur /\ Larger(m.cur, n) >= n
  BY Bounds DEF Manifest, Larger
<1>2. source \in 1..Len(Versions) /\ Larger(m.cur, n) \in 0..MaxTurn
  BY <1>1, Bounds
<1> QED
  BY <1>1, <1>2 DEF Manifest, RaisedTo

LEMMA ImportedIs ==
  ASSUME NEW m \in Manifest, source \in 0..Len(Versions), source # 0
  PROVE  /\ Imported(m) \in Manifest /\ Imported(m).job = m.job /\ Imported(m).cur >= m.cur
         /\ m.cur \in 0..MaxTurn /\ m.job \in 0..MaxTurn
<1>1. DraftTurn \in 0..MaxTurn
  BY DraftIs, Bounds
<1> QED
  BY <1>1, Raised DEF Imported, RaisedTo

\* The pc moves, the story does not.
LEMMA PcMoves ==
  ASSUME StoryInv, work = NoWork, edit = Nil, pc' \in {"down", "import"},
         UNCHANGED <<source, dir, work, edit, deaths, traces>>
  PROVE  StoryInv'
<1>1. StoryTypeOK'
  BY DEF StoryInv, StoryTypeOK
<1>2. WorkInv'
  BY DEF WorkInv, NoWork
<1>3. StartInv'
  BY DEF StoryInv, StartInv, Listed, NoWork, Empty
<1>4. StoriesInv' /\ StatesInv'
  BY DEF StoryInv, StoriesInv, StatesInv, Listed, Sorted, InOrderTo, AsWritten, JobAhead, Growing, NotBeyond, StateLeft
<1>5. ServedInv'
  BY DEF ServedInv, Up
<1> QED
  BY <1>1, <1>2, <1>3, <1>4, <1>5 DEF StoryInv

LEMMA StartBegins == ASSUME StoryInv, BeginStart PROVE StoryInv'
<1>1. work = NoWork /\ edit = Nil
  BY Served DEF BeginStart, StoryInv, StartInv
<1> QED
  BY <1>1, PcMoves DEF BeginStart

LEMMA StartHasFailed == ASSUME StoryInv, StartFails PROVE StoryInv'
<1>1. work = NoWork /\ edit = Nil
  BY Served DEF StartFails
<1> QED
  BY <1>1, PcMoves DEF StartFails

\* The draft is edited or goes while nothing is written.
LEMMA SourceMoves ==
  ASSUME StoryInv, work = NoWork, source' \in 0..Len(Versions),
         UNCHANGED <<dir, pc, work, edit, deaths, traces>>
  PROVE  StoryInv'
<1>1. StoryTypeOK'
  BY DEF StoryInv, StoryTypeOK
<1>2. WorkInv'
  BY DEF WorkInv, NoWork
<1>3. StartInv'
  BY DEF StoryInv, StartInv, Listed, NoWork, Empty, Up
<1>4. StoriesInv' /\ StatesInv'
  BY DEF StoryInv, StoriesInv, StatesInv, Listed, Sorted, InOrderTo, AsWritten, JobAhead, Growing, NotBeyond, StateLeft
<1>5. ServedInv'
  BY DEF StoryInv, ServedInv, Up, Listed, NoWork, Ids
<1> QED
  BY <1>1, <1>2, <1>3, <1>4, <1>5 DEF StoryInv

LEMMA SourceEdited == ASSUME StoryInv, EditSource \/ RejectSource PROVE StoryInv'
<1>1. source' \in 0..Len(Versions)
  BY Bounds DEF StoryInv, StoryTypeOK, EditSource, RejectSource
<1> QED
  BY <1>1, SourceMoves DEF EditSource, RejectSource

LEMMA ServerDied == ASSUME StoryInv, Die PROVE StoryInv'
<1>1. StoryTypeOK'
  BY Bounds DEF Die, StoryInv, StoryTypeOK, NoWork, FileWrite
<1>2. WorkInv'
  BY DEF Die, WorkInv, NoWork
<1>3. StartInv'
  BY DEF Die, StoryInv, StartInv, Listed, NoWork, Empty
<1>4. StoriesInv'
  BY DEF Die, StoryInv, StoriesInv, Listed, Sorted, InOrderTo, AsWritten, JobAhead, Growing, NotBeyond
<1>5. StatesInv'
  BY DEF Die, StoryInv, StatesInv, StateLeft, Listed
<1>6. ServedInv'
  BY DEF Die, ServedInv, Up
<1> QED
  BY <1>1, <1>2, <1>3, <1>4, <1>5, <1>6 DEF StoryInv

LEMMA StoryStays == ASSUME StoryInv, UNCHANGED storyVars PROVE StoryInv'
<1>1. StoryTypeOK' /\ StartInv' /\ StoriesInv' /\ StatesInv' /\ ServedInv'
  BY DEF storyVars, StoryInv, StoryTypeOK, StartInv, StoriesInv, StatesInv, ServedInv, StateLeft,
         Listed, Up, NoWork, Empty, Sorted, InOrderTo, AsWritten, JobAhead, Growing, NotBeyond, Ids
<1>2. ASSUME work = NoWork PROVE WorkInv'
  <2>1. work' = NoWork
    BY <1>2 DEF storyVars
  <2> QED
    BY <2>1 DEF WorkInv, NoWork
<1>3. ASSUME work # NoWork PROVE WorkInv'
  <2>1. PICK m \in Manifest, st \in {"seed", "played", "blank"}, rest \in Seq(TurnRec) :
          Writing(m, st, rest)
    BY <1>3 DEF StoryInv, WorkInv
  <2>2. Writing(m, st, rest)'
    <3>1. UNCHANGED <<work, dir, source, outpaced, halved, jumbled>>
      BY DEF storyVars
    <3>2. /\ HistoryTurn' = HistoryTurn
          /\ \A f : Fits(m, st, f) => Fits(m, st, f)'
      BY <3>1 DEF Fits, InOrderTo, AsWritten, JobAhead, Growing, NotBeyond, Ids,
                  HistoryTurn, History, Headings
    <3> QED
      BY <2>1, <3>1, <3>2 DEF Writing, NotBeyond
  <2> QED
    <3>1. work'.dir \in Dirs
      BY <1>3 DEF storyVars, StoryInv, WorkInv
    <3> QED
      BY <2>2, <3>1 DEF WorkInv
<1> QED
  BY <1>1, <1>2, <1>3 DEF StoryInv

LEMMA ImportedAgain == ASSUME StoryInv, ImportAgain PROVE StoryInv'
<1> DEFINE d == Story
           m == dir[d].manifest
           g == [dir[d] EXCEPT !.manifest = Imported(m)]
<1>1. /\ d \in Listed /\ dir[d] \in File /\ m \in Manifest /\ dir[d].turns \in Seq(TurnRec)
      /\ edit = Nil /\ work = NoWork /\ d \in Dirs
  BY Served DEF ImportAgain, NotImported, StoryInv, StartInv
<1>2. Imported(m) \in Manifest /\ Imported(m).job = m.job /\ Imported(m).cur >= m.cur
      /\ m.cur \in 0..MaxTurn /\ m.job \in 0..MaxTurn
  BY <1>1, ImportedIs DEF StoryInv, StoryTypeOK, ImportAgain
<1>3. /\ g \in File /\ g.manifest = Imported(m) /\ g.turns = dir[d].turns
      /\ g.state = dir[d].state /\ g.made = dir[d].made /\ g.manifest # Nil
  BY <1>1, <1>2, NilAssumption DEF File
<1>4. dir' = [dir EXCEPT ![d] = g] /\ UNCHANGED traces
  BY DEF ImportAgain
<1>5. ASSUME ~outpaced
      PROVE  /\ InOrderTo(g.turns, g.manifest.cur)
             /\ JobAhead(g.turns, g.manifest)
  <2>1. InOrderTo(dir[d].turns, m.cur) /\ JobAhead(dir[d].turns, m)
    BY <1>1, <1>5 DEF StoryInv, StoriesInv
  <2>2. Imported(m).cur \in 0..MaxTurn
    BY <1>2 DEF Manifest
  <2>3. JobAhead(dir[d].turns, Imported(m))
    BY <1>2, <2>1 DEF JobAhead
  <2>4. InOrderTo(dir[d].turns, Imported(m).cur)
    BY <1>1, <1>2, <2>1, <2>2, InOrderMore, Bounds
  <2> QED
    BY <1>3, <2>3, <2>4
<1>6. ~halved => g.state \notin {Nil, "blank"}
  BY <1>1, <1>3 DEF StoryInv, StatesInv, StateLeft, NoWork
<1>7. outpaced \in BOOLEAN /\ adrift \in BOOLEAN
  BY DEF StoryInv, StoryTypeOK
<1>8. /\ pc' = "refresh" /\ edit' = Nil /\ work' = work
      /\ UNCHANGED <<source, deaths, halved, jumbled, outpaced, adrift>>
  BY <1>1 DEF ImportAgain, traces
<1>9. /\ ~outpaced' => InOrderTo(g.turns, g.manifest.cur) /\ JobAhead(g.turns, g.manifest)
      /\ outpaced' \in BOOLEAN /\ adrift' \in BOOLEAN /\ (outpaced => outpaced')
  BY <1>5, <1>7, <1>8
<1>10. /\ work = NoWork /\ work' = NoWork /\ g.manifest # Nil /\ g.made = dir[d].made
       /\ pc' \in {"refresh", "up"} /\ pc' # "up"
  BY <1>1, <1>3, <1>8
<1> HIDE DEF g, d, m
<1> QED
  BY <1>1, <1>3, <1>4, <1>6, <1>8, <1>9, <1>10, StoryChanged

LEMMA Submitted == ASSUME StoryInv, Submit PROVE StoryInv'
<1>1. PICK d \in Listed :
        /\ dir[d].manifest.job = 0 /\ dir[d].turns # <<>> /\ Last(dir[d].turns).id < MaxTurn
        /\ dir' = [dir EXCEPT ![d].manifest.job = Last(dir[d].turns).id + 1]
  BY DEF Submit
<1> DEFINE m == dir[d].manifest
           l == Last(dir[d].turns).id
           n == [m EXCEPT !.job = l + 1]
           g == [dir[d] EXCEPT !.manifest = n]
<1>2. /\ dir[d] \in File /\ m \in Manifest /\ work = NoWork /\ pc = "up" /\ d \in Dirs
      /\ dir[d].turns \in Seq(TurnRec)
  BY Served DEF Submit, Up
<1>0. l \in 1..MaxTurn /\ (Growing(dir[d].turns) => NotBeyond(dir[d].turns, l))
  BY <1>1, <1>2, LastIs
<1>3. n \in Manifest /\ n.cur = m.cur /\ n.job = l + 1
  <2>0. l < MaxTurn
    BY <1>1
  <2> HIDE DEF m, l
  <2>1. l + 1 \in 0..MaxTurn
    BY <1>0, <2>0, Bounds
  <2> QED
    BY <1>2, <2>1, ManifestIs DEF Manifest
<1>4. /\ g \in File /\ g.manifest = n /\ g.turns = dir[d].turns
      /\ g.state = dir[d].state /\ g.made = dir[d].made /\ g.manifest # Nil
  BY <1>2, <1>3, NilAssumption DEF File
<1>5. dir' = [dir EXCEPT ![d] = g]
  BY <1>1
<1>6. UNCHANGED <<source, pc, work, edit, deaths, traces>>
  BY DEF Submit
<1>7. ~outpaced => /\ InOrderTo(g.turns, g.manifest.cur)
                   /\ JobAhead(g.turns, g.manifest)
  <2>1. ~outpaced => InOrderTo(dir[d].turns, m.cur)
    BY <1>2 DEF StoryInv, StoriesInv
  <2>2. n.job - 1 = l
    <3> HIDE DEF l, n
    <3> QED
      BY <1>0, <1>3, Bounds
  <2>3. InOrderTo(dir[d].turns, m.cur) => JobAhead(dir[d].turns, n)
    <3> HIDE DEF l, n, m
    <3> QED
      BY <1>0, <2>2 DEF JobAhead, InOrderTo
  <2> HIDE DEF g, m, n
  <2> QED
    BY <1>3, <1>4, <2>1, <2>3
<1>8. ~halved => g.state \notin {Nil, "blank"}
  BY <1>2, <1>4 DEF StoryInv, StatesInv, StateLeft, NoWork
<1>9. ~outpaced /\ ~adrift => g.manifest.cur \in Ids(g.turns)
  BY <1>1, <1>2, <1>3, <1>4 DEF StoryInv, ServedInv, Up
<1>10. outpaced \in BOOLEAN /\ adrift \in BOOLEAN
  BY DEF StoryInv, StoryTypeOK
<1> HIDE DEF g, m, n, l
<1> QED
  BY <1>2, <1>4, <1>5, <1>6, <1>7, <1>8, <1>9, <1>10, StoryChanged

\* The manifest is written with another job, or none, or one that failed.
LEMMA JobRewritten ==
  ASSUME StoryInv, NEW d \in Listed, NEW n \in Manifest, work = NoWork, pc = "up",
         dir' = [dir EXCEPT ![d].manifest = n], n.cur = dir[d].manifest.cur,
         n.job \in {0, dir[d].manifest.job},
         UNCHANGED <<source, pc, work, edit, deaths, traces>>
  PROVE  StoryInv'
<1> DEFINE m == dir[d].manifest
           g == [dir[d] EXCEPT !.manifest = n]
<1>1. dir[d] \in File /\ m \in Manifest /\ d \in Dirs
  BY Served
<1>2. /\ g \in File /\ g.manifest = n /\ g.turns = dir[d].turns
      /\ g.state = dir[d].state /\ g.made = dir[d].made /\ g.manifest # Nil
  BY <1>1, NilAssumption DEF File
<1>3. dir' = [dir EXCEPT ![d] = g]
  OBVIOUS
<1>4. ~outpaced => InOrderTo(g.turns, g.manifest.cur) /\ JobAhead(g.turns, g.manifest)
  <2>1. ~outpaced => InOrderTo(dir[d].turns, m.cur) /\ JobAhead(dir[d].turns, m)
    BY <1>1 DEF StoryInv, StoriesInv
  <2>2. JobAhead(dir[d].turns, m) => JobAhead(dir[d].turns, n)
    BY DEF JobAhead
  <2> HIDE DEF g
  <2> QED
    BY <1>2, <2>1, <2>2
<1>5. ~halved => g.state \notin {Nil, "blank"}
  BY <1>2 DEF StoryInv, StatesInv, StateLeft, NoWork
<1>6. ~outpaced /\ ~adrift => g.manifest.cur \in Ids(g.turns)
  BY <1>1, <1>2 DEF StoryInv, ServedInv, Up
<1>7. outpaced \in BOOLEAN /\ adrift \in BOOLEAN
  BY DEF StoryInv, StoryTypeOK
<1> HIDE DEF g, m
<1> QED
  BY <1>2, <1>3, <1>4, <1>5, <1>6, <1>7, StoryChanged

LEMMA JobMoves == ASSUME StoryInv, Fail \/ ResumeFailedJob \/ CancelFailedJob PROVE StoryInv'
<1>1. PICK d \in Listed : \E f \in BOOLEAN : \E j \in {0, dir[d].manifest.job} :
        dir' = [dir EXCEPT ![d].manifest = [dir[d].manifest EXCEPT !.job = j, !.failed = f]]
  <2>1. ASSUME NEW d \in Listed, NEW f \in BOOLEAN, dir' = [dir EXCEPT ![d].manifest.failed = f]
        PROVE  dir' = [dir EXCEPT ![d].manifest =
                         [dir[d].manifest EXCEPT !.job = dir[d].manifest.job, !.failed = f]]
    <3>1. d \in Dirs /\ dir[d] \in File /\ dir[d].manifest \in Manifest
      BY Served
    <3>2. [dir[d].manifest EXCEPT !.failed = f]
            = [dir[d].manifest EXCEPT !.job = dir[d].manifest.job, !.failed = f]
      BY <3>1 DEF Manifest
    <3> QED
      BY <2>1, <3>1, <3>2
  <2>2. CASE Fail
    BY <2>1, <2>2 DEF Fail
  <2>3. CASE ResumeFailedJob
    BY <2>1, <2>3 DEF ResumeFailedJob
  <2>4. CASE CancelFailedJob
    <3>1. PICK d \in Listed : dir' = [dir EXCEPT ![d].manifest.job = 0, ![d].manifest.failed = FALSE]
      BY <2>4 DEF CancelFailedJob
    <3>2. dir' = [dir EXCEPT ![d].manifest =
                    [dir[d].manifest EXCEPT !.job = 0, !.failed = FALSE]]
      BY <3>1, Served
    <3> QED
      BY <3>2
  <2> QED
    BY <2>2, <2>3, <2>4
<1>2. PICK f \in BOOLEAN, j \in {0, dir[d].manifest.job} :
        dir' = [dir EXCEPT ![d].manifest = [dir[d].manifest EXCEPT !.job = j, !.failed = f]]
  BY <1>1
<1> DEFINE m == dir[d].manifest
           n == [m EXCEPT !.job = j, !.failed = f]
<1>3. /\ m \in Manifest /\ work = NoWork /\ pc = "up"
      /\ UNCHANGED <<source, pc, work, edit, deaths, traces>>
  BY Served DEF Fail, ResumeFailedJob, CancelFailedJob, Up
<1>4. n \in Manifest /\ n.cur = m.cur /\ n.job = j
  <2>1. 0 \in 0..MaxTurn
    BY Bounds
  <2>2. j \in 0..MaxTurn
    BY <1>3, <2>1, ManifestIs
  <2> HIDE DEF m
  <2> QED
    BY <1>3, <2>2 DEF Manifest
<1>5. n.job \in {0, m.job}
  BY <1>4
<1>6. dir' = [dir EXCEPT ![d].manifest = n]
  BY <1>2
<1> HIDE DEF n
<1> QED
  BY <1>3, <1>4, <1>5, <1>6, JobRewritten

LEMMA Applied == ASSUME StoryInv, Apply PROVE StoryInv'
<1>1. PICK d \in Listed :
        /\ dir[d].manifest.job # 0
        /\ dir' = [dir EXCEPT ![d].turns = Append(@, [id |-> dir[d].manifest.job, by |-> "played"]),
                              ![d].manifest = [dir[d].manifest EXCEPT !.cur = dir[d].manifest.job, !.job = 0],
                              ![d].state = IF @ \in {Nil, "blank"} THEN "blank" ELSE "played"]
  BY DEF Apply
<1> DEFINE m == dir[d].manifest
           n == [m EXCEPT !.cur = m.job, !.job = 0]
           r == [id |-> m.job, by |-> "played"]
           t == Append(dir[d].turns, r)
           st == IF dir[d].state \in {Nil, "blank"} THEN "blank" ELSE "played"
           g == [dir[d] EXCEPT !.turns = t, !.manifest = n, !.state = st]
<1>2. /\ dir[d] \in File /\ m \in Manifest /\ work = NoWork /\ pc = "up" /\ d \in Dirs
      /\ dir[d].turns \in Seq(TurnRec)
  BY Served DEF Apply, Up
<1>3. /\ n \in Manifest /\ n.cur = m.job /\ n.job = 0 /\ m.job \in 1..MaxTurn
      /\ m.cur \in 0..MaxTurn
  <2>0. m.job # 0
    BY <1>1
  <2> HIDE DEF m
  <2>1. m.cur \in 0..MaxTurn /\ m.job \in 0..MaxTurn
    BY <1>2, ManifestIs
  <2>2. 0 \in 0..MaxTurn /\ m.job \in 1..MaxTurn
    BY <2>0, <2>1, Bounds
  <2>3. n \in Manifest
    BY <1>2, <2>1, <2>2, ManifestIs
  <2>4. n.cur = m.job /\ n.job = 0
    BY <1>2 DEF Manifest
  <2> QED
    BY <2>1, <2>2, <2>3, <2>4
<1>4. r \in TurnRec /\ r.id = m.job
  BY <1>3 DEF TurnRec
<1>5. t \in Seq(TurnRec) /\ m.job \in Ids(t)
      /\ (InOrderTo(dir[d].turns, m.job - 1) => InOrderTo(t, m.job))
  <2> HIDE DEF r
  <2> QED
    BY <1>2, <1>4, TurnAppended
<1>6. /\ g \in File /\ g.manifest = n /\ g.turns = t
      /\ g.state = st /\ g.made = dir[d].made /\ g.manifest # Nil
  <2> HIDE DEF t, n
  <2> QED
    BY <1>2, <1>3, <1>5, NilAssumption DEF File
<1>7. dir' = [dir EXCEPT ![d] = g]
  BY <1>1
<1>8. UNCHANGED <<source, pc, work, edit, deaths, traces>>
  BY DEF Apply
<1>9. ASSUME ~outpaced
      PROVE  /\ InOrderTo(g.turns, g.manifest.cur)
             /\ JobAhead(g.turns, g.manifest)
  <2>1. InOrderTo(dir[d].turns, m.cur) /\ JobAhead(dir[d].turns, m)
    BY <1>2, <1>9 DEF StoryInv, StoriesInv
  <2>2. m.job # 0
    BY <1>1
  <2>3. InOrderTo(dir[d].turns, m.job - 1)
    BY <2>1, <2>2 DEF InOrderTo, JobAhead
  <2>4. JobAhead(t, n)
    BY <1>3 DEF JobAhead
  <2> HIDE DEF g, t, n, m
  <2> QED
    BY <1>3, <1>5, <1>6, <2>3, <2>4
<1>10. ~halved => g.state \notin {Nil, "blank"}
  BY <1>2, <1>6, NilAssumption DEF StoryInv, StatesInv, StateLeft, NoWork
<1>11. g.manifest.cur \in Ids(g.turns)
  BY <1>3, <1>5, <1>6
<1>12. outpaced \in BOOLEAN /\ adrift \in BOOLEAN
  BY DEF StoryInv, StoryTypeOK
<1> HIDE DEF g, m, n, r, t, st
<1> QED
  BY <1>2, <1>6, <1>7, <1>8, <1>9, <1>10, <1>11, <1>12, StoryChanged

LEMMA RolledBack == ASSUME StoryInv, Rollback PROVE StoryInv'
<1>0. PICK d \in Listed : \E t \in Ids(dir[d].turns) :
        dir' = [dir EXCEPT ![d].turns = UpTo(@, t), ![d].manifest.cur = t]
  BY DEF Rollback
<1>1. PICK t \in Ids(dir[d].turns) :
        dir' = [dir EXCEPT ![d].turns = UpTo(@, t), ![d].manifest.cur = t]
  BY <1>0
<1> DEFINE m == dir[d].manifest
           n == [m EXCEPT !.cur = t]
           u == UpTo(dir[d].turns, t)
           g == [dir[d] EXCEPT !.turns = u, !.manifest = n]
<1>2. /\ dir[d] \in File /\ m \in Manifest /\ work = NoWork /\ pc = "up" /\ d \in Dirs
      /\ dir[d].turns \in Seq(TurnRec)
  BY Served DEF Rollback, Up
<1>3. dir[d].turns \in Seq(TurnRec) /\ d \in Dirs
  BY <1>2
<1>4. t \in 1..MaxTurn
  BY <1>2, IdsAre
<1>5. n \in Manifest /\ n.cur = t /\ n.job = m.job /\ m.cur \in 0..MaxTurn /\ m.job \in 0..MaxTurn
  <2> HIDE DEF m
  <2>1. t \in 0..MaxTurn
    BY <1>4, Bounds
  <2> QED
    BY <1>2, <2>1, ManifestIs DEF Manifest
<1>6. /\ u \in Seq(TurnRec) /\ t \in Ids(u) /\ (Sorted(dir[d].turns) => InOrderTo(u, t))
      /\ JobAhead(dir[d].turns, m) => JobAhead(u, m)
  BY <1>2, UpToIs
<1>7. /\ g \in File /\ g.manifest = n /\ g.turns = u
      /\ g.state = dir[d].state /\ g.made = dir[d].made /\ g.manifest # Nil
  <2> HIDE DEF u, n
  <2> QED
    BY <1>2, <1>5, <1>6, NilAssumption DEF File
<1>8. dir' = [dir EXCEPT ![d] = g]
  BY <1>1
<1>9. UNCHANGED <<source, pc, work, edit, deaths, traces>>
  BY DEF Rollback
<1>10. ASSUME ~outpaced
       PROVE  InOrderTo(g.turns, g.manifest.cur) /\ JobAhead(g.turns, g.manifest)
  <2>1. Sorted(dir[d].turns) /\ JobAhead(dir[d].turns, m)
    BY <1>2, <1>10 DEF StoryInv, StoriesInv
  <2>2. JobAhead(u, m) => JobAhead(u, n)
    <3> HIDE DEF m, n, u
    <3> QED
      BY <1>5 DEF JobAhead
  <2> HIDE DEF g, u, n, m
  <2> QED
    BY <1>5, <1>6, <1>7, <2>1, <2>2
<1>11. ~halved => g.state \notin {Nil, "blank"}
  BY <1>2, <1>7 DEF StoryInv, StatesInv, StateLeft, NoWork
<1>12. g.manifest.cur \in Ids(g.turns)
  BY <1>5, <1>6, <1>7
<1>13. outpaced \in BOOLEAN /\ adrift \in BOOLEAN
  BY DEF StoryInv, StoryTypeOK
<1> HIDE DEF g, m, n, u
<1> QED
  BY <1>2, <1>7, <1>8, <1>9, <1>10, <1>11, <1>12, <1>13, StoryChanged

LEMMA ImportRead == ASSUME StoryInv, BeginImport PROVE StoryInv'
<1>1. PICK d \in Listed :
        edit' = [dir |-> d, manifest |-> Imported(dir[d].manifest)]
  BY DEF BeginImport
<1>2. /\ UNCHANGED <<source, dir, pc, work, deaths, traces>>
      /\ source # 0 /\ pc = "up" /\ work = NoWork
  BY DEF BeginImport, Up
<1>3. d \in Dirs /\ dir[d].manifest \in Manifest
  BY Served
<1> DEFINE m == dir[d].manifest
<1>4. Imported(m) \in Manifest /\ Imported(m).job = m.job /\ Imported(m).cur >= m.cur
  BY <1>2, <1>3, ImportedIs DEF StoryInv, StoryTypeOK
<1>5. StoryTypeOK'
  <2>1. edit' \in [dir : Dirs, manifest : Manifest]
    <3> HIDE DEF m
    <3> QED
      BY <1>1, <1>3, <1>4 DEF m
  <2> QED
    BY <1>2, <2>1 DEF StoryInv, StoryTypeOK
<1>6. WorkInv'
  BY <1>2 DEF WorkInv, NoWork
<1>7. StartInv'
  <2>1. edit'.dir \in Listed'
    BY <1>1, <1>2 DEF Listed
  <2> QED
    BY <1>2, <2>1 DEF StoryInv, StartInv, Listed, Up, NoWork, Empty
<1>8. StoriesInv'
  BY <1>2 DEF StoryInv, StoriesInv, Listed, Sorted, InOrderTo, AsWritten, JobAhead, Growing, NotBeyond
<1>9. StatesInv' /\ ServedInv'
  BY <1>2 DEF StoryInv, StatesInv, ServedInv, StateLeft, Listed, Up, NoWork, Ids
<1> QED
  BY <1>5, <1>6, <1>7, <1>8, <1>9 DEF StoryInv

LEMMA ImportWritten == ASSUME StoryInv, EndImport PROVE StoryInv'
<1> DEFINE d == edit.dir
           m == dir[d].manifest
           n == edit.manifest
           g == [dir[d] EXCEPT !.manifest = n]
<1>1. /\ edit # Nil /\ work = NoWork /\ pc = "up"
      /\ dir' = [dir EXCEPT ![d] = g]
      /\ outpaced' = (outpaced \/ n # [m EXCEPT !.hash = n.hash])
      /\ edit' = Nil /\ UNCHANGED <<source, pc, work, deaths, adrift, halved, jumbled>>
  BY DEF EndImport, Up
<1>2. d \in Listed /\ n \in Manifest
  BY <1>1 DEF StoryInv, StoryTypeOK, StartInv
<1>3. dir[d] \in File /\ m \in Manifest /\ d \in Dirs
  BY <1>2, Served
<1>4. /\ g \in File /\ g.manifest = n /\ g.turns = dir[d].turns
      /\ g.state = dir[d].state /\ g.made = dir[d].made /\ g.manifest # Nil
  <2> HIDE DEF n
  <2> QED
    BY <1>2, <1>3, NilAssumption DEF File
<1>5. ASSUME ~outpaced' PROVE ~outpaced /\ n.cur = m.cur /\ n.job = m.job
  <2>1. ~outpaced /\ n = [m EXCEPT !.hash = n.hash]
    BY <1>1, <1>5
  <2> HIDE DEF n, m
  <2> QED
    BY <1>3, <2>1 DEF Manifest
<1>6. ~outpaced' => /\ InOrderTo(g.turns, g.manifest.cur)
                    /\ JobAhead(g.turns, g.manifest)
  <2>1. ~outpaced => /\ InOrderTo(dir[d].turns, m.cur)
                     /\ JobAhead(dir[d].turns, m)
    BY <1>2, <1>3 DEF StoryInv, StoriesInv
  <2>2. JobAhead(dir[d].turns, m) /\ n.job = m.job => JobAhead(dir[d].turns, n)
    BY DEF JobAhead
  <2> HIDE DEF g, n, m
  <2> QED
    BY <1>4, <1>5, <2>1, <2>2
<1>7. ~halved => g.state \notin {Nil, "blank"}
  BY <1>1, <1>2, <1>4 DEF StoryInv, StatesInv, StateLeft, NoWork
<1>8. ~outpaced' /\ ~adrift => g.manifest.cur \in Ids(g.turns)
  <2>1. ~outpaced /\ ~adrift => m.cur \in Ids(dir[d].turns)
    BY <1>1, <1>2 DEF StoryInv, ServedInv, Up
  <2> HIDE DEF g, n, m
  <2> QED
    BY <1>4, <1>5, <2>1
<1>9. outpaced' \in BOOLEAN /\ adrift \in BOOLEAN /\ (outpaced => outpaced')
  BY <1>1 DEF StoryInv, StoryTypeOK
<1> HIDE DEF g, m, n, d
<1> QED
  BY <1>1, <1>2, <1>4, <1>6, <1>7, <1>8, <1>9, StoryChanged

LEMMA NewImported == ASSUME StoryInv, ImportNew PROVE StoryInv'
<1>1. PICK d \in Unused :
       work' = [dir |-> d, writes |-> CreateWrites(NewManifest, "seed", DraftTurns)]
  BY DEF ImportNew
<1>2. /\ pc = "import" /\ source # 0 /\ Listed = {} /\ pc' = "refresh" /\ edit = Nil
      /\ UNCHANGED <<source, dir, edit, deaths, outpaced, adrift, halved>>
      /\ jumbled' = (jumbled \/ ~Ascend(Headings)) /\ source \in 0..Len(Versions)
  BY Served DEF ImportNew, NotImported, StoryInv, StoryTypeOK
<1>3. DraftTurn \in 1..MaxTurn /\ source \in 1..Len(Versions)
  BY <1>2, DraftIs
<1>4. PICK m \in Manifest : m = NewManifest /\ m.cur = DraftTurn /\ m.job = 0
  <2>1. DraftTurn \in 0..MaxTurn /\ 0 \in 0..MaxTurn
    BY <1>3, Bounds
  <2>2. NewManifest \in Manifest /\ NewManifest.cur = DraftTurn /\ NewManifest.job = 0
    BY <1>3, <2>1 DEF Manifest, NewManifest
  <2> QED
    BY <2>2
<1>5. PICK t \in Seq(TurnRec) :
        /\ t = DraftTurns /\ t # <<>> /\ t[1].by = "draft" /\ m.cur \in Ids(t)
        /\ Ascend(Headings) => Growing(t) /\ NotBeyond(t, m.cur)
  BY <1>2, <1>4, DraftTurnsAre
<1>6. InOrderTo(t, m.cur)'
  <2>1. CASE Ascend(Headings)
    <3>1. (Growing(t) /\ NotBeyond(t, m.cur))'
      BY <1>5, <2>1 DEF Growing, NotBeyond
    <3> QED
      BY <3>1 DEF InOrderTo
  <2>2. CASE ~Ascend(Headings)
    <3>1. AsWritten(t)'
      BY <1>2, <1>5, <2>2 DEF AsWritten
    <3> QED
      BY <3>1 DEF InOrderTo
  <2> QED
    BY <2>1, <2>2
<1>7. d \in Dirs /\ dir[d] = Empty
  BY HectorAssumption DEF Unused, StoryInv, StartInv
<1> DEFINE all == CreateWrites(m, "seed", t)
<1>8. all \in Seq(FileWrite) /\ Len(all) > 1
  BY <1>4, <1>5, CreateWritesAre
<1>9. work' = [dir |-> d, writes |-> all]
  BY <1>1, <1>4, <1>5
<1>10. <<>> \o t = t
  BY <1>5
<1> HIDE DEF all
<1>11. StoryTypeOK'
  <2>1. work' \in [dir : Dirs \cup {Nil}, writes : Seq(FileWrite)]
    BY <1>7, <1>8, <1>9
  <2>2. jumbled' \in BOOLEAN
    BY <1>2 DEF StoryInv, StoryTypeOK
  <2> QED
    BY <1>2, <2>1, <2>2 DEF StoryInv, StoryTypeOK
<1>12. WorkInv'
  <2>1. Fits(m, "seed", t)'
    BY <1>4, <1>5, <1>6 DEF Fits, JobAhead, Ids
  <2>2. dir'[d].manifest = Nil /\ dir'[d].turns = <<>>
    BY <1>2, <1>7 DEF Empty
  <2>3. Writing(m, "seed", t)'
    BY <1>9, <1>10, <2>1, <2>2 DEF Writing, all
  <2>4. work'.dir \in Dirs
    BY <1>7, <1>9
  <2> QED
    BY <1>4, <1>5, <2>3, <2>4 DEF WorkInv
<1>13. StartInv'
  <2>1. work' # NoWork
    BY <1>8, <1>9 DEF NoWork
  <2> QED
    BY <1>2, <2>1 DEF StoryInv, StartInv, Listed, Empty, NoWork
<1>14. StoriesInv' /\ StatesInv'
  BY <1>2 DEF StoryInv, StoriesInv, StatesInv, Listed, Sorted, InOrderTo, AsWritten, JobAhead, Growing, NotBeyond
<1>15. ServedInv'
  BY <1>2 DEF ServedInv, Up
<1> QED
  BY <1>11, <1>12, <1>13, <1>14, <1>15 DEF StoryInv

\* What a refresh finds and what it makes of the manifest.
LEMMA RefreshFinds ==
  ASSUME StoryInv, Refresh
  PROVE  /\ Story \in Listed /\ Story \in Dirs /\ dir[Story] \in File
         /\ dir[Story].manifest \in Manifest /\ dir[Story].turns \in Seq(TurnRec)
         /\ edit = Nil /\ work = NoWork /\ source # 0
         /\ History \in SUBSET (1..MaxTurn) /\ HistoryTurn \in History
         /\ (\A t \in History : t <= HistoryTurn)
         /\ HistoryTurn \in 0..MaxTurn /\ MaxOf(Ids(dir[Story].turns)) \in 0..MaxTurn
<1>1. work = NoWork /\ pc = "refresh" /\ source # 0
  BY DEF Refresh
<1>2. Listed # {}
  BY <1>1 DEF StoryInv, StartInv
<1>3. /\ Story \in Listed /\ Story \in Dirs /\ dir[Story] \in File /\ edit = Nil
      /\ dir[Story].manifest \in Manifest /\ dir[Story].turns \in Seq(TurnRec)
  BY <1>1, <1>2, Served
<1>4. History \in SUBSET (1..MaxTurn) /\ HistoryTurn \in History /\ \A t \in History : t <= HistoryTurn
  BY <1>1, DraftIs DEF StoryInv, StoryTypeOK
<1>5. HistoryTurn \in 0..MaxTurn
  BY <1>4, Bounds
<1> QED
  BY <1>1, <1>3, <1>4, <1>5, IdsAre

LEMMA RefreshRaises ==
  ASSUME StoryInv, Refresh, NEW n,
         n = RaisedTo(dir[Story].manifest, Larger(MaxOf(Ids(dir[Story].turns)), HistoryTurn))
  PROVE  LET m == dir[Story].manifest
             last == MaxOf(Ids(dir[Story].turns))
         IN /\ n \in Manifest /\ n.job = m.job
            /\ n.cur >= m.cur /\ n.cur >= last /\ n.cur >= HistoryTurn
            /\ n.cur \in 0..MaxTurn /\ m.cur \in 0..MaxTurn
            /\ ~Unreached(m, dir[Story].turns) => n.cur \in {last, HistoryTurn}
            /\ ~outpaced => /\ JobAhead(dir[Story].turns, n)
                            /\ InOrderTo(dir[Story].turns, n.cur)
<1> DEFINE m == dir[Story].manifest
           last == MaxOf(Ids(dir[Story].turns))
           reach == Larger(last, HistoryTurn)
<1>1. /\ m \in Manifest /\ last \in 0..MaxTurn /\ HistoryTurn \in 0..MaxTurn /\ source # 0
      /\ source \in 0..Len(Versions) /\ dir[Story].turns \in Seq(TurnRec)
      /\ Story \in Listed /\ Story \in Dirs
  BY RefreshFinds DEF StoryInv, StoryTypeOK
<1>2. reach \in 0..MaxTurn /\ reach \in {last, HistoryTurn} /\ reach >= last /\ reach >= HistoryTurn
  <2> HIDE DEF last
  <2> QED
    BY <1>1, Bounds DEF Larger
<1>3. n = RaisedTo(m, reach)
  OBVIOUS
<1>4. Unreached(m, dir[Story].turns) <=> m.cur > reach
  BY DEF Unreached
<1> HIDE DEF m, reach, last
<1>5. /\ n \in Manifest /\ n.job = m.job /\ n.cur \in {m.cur, reach} /\ n.cur >= m.cur
      /\ n.cur >= reach /\ m.cur \in 0..MaxTurn /\ n.cur \in 0..MaxTurn
  <2>1. /\ n \in Manifest /\ n.job = m.job /\ n.cur \in {m.cur, reach} /\ n.cur >= m.cur
        /\ n.cur >= reach
    <3>1. m \in Manifest /\ reach \in 0..MaxTurn /\ source \in 0..Len(Versions) /\ source # 0
      BY <1>1, <1>2
    <3> QED
      BY <1>3, <3>1, Raised
  <2> QED
    BY <1>1, <2>1, ManifestIs
<1>6. n.cur >= last /\ n.cur >= HistoryTurn
  BY <1>1, <1>2, <1>5, Bounds
<1>7. ~Unreached(m, dir[Story].turns) => n.cur \in {last, HistoryTurn}
  BY <1>1, <1>2, <1>4, <1>5, Bounds
<1>8. ASSUME ~outpaced
      PROVE  /\ JobAhead(dir[Story].turns, n)
             /\ InOrderTo(dir[Story].turns, n.cur)
  <2>1. InOrderTo(dir[Story].turns, m.cur) /\ JobAhead(dir[Story].turns, m)
    BY <1>1, <1>8 DEF StoryInv, StoriesInv, m
  <2>2. m.cur \in Int /\ n.cur \in Int /\ m.cur <= n.cur
    BY <1>5, Bounds
  <2>3. InOrderTo(dir[Story].turns, n.cur)
    BY <1>1, <2>1, <2>2, InOrderMore
  <2> QED
    BY <1>5, <2>1, <2>3 DEF JobAhead
<1> QED
  BY <1>5, <1>6, <1>7, <1>8 DEF m, last

\* Nothing to do: the turns are those of the history.
LEMMA RefreshLeaves ==
  ASSUME StoryInv, Refresh, UNCHANGED <<dir, work, outpaced>>,
         dir[Story].turns = HistoryTurns
  PROVE  StoryInv'
<1> DEFINE d == Story
           m == dir[d].manifest
           turns == dir[d].turns
<1>1. /\ d \in Listed /\ d \in Dirs /\ dir[d] \in File /\ m \in Manifest /\ turns \in Seq(TurnRec)
      /\ edit = Nil /\ work = NoWork
      /\ History \in SUBSET (1..MaxTurn) /\ HistoryTurn \in History
      /\ (\A t \in History : t <= HistoryTurn)
      /\ HistoryTurn \in 0..MaxTurn /\ MaxOf(Ids(turns)) \in 0..MaxTurn
  BY RefreshFinds
<1>2. /\ adrift' = (adrift \/ Unreached(m, turns)) /\ pc' = "up"
      /\ UNCHANGED <<source, edit, deaths, halved, jumbled>>
  BY DEF Refresh
<1>3. Ids(turns) = History /\ ~AsWritten(turns)
  BY <1>1, HistoryTurnsAre DEF Refresh, StoryInv, StoryTypeOK
<1>4. m.cur \in 0..MaxTurn
  BY <1>1, ManifestIs
<1>5. ~outpaced => InOrderTo(turns, m.cur) /\ JobAhead(turns, m)
  BY <1>1 DEF StoryInv, StoriesInv
<1>6. ~halved => dir[d].state \notin {Nil, "blank"}
  BY <1>1 DEF StoryInv, StatesInv, StateLeft, NoWork
<1>7. m # Nil
  BY <1>1, NilAssumption
<1>8. ASSUME ~outpaced, ~adrift' PROVE m.cur \in Ids(turns)
  <2>1. MaxOf(Ids(turns)) = HistoryTurn
    <3>1. History # {} /\ History \in SUBSET (0..MaxTurn)
      BY <1>1, Bounds
    <3> QED
      BY <1>3 DEF HistoryTurn
  <2>2. ~(m.cur > HistoryTurn)
    <3>1. ~(m.cur > Larger(MaxOf(Ids(turns)), HistoryTurn))
      BY <1>2, <1>8 DEF Unreached
    <3> HIDE DEF m, turns
    <3> QED
      BY <1>1, <2>1, <3>1, Bounds DEF Larger
  <2>3. PICK i \in DOMAIN turns : turns[i].id = HistoryTurn
    BY <1>1, <1>3 DEF Ids
  <2>4. HistoryTurn <= m.cur
    BY <1>3, <1>5, <1>8, <2>3 DEF InOrderTo, NotBeyond
  <2>5. m.cur = HistoryTurn
    <3> HIDE DEF m
    <3> QED
      BY <1>1, <1>4, <2>2, <2>4, Bounds
  <2> QED
    BY <1>1, <1>3, <2>5
<1>9. dir' = [dir EXCEPT ![d] = dir[d]]
  BY <1>1 DEF StoryInv, StoryTypeOK
<1>10. outpaced \in BOOLEAN /\ adrift' \in BOOLEAN
  BY <1>2 DEF StoryInv, StoryTypeOK, Unreached
<1> DEFINE g == dir[d]
<1>11. /\ g \in File /\ g.manifest # Nil /\ dir' = [dir EXCEPT ![d] = g]
       /\ (~outpaced => /\ InOrderTo(g.turns, g.manifest.cur)
                        /\ JobAhead(g.turns, g.manifest))
       /\ (~halved => g.state \notin {Nil, "blank"})
       /\ (~outpaced /\ ~adrift' => g.manifest.cur \in Ids(g.turns))
       /\ g.made = dir[d].made
  BY <1>1, <1>5, <1>6, <1>7, <1>8, <1>9
<1> HIDE DEF g, m, turns, d
<1> QED
  BY <1>1, <1>2, <1>10, <1>11, StoryChanged

\* The story has gone on beyond the history: only the manifest is written.
LEMMA RefreshKeeps ==
  ASSUME StoryInv, Refresh, NEW n,
         n = RaisedTo(dir[Story].manifest, Larger(MaxOf(Ids(dir[Story].turns)), HistoryTurn)),
         PlayedOn(n, dir[Story].turns),
         dir' = [dir EXCEPT ![Story].manifest = n], UNCHANGED <<work, outpaced>>
  PROVE  StoryInv'
<1> DEFINE d == Story
           m == dir[d].manifest
           turns == dir[d].turns
           g == [dir[d] EXCEPT !.manifest = n]
<1>1. /\ d \in Listed /\ d \in Dirs /\ dir[d] \in File /\ m \in Manifest /\ turns \in Seq(TurnRec)
      /\ edit = Nil /\ work = NoWork
      /\ HistoryTurn \in 0..MaxTurn /\ MaxOf(Ids(turns)) \in 0..MaxTurn
  BY RefreshFinds
<1>2. /\ adrift' = (adrift \/ Unreached(m, turns)) /\ pc' = "up"
      /\ UNCHANGED <<source, edit, deaths, halved, jumbled>>
  BY DEF Refresh
<1>3. /\ n \in Manifest /\ n.cur \in 0..MaxTurn /\ n.cur >= MaxOf(Ids(turns)) /\ n.cur >= HistoryTurn
      /\ ~Unreached(m, turns) => n.cur \in {MaxOf(Ids(turns)), HistoryTurn}
      /\ ~outpaced => JobAhead(turns, n) /\ InOrderTo(turns, n.cur)
  BY RefreshRaises
<1>4. /\ g \in File /\ g.manifest = n /\ g.turns = turns
      /\ g.state = dir[d].state /\ g.made = dir[d].made /\ g.manifest # Nil
  BY <1>1, <1>3, NilAssumption DEF File
<1>5. dir' = [dir EXCEPT ![d] = g]
  OBVIOUS
<1>6. ASSUME ~Unreached(m, turns) PROVE n.cur \in Ids(turns)
  <2>1. n.cur = MaxOf(Ids(turns)) /\ MaxOf(Ids(turns)) > HistoryTurn
    <3>1. MaxOf(Ids(turns)) > HistoryTurn \/ n.cur > HistoryTurn
      BY DEF PlayedOn
    <3> DEFINE last == MaxOf(Ids(turns))
    <3>2. n.cur \in {last, HistoryTurn} /\ n.cur >= last
      BY <1>3, <1>6
    <3> HIDE DEF last
    <3> QED
      BY <1>1, <1>3, <3>1, <3>2, Bounds DEF last
  <2>2. Ids(turns) # {}
    <3>1. MaxOf(Ids(turns)) # 0
      BY <1>1, <2>1, Bounds
    <3> QED
      BY <3>1 DEF MaxOf
  <2>3. MaxOf(Ids(turns)) \in Ids(turns)
    <3>1. Ids(turns) \in SUBSET (0..MaxTurn)
      BY <1>1, IdsAre, Bounds
    <3> QED
      BY <2>2, <3>1, MaxOfIs, Bounds
  <2> QED
    BY <2>1, <2>3
<1>7. ~halved => g.state \notin {Nil, "blank"}
  BY <1>1, <1>4 DEF StoryInv, StatesInv, StateLeft, NoWork
<1>8. outpaced \in BOOLEAN /\ adrift' \in BOOLEAN /\ (~adrift' => ~Unreached(m, turns))
  BY <1>2 DEF StoryInv, StoryTypeOK, Unreached
<1>9. /\ (~outpaced => /\ InOrderTo(g.turns, g.manifest.cur)
                       /\ JobAhead(g.turns, g.manifest))
      /\ (~outpaced /\ ~adrift' => g.manifest.cur \in Ids(g.turns))
  <2> HIDE DEF g, m, turns
  <2> QED
    BY <1>3, <1>4, <1>6, <1>8
<1>10. work' = NoWork /\ edit' = Nil
  BY <1>1, <1>2
<1> HIDE DEF g, m, turns, d
<1> QED
  BY <1>1, <1>2, <1>4, <1>5, <1>7, <1>8, <1>9, <1>10, StoryChanged

\* The files of the story are removed and the turns of the history written.
LEMMA RefreshReplaces ==
  ASSUME StoryInv, Refresh, NEW n,
         n = RaisedTo(dir[Story].manifest, Larger(MaxOf(Ids(dir[Story].turns)), HistoryTurn)),
         outpaced' = (outpaced \/ Overtakes(HistoryTurn, dir[Story].manifest)),
         ~PlayedOn(n, dir[Story].turns),
         work' = [dir |-> Story, writes |->
                    ReplaceWrites(n, KeptState(Story), HistoryTurns)],
         UNCHANGED dir
  PROVE  StoryInv'
<1>1. /\ Story \in Listed /\ Story \in Dirs /\ dir[Story] \in File
      /\ dir[Story].manifest \in Manifest /\ dir[Story].turns \in Seq(TurnRec)
      /\ edit = Nil /\ work = NoWork /\ source # 0
      /\ History \in SUBSET (1..MaxTurn) /\ HistoryTurn \in History
      /\ (\A x \in History : x <= HistoryTurn)
      /\ HistoryTurn \in 0..MaxTurn /\ MaxOf(Ids(dir[Story].turns)) \in 0..MaxTurn
  BY RefreshFinds
<1>2. /\ pc' = "up" /\ UNCHANGED <<source, edit, deaths, halved, jumbled>>
      /\ adrift' = (adrift \/ Unreached(dir[Story].manifest, dir[Story].turns))
  BY DEF Refresh
<1>3. PICK d \in Dirs : d = Story
  BY <1>1
<1>4. /\ n \in Manifest /\ n.cur \in 0..MaxTurn /\ n.cur >= HistoryTurn
      /\ n.job = dir[d].manifest.job
  BY <1>3, RefreshRaises
<1>5. n.cur = HistoryTurn /\ NotBeyond(dir[d].turns, HistoryTurn)
  <2>1. ~(MaxOf(Ids(dir[d].turns)) > HistoryTurn) /\ ~(n.cur > HistoryTurn)
    BY <1>3 DEF PlayedOn
  <2> DEFINE last == MaxOf(Ids(dir[d].turns))
  <2>2. last \in 0..MaxTurn
    BY <1>1, <1>3
  <2>3. last <= HistoryTurn /\ n.cur = HistoryTurn /\ HistoryTurn \in Int
    <3> HIDE DEF last
    <3>1. ~(last > HistoryTurn)
      BY <2>1 DEF last
    <3> QED
      BY <1>1, <1>4, <2>1, <2>2, <3>1, Bounds
  <2> QED
    BY <1>1, <1>3, <2>3, IdsAre
<1>6. PICK t \in Seq(TurnRec) : t = HistoryTurns /\ Ids(t) = History /\ Growing(t)
  BY <1>1, HistoryTurnsAre DEF StoryInv, StoryTypeOK
<1>7. n.cur \in Ids(t) /\ NotBeyond(t, n.cur) /\ InOrderTo(t, n.cur)
  BY <1>1, <1>5, <1>6 DEF NotBeyond, InOrderTo, Ids
<1>8. PICK st \in {"seed", "played", "blank"} : st = KeptState(d) /\ (~halved => st # "blank")
  <2>1. dir[d].state \in {"seed", "played", "blank", Nil}
    BY <1>1, <1>3 DEF File
  <2>2. ~halved => dir[d].state \notin {Nil, "blank"}
    BY <1>1, <1>3 DEF StoryInv, StatesInv, StateLeft, NoWork
  <2> QED
    BY <2>1, <2>2 DEF KeptState
<1> DEFINE all == ReplaceWrites(n, st, t)
<1>9. all \in Seq(FileWrite) /\ Len(all) > 1 /\ Head(all) = <<"remove", "turns">>
  BY <1>4, RemovedFirst DEF ReplaceWrites
<1>10. work' = [dir |-> d, writes |-> all]
  BY <1>3, <1>6, <1>8
<1> HIDE DEF all
<1>11. /\ outpaced' \in BOOLEAN /\ adrift' \in BOOLEAN
       /\ (~outpaced' => ~outpaced /\ ~Overtakes(HistoryTurn, dir[d].manifest))
  BY <1>2, <1>3 DEF StoryInv, StoryTypeOK, Unreached, Overtakes
<1>12. StoryTypeOK'
  <2>1. work' \in [dir : Dirs \cup {Nil}, writes : Seq(FileWrite)]
    BY <1>9, <1>10
  <2> QED
    BY <1>2, <1>11, <2>1 DEF StoryInv, StoryTypeOK
<1>13. work' # NoWork /\ ~StateLeft'
  BY <1>9, <1>10 DEF NoWork, StateLeft
<1>14. d \in Listed /\ Listed = {d} /\ dir[d].manifest # Nil
  BY <1>1, <1>3, Served, NilAssumption
<1>15. WorkInv'
  <2>0. ~outpaced' => n.job = 0 \/ NotBeyond(t, n.job - 1)
    <3>1. ~outpaced' => n.job = 0 \/ HistoryTurn <= n.job - 1
      <4>1. n.job \in 0..MaxTurn /\ HistoryTurn \in 0..MaxTurn /\ MaxTurn \in Nat
        BY <1>1, <1>4, HectorAssumption DEF Manifest
      <4>2. ~outpaced' => ~(n.job # 0 /\ HistoryTurn >= n.job)
        BY <1>4, <1>11 DEF Overtakes
      <4> DEFINE j == n.job
                 h == HistoryTurn
      <4>3. j \in 0..MaxTurn /\ h \in 0..MaxTurn /\ ~(j # 0 /\ h >= j) => j = 0 \/ h <= j - 1
        <5> HIDE DEF j, h
        <5> QED
          BY <4>1
      <4> QED
        BY <4>1, <4>2, <4>3
    <3>2. n.job - 1 \in Int /\ HistoryTurn \in Int
      BY <1>1, <1>4, Bounds DEF Manifest
    <3> QED
      BY <1>5, <1>6, <1>7, <3>1, <3>2, NotBeyondMore
  <2>1. Fits(n, st, t)'
    BY <1>2, <1>4, <1>6, <1>7, <1>8, <1>11, <2>0
       DEF Fits, Sorted, InOrderTo, AsWritten, JobAhead, Growing, NotBeyond, Ids
  <2>2. dir'[d].manifest # Nil /\ source' # 0 /\ NotBeyond(dir'[d].turns, HistoryTurn')
    BY <1>1, <1>2, <1>5, <1>14 DEF NotBeyond, HistoryTurn, History, Headings
  <2>3. Writing(n, st, t)'
    <3>1. work'.dir = d /\ work'.writes = ReplaceWrites(n, st, t)
      BY <1>10 DEF all
    <3> QED
      BY <2>1, <2>2, <3>1 DEF Writing, NotBeyond
  <2>4. work'.dir \in Dirs
    BY <1>10
  <2> QED
    BY <1>4, <2>3, <2>4 DEF WorkInv
<1>16. StartInv'
  <2>1. work' # NoWork' /\ work'.dir = d /\ Listed' = {d}
    BY <1>10, <1>13, <1>14 DEF NoWork, Listed
  <2>2. \A e \in Dirs : ~dir'[e].made => dir'[e] = Empty
    BY DEF StoryInv, StartInv
  <2> QED
    BY <1>1, <1>2, <2>1, <2>2 DEF StartInv, Empty
<1>17. StoriesInv'
  BY <1>2, <1>11 DEF StoryInv, StoriesInv, Listed, Sorted, InOrderTo, AsWritten, JobAhead, Growing, NotBeyond
<1>18. StatesInv'
  <2>1. ~halved => \A e \in Listed : dir[e].state \notin {Nil, "blank"}
    BY <1>1 DEF StoryInv, StatesInv, StateLeft, NoWork
  <2> QED
    BY <1>2, <2>1 DEF StatesInv, Listed
<1>19. ServedInv'
  BY <1>13 DEF ServedInv, Up, NoWork
<1> QED
  BY <1>12, <1>15, <1>16, <1>17, <1>18, <1>19 DEF StoryInv

LEMMA Refreshed == ASSUME StoryInv, Refresh PROVE StoryInv'
<1> DEFINE m == dir[Story].manifest
           turns == dir[Story].turns
           n == RaisedTo(m, Larger(MaxOf(Ids(turns)), HistoryTurn))
<1>1. CASE m.hash = source /\ turns = HistoryTurns
  BY <1>1, RefreshLeaves DEF Refresh
<1>2. CASE ~(m.hash = source /\ turns = HistoryTurns)
  <2>2. CASE PlayedOn(n, turns)
    <3>1. dir' = [dir EXCEPT ![Story].manifest = n] /\ UNCHANGED <<work, outpaced>>
      BY <1>2, <2>2 DEF Refresh, RaisedTo
    <3> QED
      BY <2>2, <3>1, RefreshKeeps
  <2>3. CASE ~PlayedOn(n, turns)
    <3>1. /\ work' = [dir |-> Story, writes |->
                        ReplaceWrites(n, KeptState(Story), HistoryTurns)]
          /\ outpaced' = (outpaced \/ Overtakes(HistoryTurn, m))
          /\ UNCHANGED dir
      BY <1>2, <2>3 DEF Refresh, RaisedTo
    <3> QED
      BY <2>3, <3>1, RefreshReplaces
  <2> QED
    BY <2>2, <2>3
<1> QED
  BY <1>1, <1>2

\* What each write of a start leaves in the files of a story.
LEMMA WriteIs ==
  ASSUME NEW f \in File
  PROVE  /\ \A r \in TurnRec : LET g == Write(f, <<"turn", r>>) IN
              /\ g \in File /\ g.made = TRUE /\ g.turns = Append(f.turns, r)
              /\ g.manifest = f.manifest /\ g.state = f.state
         /\ \A m \in Manifest : LET g == Write(f, <<"manifest", m>>) IN
              /\ g \in File /\ g.made = TRUE /\ g.turns = f.turns
              /\ g.manifest = m /\ g.state = f.state
         /\ \A st \in {"seed", "played", "blank"} : LET g == Write(f, <<"state", st>>) IN
              /\ g \in File /\ g.made = f.made /\ g.turns = f.turns
              /\ g.manifest = f.manifest /\ g.state = st
         /\ LET g == Write(f, <<"remove", "turns">>) IN
              /\ g \in File /\ g.made = f.made /\ g.turns = <<>>
              /\ g.manifest = f.manifest /\ g.state = f.state
         /\ LET g == Write(f, <<"remove", "manifest">>) IN
              /\ g \in File /\ g.made = f.made /\ g.turns = f.turns
              /\ g.manifest = Nil /\ g.state = f.state
         /\ LET g == Write(f, <<"remove", "state">>) IN
              /\ g \in File /\ g.made = f.made /\ g.turns = f.turns
              /\ g.manifest = f.manifest /\ g.state = Nil
<1>1. ASSUME NEW r \in TurnRec
      PROVE  LET g == Write(f, <<"turn", r>>) IN
              /\ g \in File /\ g.made = TRUE /\ g.turns = Append(f.turns, r)
              /\ g.manifest = f.manifest /\ g.state = f.state
  <2>1. Append(f.turns, r) \in Seq(TurnRec)
    BY DEF File
  <2> QED
    BY <2>1 DEF Write, File
<1>2. ASSUME NEW m \in Manifest
      PROVE  LET g == Write(f, <<"manifest", m>>) IN
              /\ g \in File /\ g.made = TRUE /\ g.turns = f.turns
              /\ g.manifest = m /\ g.state = f.state
  BY DEF Write, File
<1>3. ASSUME NEW st \in {"seed", "played", "blank"}
      PROVE  LET g == Write(f, <<"state", st>>) IN
              /\ g \in File /\ g.made = f.made /\ g.turns = f.turns
              /\ g.manifest = f.manifest /\ g.state = st
  BY DEF Write, File
<1>4. LET g == Write(f, <<"remove", "turns">>) IN
        /\ g \in File /\ g.made = f.made /\ g.turns = <<>>
        /\ g.manifest = f.manifest /\ g.state = f.state
  <2>1. <<>> \in Seq(TurnRec)
    OBVIOUS
  <2>2. Write(f, <<"remove", "turns">>) = [f EXCEPT !.turns = <<>>]
    BY DEF Write
  <2> QED
    BY <2>1, <2>2 DEF File
<1>5. LET g == Write(f, <<"remove", "manifest">>) IN
        /\ g \in File /\ g.made = f.made /\ g.turns = f.turns
        /\ g.manifest = Nil /\ g.state = f.state
  BY DEF Write, File
<1>6. LET g == Write(f, <<"remove", "state">>) IN
        /\ g \in File /\ g.made = f.made /\ g.turns = f.turns
        /\ g.manifest = f.manifest /\ g.state = Nil
  BY DEF Write, File
<1> QED
  BY <1>1, <1>2, <1>3, <1>4, <1>5, <1>6

\* One file of the story that a start writes.
LEMMA FileWritten ==
  ASSUME StoryInv, work # NoWork, NEW d \in Dirs, d = work.dir,
         NEW g \in File, dir' = [dir EXCEPT ![d] = g],
         UNCHANGED <<source, pc, edit, deaths, traces>>,
         ~g.made => g = Empty,
         ~outpaced => /\ Sorted(g.turns)
                      /\ g.manifest # Nil => /\ InOrderTo(g.turns, g.manifest.cur)
                                             /\ JobAhead(g.turns, g.manifest),
         ~halved /\ g.manifest # Nil =>
           (work' # NoWork /\ StateLeft') \/ g.state \notin {Nil, "blank"},
         work' # NoWork => work'.dir = d /\ work'.writes \in Seq(FileWrite)
                           /\ work' = [dir |-> d, writes |-> work'.writes],
         work' = NoWork => /\ g.manifest # Nil
                           /\ ~outpaced /\ ~adrift => g.manifest.cur \in Ids(g.turns),
         WorkInv'
  PROVE  StoryInv'
<1>1. /\ Listed \subseteq {d} /\ pc \in {"refresh", "up"} /\ edit = Nil
      /\ dir \in [Dirs -> File]
  BY Served DEF StoryInv, StartInv, StoryTypeOK
<1>2. /\ dir' \in [Dirs -> File] /\ dir'[d] = g
      /\ (\A e \in Dirs : e # d => dir'[e] = dir[e])
      /\ (g.manifest # Nil => Listed' = {d}) /\ (g.manifest = Nil => Listed' = {})
  <2>1. /\ dir' \in [Dirs -> File] /\ dir'[d] = g
        /\ (\A e \in Dirs : e # d => dir'[e] = dir[e])
        /\ (g.manifest # Nil => Listed' = Listed \cup {d})
        /\ (g.manifest = Nil => Listed' = Listed \ {d})
    BY <1>1, OneWritten
  <2> QED
    BY <1>1, <2>1
<1>3. work' \in [dir : Dirs \cup {Nil}, writes : Seq(FileWrite)]
  <2>1. CASE work' = NoWork
    <3>1. <<>> \in Seq(FileWrite)
      OBVIOUS
    <3> QED
      BY <2>1, <3>1 DEF NoWork
  <2>2. CASE work' # NoWork
    BY <2>2
  <2> QED
    BY <2>1, <2>2
<1>4. StoryTypeOK'
  BY <1>2, <1>3 DEF StoryInv, StoryTypeOK
<1>5. StartInv'
  <2>1. \A e \in Dirs : ~dir'[e].made => dir'[e] = Empty
    BY <1>2 DEF StoryInv, StartInv
  <2>2. work' = NoWork => Listed' # {}
    BY <1>2
  <2>3. work' # NoWork => Listed' \subseteq {work'.dir}
    BY <1>2
  <2>4. \A a, e \in Listed' : a = e
    BY <1>2
  <2>5. NoWork' = NoWork
    BY DEF NoWork
  <2> QED
    BY <1>1, <2>1, <2>2, <2>3, <2>4, <2>5 DEF StartInv, Empty
<1>6. StoriesInv'
  <2>1. ASSUME ~outpaced', NEW e \in Dirs
        PROVE  /\ Sorted(dir'[e].turns)
               /\ e \in Listed' => /\ InOrderTo(dir'[e].turns, dir'[e].manifest.cur)
                                   /\ JobAhead(dir'[e].turns, dir'[e].manifest)
    <3>1. CASE e = d
      BY <1>2, <2>1, <3>1 DEF InOrderTo, Sorted
    <3>2. CASE e # d
      BY <1>2, <2>1, <3>2 DEF StoryInv, StoriesInv
    <3> QED
      BY <3>1, <3>2
  <2>2. jumbled' = jumbled
    OBVIOUS
  <2> QED
    BY <2>1, <2>2, StoriesKept
<1>7. StatesInv'
  <2> SUFFICES ASSUME ~halved', NEW e \in Listed'
               PROVE  (StateLeft' /\ work'.dir = e) \/ dir'[e].state \notin {Nil, "blank"}
    BY DEF StatesInv
  <2> QED
    BY <1>2
<1>8. ServedInv'
  <2>1. Up' => work' = NoWork
    BY DEF Up, NoWork
  <2> QED
    BY <1>2, <2>1 DEF ServedInv, Ids
<1> QED
  BY <1>4, <1>5, <1>6, <1>7, <1>8 DEF StoryInv

LEMMA MoreThanOne ==
  ASSUME NEW S, NEW s \in Seq(S), Len(s) > 1
  PROVE  Tail(s) \in Seq(S) /\ Tail(s) # <<>> /\ Len(s) # 1
<1>1. Len(s) \in Nat /\ s # <<>>
  OBVIOUS
<1>2. Tail(s) \in Seq(S) /\ Len(Tail(s)) = Len(s) - 1
  BY <1>1, HeadTailProperties
<1>3. Len(Tail(s)) # 0 /\ Len(s) # 1
  BY <1>1, <1>2
<1>4. Tail(s) # <<>>
  BY <1>3, EmptySeq
<1> QED
  BY <1>2, <1>3, <1>4

LEMMA WrittenNext == ASSUME StoryInv, WriteNext PROVE StoryInv'
<1>1. work # NoWork
  BY DEF WriteNext, NoWork
<1>2. PICK m \in Manifest, st \in {"seed", "played", "blank"}, rest \in Seq(TurnRec) :
        Writing(m, st, rest)
  BY <1>1 DEF StoryInv, WorkInv
<1>3. PICK d \in Dirs : d = work.dir
  BY <1>1 DEF StoryInv, WorkInv
<1>4. PICK f \in File : f = dir[d]
  BY DEF StoryInv, StoryTypeOK
<1>5. /\ dir' = [dir EXCEPT ![d] = Write(f, Head(work.writes))]
      /\ work' = IF Len(work.writes) = 1 THEN NoWork ELSE [dir |-> d, writes |-> Tail(work.writes)]
      /\ UNCHANGED <<source, pc, edit, deaths, traces>>
      /\ work.writes \in Seq(FileWrite) /\ work.writes # <<>>
  <2>1. work \in [dir : Dirs \cup {Nil}, writes : Seq(FileWrite)] /\ work.writes # <<>>
    BY DEF WriteNext, StoryInv, StoryTypeOK
  <2>2. /\ dir' = [dir EXCEPT ![d] = Write(f, Head(work.writes))]
        /\ work' = IF Len(work.writes) = 1 THEN NoWork
                   ELSE [dir |-> work.dir, writes |-> Tail(work.writes)]
        /\ UNCHANGED <<source, pc, edit, deaths, traces>>
    BY <1>3, <1>4 DEF WriteNext
  <2> QED
    BY <1>3, <2>1, <2>2
<1>6. /\ ~f.made => f = Empty
      /\ f.turns \in Seq(TurnRec) /\ f.manifest \in Manifest \cup {Nil}
      /\ ~halved => f.manifest = Nil \/ StateLeft \/ f.state \notin {Nil, "blank"}
      /\ ~outpaced => Sorted(f.turns)
  BY <1>3, <1>4 DEF StoryInv, StartInv, StatesInv, StoriesInv, Listed, File
<1>7. ASSUME NEW g \in File, g = Write(f, Head(work.writes)), Len(work.writes) > 1,
             ~g.made => g = Empty,
             ~outpaced => /\ Sorted(g.turns)
                          /\ g.manifest # Nil => /\ InOrderTo(g.turns, g.manifest.cur)
                                                 /\ JobAhead(g.turns, g.manifest),
             ~halved /\ g.manifest # Nil =>
               Head(Tail(work.writes))[1] = "state" \/ g.state \notin {Nil, "blank"},
             dir'[d] = g /\ work'.dir = d /\ work'.writes = Tail(work.writes)
               => \E k \in Seq(TurnRec) : Writing(m, st, k)'
      PROVE  StoryInv'
  <2>1. /\ Tail(work.writes) \in Seq(FileWrite) /\ Tail(work.writes) # <<>>
        /\ work' = [dir |-> d, writes |-> Tail(work.writes)] /\ dir' = [dir EXCEPT ![d] = g]
    <3>1. Tail(work.writes) \in Seq(FileWrite) /\ Tail(work.writes) # <<>> /\ Len(work.writes) # 1
      BY <1>5, <1>7, MoreThanOne
    <3> QED
      BY <1>5, <1>7, <3>1
  <2>2. dir'[d] = g
    BY <2>1 DEF StoryInv, StoryTypeOK
  <2>3. work' # NoWork /\ work'.dir = d /\ work'.writes = Tail(work.writes)
    BY <2>1 DEF NoWork
  <2>4. WorkInv'
    <3>1. PICK k \in Seq(TurnRec) : Writing(m, st, k)'
      BY <1>7, <2>2, <2>3
    <3> QED
      BY <2>3, <3>1 DEF WorkInv
  <2>5. Head(Tail(work.writes))[1] = "state" => StateLeft'
    BY <2>1, <2>3 DEF StateLeft
  <2> QED
    BY <1>1, <1>3, <1>5, <1>7, <2>1, <2>3, <2>4, <2>5, FileWritten
<1> DEFINE all == CreateWrites(m, st, rest)
           a == <<"remove", "turns">>
           b == <<"remove", "manifest">>
           c == <<"remove", "state">>
           s == <<"state", st>>
<1>8. /\ Head(<<c>> \o all) = c /\ Tail(<<c>> \o all) = all /\ Len(<<c>> \o all) > 1
      /\ Head(<<b, c>> \o all) = b /\ Tail(<<b, c>> \o all) = <<c>> \o all /\ Len(<<b, c>> \o all) > 1
      /\ Head(<<a, b, c>> \o all) = a /\ Tail(<<a, b, c>> \o all) = <<b, c>> \o all
      /\ Len(<<a, b, c>> \o all) > 1
  BY RemovedFirst
<1>9. CASE /\ work.writes = ReplaceWrites(m, st, rest)
           /\ f.manifest # Nil /\ source # 0 /\ NotBeyond(f.turns, HistoryTurn)
           /\ Fits(m, st, rest)
  <2>1. work.writes = <<a, b, c>> \o all
    BY <1>9 DEF ReplaceWrites
  <2>2. PICK g \in File : /\ g = Write(f, a) /\ g.made = f.made /\ g.turns = <<>>
                          /\ g.manifest = f.manifest /\ g.state = f.state
    BY WriteIs
  <2>3. InOrderTo(g.turns, g.manifest.cur) /\ Sorted(g.turns)
    BY <2>2 DEF Sorted, InOrderTo, Growing, NotBeyond
  <2>4. g.made = TRUE
    BY <1>6, <1>9, <2>2 DEF Empty, File
  <2>5. JobAhead(g.turns, g.manifest)
    BY <2>2 DEF JobAhead, NotBeyond
  <2>6. ~StateLeft
    BY <1>8, <2>1 DEF StateLeft
  <2>7. dir'[d] = g /\ work'.dir = d /\ work'.writes = <<b, c>> \o all => Writing(m, st, rest)'
    BY <1>5, <1>9, <2>2 DEF Writing, Fits, Sorted, InOrderTo, AsWritten, JobAhead, Growing, NotBeyond, Ids
  <2>8. /\ Head(work.writes) = a /\ Tail(work.writes) = <<b, c>> \o all
        /\ Len(work.writes) > 1
    BY <1>8, <2>1
  <2> HIDE DEF a, b, c, all
  <2> QED
    BY <1>6, <1>7, <1>9, <2>2, <2>3, <2>4, <2>5, <2>6, <2>7, <2>8
<1>10. CASE /\ work.writes = <<b, c>> \o all
            /\ f.manifest # Nil /\ f.turns = <<>>
            /\ Fits(m, st, rest)
  <2>2. PICK g \in File : /\ g = Write(f, b) /\ g.made = f.made /\ g.turns = f.turns
                          /\ g.manifest = Nil /\ g.state = f.state
    BY WriteIs
  <2>3. Sorted(g.turns)
    BY <1>10, <2>2 DEF Sorted, Growing
  <2>4. g.made = TRUE
    BY <1>6, <1>10, <2>2 DEF Empty, File
  <2>7. dir'[d] = g /\ work'.dir = d /\ work'.writes = <<c>> \o all => Writing(m, st, rest)'
    BY <1>5, <1>10, <2>2 DEF Writing, Fits, Sorted, InOrderTo, AsWritten, JobAhead, Growing, NotBeyond, Ids
  <2>8. Head(work.writes) = b /\ Tail(work.writes) = <<c>> \o all /\ Len(work.writes) > 1
    BY <1>8, <1>10
  <2> HIDE DEF a, b, c, all
  <2> QED
    BY <1>7, <2>2, <2>3, <2>4, <2>7, <2>8
<1>11. CASE /\ work.writes = <<c>> \o all
            /\ f.manifest = Nil /\ f.turns = <<>>
            /\ Fits(m, st, rest)
  <2>2. PICK g \in File : /\ g = Write(f, c) /\ g.made = f.made /\ g.turns = f.turns
                          /\ g.manifest = f.manifest /\ g.state = Nil
    BY WriteIs
  <2>3. Sorted(g.turns)
    BY <1>11, <2>2 DEF Sorted, Growing
  <2>4. ~g.made => g = Empty
    <3> SUFFICES ASSUME ~g.made PROVE g = Empty
      OBVIOUS
    <3>1. f = Empty /\ f.made = FALSE
      BY <1>6, <2>2 DEF File
    <3>2. Write(Empty, c) = Empty
      BY DEF Write, Empty
    <3> QED
      BY <2>2, <3>1, <3>2
  <2>5. <<>> \o rest = rest
    OBVIOUS
  <2>7. dir'[d] = g /\ work'.dir = d /\ work'.writes = all => Writing(m, st, rest)'
    BY <1>5, <1>11, <2>2, <2>5 DEF Writing, Fits, Sorted, InOrderTo, AsWritten, JobAhead, Growing, NotBeyond, Ids
  <2>8. Head(work.writes) = c /\ Tail(work.writes) = all /\ Len(work.writes) > 1
    BY <1>8, <1>11
  <2> HIDE DEF a, b, c, all
  <2> QED
    BY <1>7, <1>11, <2>2, <2>3, <2>4, <2>7, <2>8
<1>12. CASE /\ work.writes = all /\ rest # <<>>
            /\ f.manifest = Nil
            /\ Fits(m, st, f.turns \o rest)
  <2> DEFINE k == Tail(rest)
             r == Head(rest)
  <2>1. /\ Head(all) = <<"turn", r>> /\ Tail(all) = CreateWrites(m, st, k) /\ Len(all) > 1
    BY <1>12, CreateWritesAre
  <2>2. /\ r \in TurnRec /\ k \in Seq(TurnRec) /\ Append(f.turns, r) \in Seq(TurnRec)
        /\ Append(f.turns, r) \o k = f.turns \o rest
    BY <1>6, <1>12, TurnsJoined
  <2> HIDE DEF k, r, all
  <2>3. PICK g \in File : /\ g = Write(f, <<"turn", r>>) /\ g.made = TRUE /\ g.turns = Append(f.turns, r)
                          /\ g.manifest = f.manifest /\ g.state = f.state
    <3>1. LET g == Write(f, <<"turn", r>>) IN
            /\ g \in File /\ g.made = TRUE /\ g.turns = Append(f.turns, r)
            /\ g.manifest = f.manifest /\ g.state = f.state
      BY <2>2, WriteIs
    <3> QED
      BY <3>1
  <2>4. Sorted(g.turns)
    <3>1. Sorted(f.turns \o rest)
      BY <1>12 DEF Fits, InOrderTo, Sorted
    <3>2. Sorted(g.turns \o k)
      BY <2>2, <2>3, <3>1
    <3> QED
      BY <2>2, <2>3, <3>2, TurnsJoined
  <2>5. Fits(m, st, g.turns \o k)
    BY <1>12, <2>2, <2>3
  <2>6. PICK kk \in Seq(TurnRec) : kk = k
    BY <2>2
  <2>7. dir'[d] = g /\ work'.dir = d /\ work'.writes = CreateWrites(m, st, kk) => Writing(m, st, kk)'
    <3>1. Fits(m, st, g.turns \o kk)'
      BY <1>5, <2>5, <2>6 DEF Fits, Sorted, InOrderTo, AsWritten, JobAhead, Growing, NotBeyond, Ids
    <3> QED
      BY <1>12, <2>3, <3>1 DEF Writing
  <2>8. Head(work.writes) = <<"turn", r>> /\ Tail(work.writes) = CreateWrites(m, st, kk) /\ Len(work.writes) > 1
    BY <1>12, <2>1, <2>6
  <2> QED
    BY <1>7, <1>12, <2>3, <2>4, <2>7, <2>8
<1>13. CASE /\ work.writes = all /\ rest = <<>>
            /\ f.manifest = Nil
            /\ Fits(m, st, f.turns \o rest)
  <2>1. work.writes = <<<<"manifest", m>>, s>>
    BY <1>13, CreateWritesAre
  <2>2. PICK g \in File : /\ g = Write(f, <<"manifest", m>>) /\ g.made = TRUE /\ g.turns = f.turns
                          /\ g.manifest = m /\ g.state = f.state
    <3>1. LET g == Write(f, <<"manifest", m>>) IN
            /\ g \in File /\ g.made = TRUE /\ g.turns = f.turns
            /\ g.manifest = m /\ g.state = f.state
      BY WriteIs
    <3> QED
      BY <3>1
  <2>3. f.turns \o rest = f.turns
    BY <1>6, <1>13, TurnsJoined
  <2>4. Fits(m, st, f.turns)
    BY <1>13, <2>3
  <2>5. InOrderTo(g.turns, m.cur) /\ Sorted(g.turns) /\ (~outpaced => JobAhead(g.turns, m))
    BY <2>2, <2>4 DEF Fits, InOrderTo, Sorted
  <2>6. /\ Head(work.writes) = <<"manifest", m>> /\ Tail(work.writes) = <<s>>
        /\ Len(work.writes) > 1 /\ Head(<<s>>)[1] = "state"
    BY <2>1
  <2>7. dir'[d] = g /\ work'.dir = d /\ work'.writes = <<s>> => Writing(m, st, rest)'
    <3>1. Fits(m, st, g.turns)'
      BY <1>5, <2>2, <2>4 DEF Fits, Sorted, InOrderTo, AsWritten, JobAhead, Growing, NotBeyond, Ids
    <3> QED
      BY <2>2, <3>1 DEF Writing
  <2> HIDE DEF s, all
  <2> QED
    BY <1>7, <2>2, <2>5, <2>6, <2>7
<1>14. CASE /\ work.writes = <<s>>
            /\ f.manifest = m
            /\ Fits(m, st, f.turns)
  <2>1. Head(work.writes) = s /\ Len(work.writes) = 1
    BY <1>14
  <2>2. PICK g \in File : /\ g = Write(f, s) /\ g.made = f.made /\ g.turns = f.turns
                          /\ g.manifest = f.manifest /\ g.state = st
    <3>1. LET g == Write(f, s) IN
            /\ g \in File /\ g.made = f.made /\ g.turns = f.turns
            /\ g.manifest = f.manifest /\ g.state = st
      <4>1. \A x \in {"seed", "played", "blank"} : LET g == Write(f, <<"state", x>>) IN
              /\ g \in File /\ g.made = f.made /\ g.turns = f.turns
              /\ g.manifest = f.manifest /\ g.state = x
        BY WriteIs
      <4> QED
        BY <4>1
    <3> QED
      BY <3>1
  <2>3. m # Nil /\ st # Nil
    BY NilAssumption
  <2>4. g.made = TRUE
    BY <1>6, <1>14, <2>2, <2>3 DEF Empty, File
  <2>5. /\ InOrderTo(g.turns, m.cur) /\ Sorted(g.turns) /\ m.cur \in Ids(g.turns)
        /\ (~outpaced => JobAhead(g.turns, m)) /\ (~halved => st # "blank")
    BY <1>14, <2>2 DEF Fits, InOrderTo, Sorted
  <2>6. work' = NoWork /\ dir' = [dir EXCEPT ![d] = g]
    BY <1>5, <2>1, <2>2
  <2>7. WorkInv'
    BY <2>6 DEF WorkInv, NoWork
  <2> HIDE DEF s
  <2> QED
    BY <1>1, <1>3, <1>5, <1>14, <2>2, <2>3, <2>4, <2>5, <2>6, <2>7, FileWritten
<1> QED
  BY <1>2, <1>3, <1>4, <1>9, <1>10, <1>11, <1>12, <1>13, <1>14 DEF Writing

----------------------------------------------------------------------------
(* The theorems about the story *)

LEMMA StoryInitial == StoryInit => StoryInv
<1> SUFFICES ASSUME StoryInit PROVE StoryInv
  OBVIOUS
<1>1. Empty \in File /\ Empty.manifest = Nil /\ Empty.turns = <<>>
  BY DEF Empty, File
<1>2. Listed = {}
  BY <1>1 DEF StoryInit, Listed
<1>3. StoryTypeOK
  <2>1. NoWork \in [dir : Dirs \cup {Nil}, writes : Seq(FileWrite)]
    BY DEF NoWork
  <2>2. 1 \in 0..Len(Versions) /\ 0 \in 0..MaxDeaths
    BY Bounds
  <2> QED
    BY <1>1, <2>1, <2>2 DEF StoryInit, StoryTypeOK
<1>4. WorkInv /\ StartInv
  BY <1>2 DEF StoryInit, WorkInv, StartInv
<1>5. StoriesInv
  BY <1>1, <1>2 DEF StoryInit, StoriesInv, Sorted, Growing
<1>6. StatesInv /\ ServedInv
  BY <1>2 DEF StatesInv, ServedInv
<1> QED
  BY <1>3, <1>4, <1>5, <1>6 DEF StoryInv

LEMMA StoryNext == StoryInv /\ [Next]_serverVars => StoryInv'
<1> SUFFICES ASSUME StoryInv, [Next]_serverVars PROVE StoryInv'
  OBVIOUS
<1>1. CASE UNCHANGED storyVars
  BY <1>1, StoryStays
<1>2. CASE Start
  BY <1>2, StartBegins DEF Start
<1>3. CASE StartStep
  BY <1>3, NewImported, ImportedAgain, WrittenNext, Refreshed, StartHasFailed DEF StartStep
<1>4. CASE StoryPage
  BY <1>4, JobMoves, Submitted, ImportRead, RolledBack, Applied, ImportWritten DEF StoryPage
<1>5. CASE EditSource \/ RejectSource
  BY <1>5, SourceEdited
<1>6. CASE ServerDies
  BY <1>6, ServerDied DEF ServerDies
<1> QED
  BY <1>1, <1>2, <1>3, <1>4, <1>5, <1>6 DEF Next, serverVars, Page, Outside

THEOREM StoryInvariant == Spec => []StoryInv
<1>1. Init => StoryInv
  BY StoryInitial DEF Init
<1> QED
  BY <1>1, StoryNext, PTL DEF Spec

\* Users, sessions and the files of the stories keep their types: the writes
\* of a start are writes of whole manifests, states and turns.
THEOREM ServerTypes == Spec => []TypeOK
<1>1. AccountsInv /\ StoryInv => TypeOK
  BY DEF AccountsInv, StoryInv, TypeOK
<1> QED
  BY <1>1, AccountsInvariant, StoryInvariant, PTL

\* One story is served, whole, whatever starts died before and whatever the
\* draft became, but for the cases that the property names.
THEOREM ServedWhole == Spec => []ServedStoryIsWhole
<1>1. ASSUME StoryInv PROVE ServedStoryIsWhole
  <2> SUFFICES ASSUME Up
               PROVE  /\ Cardinality(Listed) = 1
                      /\ outpaced \/ adrift \/ dir[Story].manifest.cur \in Ids(dir[Story].turns)
                      /\ halved \/ dir[Story].state \notin {Nil, "blank"}
    BY DEF ServedStoryIsWhole
  <2>1. Listed # {} /\ work = NoWork
    BY <1>1 DEF StoryInv, StartInv, Up
  <2>2. Story \in Listed /\ Listed = {Story}
    BY <1>1, <2>1, Served
  <2>3. Cardinality(Listed) = 1
    BY <2>2, FS_Singleton
  <2>4. outpaced \/ adrift \/ dir[Story].manifest.cur \in Ids(dir[Story].turns)
    BY <1>1, <2>2 DEF StoryInv, ServedInv
  <2>5. halved \/ dir[Story].state \notin {Nil, "blank"}
    BY <1>1, <2>1, <2>2 DEF StoryInv, StatesInv, StateLeft, NoWork
  <2> QED
    BY <2>3, <2>4, <2>5
<1> QED
  BY <1>1, StoryInvariant, PTL

\* The turns of every story stay in order unless an import has raised the
\* current turn under a job or a rolled back story.
THEOREM TurnsOrdered == Spec => []TurnsStayInOrder
<1>1. StoryInv => TurnsStayInOrder
  BY DEF StoryInv, StoriesInv, Sorted, Growing, TurnsStayInOrder
<1> QED
  BY <1>1, StoryInvariant, PTL

\* No start takes away a turn that was played beyond the history, wherever it
\* dies: turns.jsonl is removed only when it has none.
THEOREM PlayedOnKept == Spec => PlayedOnSurvives
<1> DEFINE Kept ==
      \A d \in Listed : \A r \in ToSet(dir[d].turns) :
        source # 0 /\ r.by = "played" /\ r.id > HistoryTurn
          => Up \/ r \in ToSet(dir'[d].turns)
<1>1. ASSUME StoryInv, [Next]_serverVars PROVE [Kept]_storyVars
  <2> SUFFICES ASSUME ~UNCHANGED storyVars, ~Up, NEW d \in Listed, NEW r \in ToSet(dir[d].turns),
                      source # 0, r.id > HistoryTurn
               PROVE  r \in ToSet(dir'[d].turns)
    OBVIOUS
  <2>1. /\ d \in Dirs /\ dir[d] \in File /\ dir[d].manifest \in Manifest
        /\ dir[d].turns \in Seq(TurnRec) /\ Listed = {d} /\ Story = d
        /\ dir \in [Dirs -> File]
    BY <1>1, Served DEF StoryInv, StoryTypeOK
  <2>2. \/ BeginStart \/ ImportNew \/ ImportAgain \/ WriteNext \/ Refresh \/ StartFails
        \/ EditSource \/ RejectSource \/ Die
    BY <1>1 DEF Next, serverVars, Start, StartStep, Page, StoryPage, Outside, ServerDies,
                Submit, Fail, ResumeFailedJob, CancelFailedJob, BeginImport, Rollback, Apply,
                EndImport
  <2>3. CASE UNCHANGED dir
    BY <2>3
  <2>4. ASSUME NEW m, dir' = [dir EXCEPT ![d].manifest = m] PROVE r \in ToSet(dir'[d].turns)
    <3>1. dir'[d].turns = dir[d].turns
      BY <2>1, <2>4 DEF File
    <3> QED
      BY <3>1
  <2>5. CASE ImportAgain
    BY <2>1, <2>4, <2>5 DEF ImportAgain
  <2>6. CASE Refresh
    <3>1. UNCHANGED dir \/ \E m : dir' = [dir EXCEPT ![d].manifest = m]
      BY <2>1, <2>6 DEF Refresh
    <3> QED
      BY <2>3, <2>4, <3>1
  <2>7. CASE WriteNext
    <3>1. work # NoWork
      BY <2>7 DEF WriteNext, NoWork
    <3>2. work.dir = d
      BY <1>1, <3>1 DEF StoryInv, StartInv
    <3>3. PICK m \in Manifest, st \in {"seed", "played", "blank"}, rest \in Seq(TurnRec) :
            Writing(m, st, rest)
      BY <1>1, <3>1 DEF StoryInv, WorkInv
    <3>4. PICK i \in DOMAIN dir[d].turns : dir[d].turns[i] = r
      BY DEF ToSet
    <3>5. ~NotBeyond(dir[d].turns, HistoryTurn)
      <4>1. HistoryTurn \in 1..MaxTurn
        BY <1>1, DraftIs DEF StoryInv, StoryTypeOK
      <4>2. dir[d].turns[i] \in TurnRec
        BY <2>1
      <4>3. r.id \in 1..MaxTurn /\ ~(r.id <= HistoryTurn)
        BY <3>4, <4>1, <4>2, Bounds DEF TurnRec
      <4> QED
        BY <3>4, <4>3 DEF NotBeyond
    <3>6. dir[d].turns # <<>> /\ dir[d].manifest # Nil
      BY <2>1, <3>4, NilAssumption
    <3>7. work.writes = <<<<"state", st>>>>
      BY <3>2, <3>3, <3>5, <3>6 DEF Writing
    <3>8. dir'[d] = Write(dir[d], <<"state", st>>)
      BY <2>1, <2>7, <3>2, <3>7 DEF WriteNext
    <3>9. LET g == Write(dir[d], <<"state", st>>) IN g.turns = dir[d].turns
      BY <2>1, WriteIs
    <3> QED
      BY <3>8, <3>9
  <2> QED
    BY <2>2, <2>3, <2>5, <2>6, <2>7
      DEF BeginStart, ImportNew, StartFails, EditSource, RejectSource, Die
<1>2. Spec => [][Kept]_storyVars
  BY <1>1, StoryInvariant, PTL DEF Spec
<1> QED
  BY <1>2 DEF PlayedOnSurvives
=============================================================================
